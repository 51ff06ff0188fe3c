------------------------- MODULE ForkDatabaseProofs -------------------------
(***************************************************************************)
(* What the multi-fork database guarantees for every set of accounts and   *)
(* forks, every depth of calls and every number of inputs: the environment *)
(* is that of the active fork, a revert finds its accounts, remote state   *)
(* is isolated, local state travels, and a reverted frame leaves no trace. *)
(***************************************************************************)
EXTENDS ForkDatabase, ProofBasics, TLAPS

-----------------------------------------------------------------------------
(* The shape of the state.                                                 *)

\* What an account can hold.
Value == {Empty, Rich} \cup {Written(f) : f \in Forks \cup {Sandbox}}
            \cup {ChainValue[f][a] : f \in Forks, a \in Addr}
Account == [val : Value, touched : BOOLEAN]
Entry == UNION {[A -> Account] : A \in SUBSET Addr}
Frame == [at : Nat, seen : [Addr -> Value], registry : SUBSET Addr, clean : BOOLEAN]
Overlays == [Addr -> Value \cup {NotCached}]

\* A database: the active fork has an overlay.
DbOK(act, fs) ==
    /\ DOMAIN fs \subseteq Forks \cup {Sandbox}
    /\ act \in DOMAIN fs
    /\ fs \in [DOMAIN fs -> Overlays]

TypeOK ==
    /\ DbOK(active, forks)
    /\ base = <<>> \/ DbOK(base[1], base[2])
    /\ registry \in SUBSET Addr
    /\ state \in [Addr -> Account \cup {NotLoaded}]
    /\ journal \in Seq(Entry)
    /\ frames \in Seq(Frame)
    /\ running \in BOOLEAN /\ held \in BOOLEAN

\* Between transactions the journal is empty.
Quiet == ~running => /\ state = [a \in Addr |-> NotLoaded]
                     /\ journal = <<>> /\ frames = <<>>

\* The marks of absence are no values.
LEMMA MarksAreNoValues ==
    /\ NotCached \notin Value
    /\ \A x \in Account : x # NotLoaded
    /\ NotLoaded.touched = FALSE
<1>1. NotCached # NotLoaded.val
    BY DEF NotCached, NotLoaded
<1>2. \A f : Written(f) \notin {NotCached, NotLoaded.val}
    BY DEF NotCached, NotLoaded, Written
<1>3. Empty \notin {NotCached, NotLoaded.val} /\ Rich \notin {NotCached, NotLoaded.val}
    BY DEF NotCached, NotLoaded, Empty, Rich
<1>4. \A v \in Value : v \notin {NotCached, NotLoaded.val}
    BY <1>2, <1>3, ChainAssumption DEF Value
<1> QED
    BY <1>4 DEF Account, NotLoaded

\* A read finds a value.
LEMMA ReadFindsValue ==
    ASSUME TypeOK, NEW f \in DOMAIN forks, NEW a \in Addr
    PROVE  /\ Overlay(f) = forks[f]
           /\ Read(f, a) \in Value
           /\ Backing(f, a) \in Value
<1>1. f = Sandbox \/ f \in Forks
    BY DEF TypeOK, DbOK
<1>2. Backing(f, a) \in Value
    BY <1>1 DEF Backing, Value
<1>3. forks[f][a] \in Value \cup {NotCached}
    BY DEF TypeOK, DbOK, Overlays
<1> QED
    BY <1>2, <1>3 DEF Read, Overlay

\* So does code that runs on the active fork.
LEMMA SeenIsValue ==
    ASSUME TypeOK, NEW a \in Addr
    PROVE  SeenNow(a) \in Value
<1>1. Loaded(a) => state[a].val \in Value
    BY DEF TypeOK, Loaded, Account
<1>2. Read(active, a) \in Value
    BY ReadFindsValue DEF TypeOK, DbOK
<1> QED
    BY <1>1, <1>2 DEF SeenNow, Seen

-----------------------------------------------------------------------------
(* journal.retain.                                                         *)

\* The n-th step of the scan of the journal.
RetainStep(kept, n) ==
    IF n = 0 THEN <<>>
    ELSE IF KeepsEntry(journal[n]) THEN Append(kept[n - 1], journal[n]) ELSE kept[n - 1]

\* The scan is a function of the index: there is one, step by step.
LEMMA RetainScanExists ==
    ASSUME journal \in Seq(Entry)
    PROVE  \E kept : kept = [n \in 0 .. Len(journal) |-> RetainStep(kept, n)]
<1> DEFINE L == Len(journal)
           S == {m \in 0 .. L : \E g : g = [n \in 0 .. m |-> RetainStep(g, n)]}
<1>0. L \in Nat
    OBVIOUS
<1>1. 0 \in S
    <2> DEFINE g == [n \in 0 .. 0 |-> <<>>]
    <2>1. g = [n \in 0 .. 0 |-> RetainStep(g, n)]
        BY DEF RetainStep
    <2> QED
        BY <1>0, <2>1
<1>2. ASSUME NEW m \in 1 .. L, m - 1 \in S
      PROVE  m \in S
    <2>1. PICK g : g = [n \in 0 .. m - 1 |-> RetainStep(g, n)]
        BY <1>2
    <2> DEFINE h == [n \in 0 .. m |-> IF n < m THEN g[n] ELSE RetainStep(g, m)]
    <2>2. \A n \in 0 .. m : h[n] = RetainStep(h, n)
        <3> TAKE n \in 0 .. m
        <3>1. n # 0 => h[n - 1] = g[n - 1]
            BY <1>0
        <3>2. RetainStep(h, n) = RetainStep(g, n)
            BY <3>1 DEF RetainStep
        <3>3. n < m => g[n] = RetainStep(g, n)
            BY <1>0, <2>1
        <3> QED
            BY <1>0, <3>2, <3>3
    <2>3. h = [n \in 0 .. m |-> RetainStep(h, n)]
        BY <2>2
    <2>4. \E f : f = [n \in 0 .. m |-> RetainStep(f, n)]
        <3> HIDE DEF h
        <3> QED
            BY <2>3, Zenon
    <2>5. m \in 0 .. L
        BY <1>0
    <2> QED
        BY <2>4, <2>5
<1> HIDE DEF S
<1>3. \A n \in 0 .. L : n \in S
    BY <1>0, <1>1, <1>2, InductionUpTo
<1> QED
    BY <1>0, <1>3 DEF S

\* What stays in the journal was in it, and touches local accounts only.
LEMMA RetainedAreLocal ==
    ASSUME journal \in Seq(Entry)
    PROVE  Retained \in Seq({e \in Entry : KeepsEntry(e) /\ \E i \in DOMAIN journal : journal[i] = e})
<1> DEFINE L == Len(journal)
           K == {e \in Entry : KeepsEntry(e) /\ \E i \in DOMAIN journal : journal[i] = e}
           kept == CHOOSE f : f = [n \in 0 .. L |-> RetainStep(f, n)]
           S == {m \in 0 .. L : kept[m] \in Seq(K)}
<1>0. L \in Nat /\ \A n \in 1 .. L : n \in DOMAIN journal /\ journal[n] \in Entry
    OBVIOUS
<1>1. kept = [n \in 0 .. L |-> RetainStep(kept, n)]
    BY RetainScanExists
<1>2. Retained = kept[L]
    BY DEF Retained, RetainStep
<1> HIDE DEF kept
<1>3. \A n \in 0 .. L : kept[n] = RetainStep(kept, n)
    BY <1>1
<1> HIDE DEF K
<1>4. 0 \in S
    <2>1. kept[0] = <<>>
        BY <1>0, <1>3 DEF RetainStep
    <2>2. <<>> \in Seq(K)
        OBVIOUS
    <2>3. kept[0] \in Seq(K)
        BY <2>1, <2>2, Zenon
    <2>4. 0 \in 0 .. L
        BY <1>0
    <2> QED
        BY <2>3, <2>4
<1>5. ASSUME NEW m \in 1 .. L, m - 1 \in S
      PROVE  m \in S
    <2>1. kept[m] = IF KeepsEntry(journal[m]) THEN Append(kept[m - 1], journal[m]) ELSE kept[m - 1]
        BY <1>0, <1>3 DEF RetainStep
    <2>2. KeepsEntry(journal[m]) => journal[m] \in K
        BY <1>0 DEF K
    <2>3. kept[m - 1] \in Seq(K)
        BY <1>5
    <2>4. kept[m] \in Seq(K)
        BY <2>1, <2>2, <2>3
    <2> QED
        BY <1>0, <2>4
<1> HIDE DEF S
<1>6. \A n \in 0 .. L : n \in S
    BY <1>0, <1>4, <1>5, InductionUpTo
<1>7. L \in 0 .. L
    BY <1>0
<1> QED
    BY <1>2, <1>6, <1>7 DEF S, K

\* After a switch every entry of the journal touches local accounts only.
LEMMA RetainedEntries ==
    ASSUME journal \in Seq(Entry)
    PROVE  /\ Retained \in Seq(Entry)
           /\ \A i \in DOMAIN Retained :
                 /\ KeepsEntry(Retained[i])
                 /\ \E j \in DOMAIN journal : journal[j] = Retained[i]
<1> DEFINE K == {e \in Entry : KeepsEntry(e) /\ \E i \in DOMAIN journal : journal[i] = e}
<1>1. Retained \in Seq(K)
    BY RetainedAreLocal
<1>2. K \subseteq Entry
    OBVIOUS
<1>3. ASSUME NEW i \in DOMAIN Retained
      PROVE  Retained[i] \in K
    <2> HIDE DEF K
    <2> QED
        BY <1>1
<1>4. Retained \in Seq(Entry)
    <2> HIDE DEF K
    <2> QED
        BY <1>1, <1>2
<1> QED
    BY <1>3, <1>4

-----------------------------------------------------------------------------
(* Undoing the journal.                                                    *)

\* Undone, of any journal and any state of the accounts.
UndoneOf(log, st, at) ==
    [a \in Addr |->
        LET touching == {i \in at + 1 .. Len(log) : a \in DOMAIN log[i]}
        IN  IF touching = {} THEN st[a]
            ELSE log[CHOOSE i \in touching : \A j \in touching : i <= j][a]]

\* An account is restored to the first entry that touches it, or left alone.
LEMMA UndoneOfIsFirst ==
    ASSUME NEW log \in Seq(Entry), NEW st, NEW at \in Nat, NEW a \in Addr
    PROVE  \/ /\ \A i \in at + 1 .. Len(log) : a \notin DOMAIN log[i]
              /\ UndoneOf(log, st, at)[a] = st[a]
           \/ \E i \in at + 1 .. Len(log) :
                 /\ a \in DOMAIN log[i]
                 /\ \A j \in at + 1 .. Len(log) : a \in DOMAIN log[j] => i <= j
                 /\ UndoneOf(log, st, at)[a] = log[i][a]
<1> DEFINE T == {i \in at + 1 .. Len(log) : a \in DOMAIN log[i]}
           first == CHOOSE i \in T : \A j \in T : i <= j
<1>1. UndoneOf(log, st, at)[a] = IF T = {} THEN st[a] ELSE log[first][a]
    BY DEF UndoneOf
<1>2. T \in SUBSET Nat
    OBVIOUS
<1>3. CASE T = {}
    BY <1>1, <1>3
<1>4. CASE T # {}
    <2>1. \E i \in T : \A j \in T : i <= j
        BY <1>2, <1>4, LeastNatural
    <2>2. first \in T /\ \A j \in T : first <= j
        BY <2>1
    <2> HIDE DEF first
    <2> QED
        BY <1>1, <1>4, <2>2
<1> QED
    BY <1>3, <1>4

\* The same of the journal that is there.
LEMMA UndoneIsFirst ==
    ASSUME journal \in Seq(Entry), NEW at \in Nat, NEW a \in Addr
    PROVE  \/ /\ \A i \in at + 1 .. Len(journal) : a \notin DOMAIN journal[i]
              /\ Undone(at)[a] = state[a]
           \/ \E i \in at + 1 .. Len(journal) :
                 /\ a \in DOMAIN journal[i]
                 /\ \A j \in at + 1 .. Len(journal) : a \in DOMAIN journal[j] => i <= j
                 /\ Undone(at)[a] = journal[i][a]
<1>1. Undone(at) = UndoneOf(journal, state, at)
    BY DEF Undone, UndoneOf
<1> QED
    BY <1>1, UndoneOfIsFirst

\* An entry restores accounts.
LEMMA EntriesRestoreAccounts ==
    ASSUME journal \in Seq(Entry), NEW i \in DOMAIN journal, NEW a \in DOMAIN journal[i]
    PROVE  a \in Addr /\ journal[i][a] \in Account
BY DEF Entry

\* Undoing the journal keeps the shape of the state.
LEMMA UndoneType ==
    ASSUME TypeOK, NEW at \in Nat
    PROVE  Undone(at) \in [Addr -> Account \cup {NotLoaded}]
<1> SUFFICES ASSUME NEW a \in Addr PROVE Undone(at)[a] \in Account \cup {NotLoaded}
    BY DEF Undone
<1>1. \A i \in at + 1 .. Len(journal) : i \in DOMAIN journal
    BY DEF TypeOK
<1> QED
    BY <1>1, UndoneIsFirst, EntriesRestoreAccounts DEF TypeOK

-----------------------------------------------------------------------------
(* Every step keeps the shape of the state.                                *)

\* What is committed to the fork that is left, and what the next one gets.
LEMMA LeftType ==
    ASSUME TypeOK
    PROVE  /\ Left \in Overlays
           /\ \A o \in Overlays : Applied(o) \in Overlays
           /\ \A f \in Forks : NewOverlay(f) \in Overlays
<1>1. forks[active] \in Overlays
    BY DEF TypeOK, DbOK
<1>2. \A a \in Addr : state[a].touched => state[a].val \in Value
    BY MarksAreNoValues DEF TypeOK, Account
<1>3. Left \in Overlays
    BY <1>1, <1>2 DEF Left, Overlays
<1>4. \A o \in Overlays : Applied(o) \in Overlays
    BY <1>3 DEF Applied, Overlays
<1>5. \A f \in Forks : NewOverlay(f) \in Overlays
    BY DEF NewOverlay, Overlays, Value
<1> QED
    BY <1>3, <1>4, <1>5

\* Marking the open frames.
LEMMA DirtyFrames ==
    ASSUME frames \in Seq(Frame), Dirty
    PROVE  /\ frames' \in Seq(Frame) /\ Len(frames') = Len(frames)
           /\ \A i \in DOMAIN frames' : ~frames'[i].clean
<1>1. \A x \in Frame : [x EXCEPT !.clean = FALSE] \in Frame /\ [x EXCEPT !.clean = FALSE].clean = FALSE
    BY DEF Frame
<1>2. frames' = [i \in 1 .. Len(frames) |-> [frames[i] EXCEPT !.clean = FALSE]]
    BY DEF Dirty
<1>3. \A i \in 1 .. Len(frames) : frames[i] \in Frame
    OBVIOUS
<1>4. DOMAIN frames' = 1 .. Len(frames) /\ \A i \in 1 .. Len(frames) : frames'[i] \in Frame /\ ~frames'[i].clean
    BY <1>1, <1>2, <1>3
<1>5. frames' \in [1 .. Len(frames) -> Frame]
    BY <1>2, <1>4
<1> QED
    BY <1>4, <1>5

\* The journal after a transaction.
LEMMA ClearJournalType ==
    ASSUME ClearJournal
    PROVE  /\ state' \in [Addr -> Account \cup {NotLoaded}]
           /\ journal' \in Seq(Entry) /\ frames' \in Seq(Frame)
           /\ running' \in BOOLEAN
<1>1. state' \in [Addr -> Account \cup {NotLoaded}] /\ running' \in BOOLEAN
    BY DEF ClearJournal
<1>2. journal' = <<>> /\ frames' = <<>>
    BY DEF ClearJournal
<1>3. <<>> \in Seq(Entry) /\ <<>> \in Seq(Frame)
    OBVIOUS
<1> QED
    BY <1>1, <1>2, <1>3, Zenon

\* The frame that runs.
LEMMA TopFrame ==
    ASSUME TypeOK, frames # <<>>
    PROVE  /\ Len(frames) \in DOMAIN frames /\ Len(frames) \in Nat /\ Len(frames) > 0
           /\ frames[Len(frames)] \in Frame
           /\ frames[Len(frames)].at \in Nat
<1>1. frames \in Seq(Frame)
    BY DEF TypeOK
<1>2. Len(frames) \in Nat /\ Len(frames) > 0
    BY <1>1
<1>3. frames[Len(frames)] \in Frame
    BY <1>1, <1>2
<1> QED
    BY <1>1, <1>2, <1>3 DEF Frame

\* Every open frame has its shape.
LEMMA FramesTyped ==
    ASSUME TypeOK
    PROVE  frames \in Seq(Frame) /\ \A i \in DOMAIN frames : frames[i].at \in Nat /\ frames[i] \in Frame
<1>1. frames \in Seq(Frame)
    BY DEF TypeOK
<1>2. \A i \in DOMAIN frames : frames[i] \in Frame
    BY <1>1
<1>3. \A x \in Frame : x.at \in Nat
    BY DEF Frame
<1> QED
    BY <1>1, <1>2, <1>3

\* The journal after a switch.
LEMMA DropRemoteType ==
    ASSUME TypeOK, DropRemote
    PROVE  /\ state' \in [Addr -> Account \cup {NotLoaded}]
           /\ journal' \in Seq(Entry)
           /\ frames' \in Seq(Frame)
<1>1. state' \in [Addr -> Account \cup {NotLoaded}]
    BY DEF TypeOK, DropRemote
<1>2. journal' \in Seq(Entry)
    BY RetainedEntries DEF TypeOK, DropRemote
<1>3. frames' \in Seq(Frame)
    BY DirtyFrames DEF TypeOK, DropRemote
<1> QED
    BY <1>1, <1>2, <1>3

\* A frame as it is opened.
LEMMA OpenFrameType ==
    ASSUME TypeOK
    PROVE  OpenFrame \in Frame
<1>1. [a \in Addr |-> SeenNow(a)] \in [Addr -> Value]
    BY SeenIsValue
<1>2. Len(journal) \in Nat
    BY DEF TypeOK
<1> QED
    BY <1>1, <1>2 DEF OpenFrame, Frame, TypeOK

\* An account's cached value may be replaced by another value.
LEMMA CachedType ==
    ASSUME TypeOK, NEW a \in Addr, NEW v \in Value,
           forks' = [forks EXCEPT ![active][a] = v], active' = active
    PROVE  DbOK(active, forks)'
BY DEF TypeOK, DbOK, Overlays

\* An entry for one account.
LEMMA SingleEntry ==
    ASSUME NEW a \in Addr, NEW x \in Account
    PROVE  [b \in {a} |-> x] \in Entry
<1>1. {a} \in SUBSET Addr /\ [b \in {a} |-> x] \in [{a} -> Account]
    OBVIOUS
<1> QED
    BY <1>1, Zenon DEF Entry

\* The journal with it.
LEMMA EntryType ==
    ASSUME TypeOK, NEW a \in Addr, NEW x \in Account
    PROVE  Append(journal, [b \in {a} |-> x]) \in Seq(Entry)
<1>1. [b \in {a} |-> x] \in Entry
    BY SingleEntry
<1> QED
    BY <1>1 DEF TypeOK

\* Every step keeps the shape of the state.
LEMMA StepType ==
    ASSUME TypeOK, [Next]_vars
    PROVE  TypeOK'
<1>w. \A f \in Forks \cup {Sandbox} : Written(f) \in Value
    BY DEF Value
<1>e. Empty \in Value /\ active \in Forks \cup {Sandbox} /\ active \in DOMAIN forks
    BY DEF Value, TypeOK, DbOK
<1>1. CASE BeginTx
    BY <1>1, OpenFrameType DEF BeginTx, TypeOK, dbVars
<1>2. CASE EndTx
    <2>1. [a \in Addr |-> IF state[a].touched THEN state[a].val ELSE forks[active][a]] \in Overlays
        BY MarksAreNoValues DEF TypeOK, DbOK, Overlays, Account
    <2>2. DbOK(active, forks)'
        BY <1>2, <2>1 DEF EndTx, TypeOK, DbOK
    <2> QED
        BY <1>2, <2>2, ClearJournalType DEF EndTx, TypeOK
<1>3. ASSUME NEW a \in Addr, TxFault(a) PROVE TypeOK'
    BY <1>3, ClearJournalType DEF TxFault, TypeOK, dbVars
<1>4. ASSUME NEW a \in Addr, Load(a) PROVE TypeOK'
    <2>1. Read(active, a) \in Value
        BY <1>e, ReadFindsValue
    <2>2. [val |-> Read(active, a), touched |-> FALSE] \in Account
        BY <2>1 DEF Account
    <2>3. DbOK(active, forks)'
        BY <1>4, <2>1, CachedType DEF Load
    <2>4. journal' \in Seq(Entry)
        BY <1>4, <2>2, EntryType DEF Load
    <2>5. state' \in [Addr -> Account \cup {NotLoaded}]
        BY <1>4, <2>2 DEF Load, TypeOK
    <2> QED
        BY <1>4, <2>3, <2>4, <2>5 DEF Load, TypeOK
<1>5. ASSUME NEW a \in Addr, Store(a) PROVE TypeOK'
    <2>1. [val |-> Empty, touched |-> FALSE] \in Account /\ [val |-> Written(active), touched |-> TRUE] \in Account
        BY <1>w, <1>e DEF Account
    <2>2. (IF Loaded(a) THEN state[a] ELSE [val |-> Empty, touched |-> FALSE]) \in Account
        BY <2>1 DEF Loaded, TypeOK
    <2>3. DbOK(active, forks)'
        BY <1>5, <1>e, CachedType DEF Store
    <2>4. journal' \in Seq(Entry)
        BY <1>5, <2>2, EntryType DEF Store
    <2>5. state' \in [Addr -> Account \cup {NotLoaded}]
        BY <1>5, <2>1 DEF Store, TypeOK
    <2>6. frames' \in Seq(Frame)
        BY <1>5, DirtyFrames DEF TypeOK, Store
    <2> QED
        BY <1>5, <2>3, <2>4, <2>5, <2>6 DEF Store, TypeOK
<1>6. ASSUME NEW a \in Addr, MarkLocal(a) PROVE TypeOK'
    BY <1>6, AddrAssumption DEF MarkLocal, TypeOK, dbVars, txVars
<1>7. ASSUME NEW a \in Addr, Create(a) PROVE TypeOK'
    <2> DEFINE found == IF Overlay(active)[a] = NotCached THEN Empty ELSE Overlay(active)[a]
    <2>1. found \in Value
        BY <1>e, ReadFindsValue DEF TypeOK, DbOK, Overlays
    <2>2. [val |-> found, touched |-> FALSE] \in Account /\ [val |-> Written(active), touched |-> TRUE] \in Account
        BY <1>w, <1>e, <2>1 DEF Account
    <2>3. DbOK(active, forks)'
        BY <1>7, <2>1, CachedType DEF Create
    <2>4. journal' \in Seq(Entry)
        BY <1>7, <2>2, EntryType DEF Create
    <2>5. state' \in [Addr -> Account \cup {NotLoaded}]
        BY <1>7, <2>2 DEF Create, TypeOK
    <2> QED
        BY <1>7, <2>3, <2>4, <2>5, AddrAssumption DEF Create, TypeOK
<1>8. CASE CallFrame
    BY <1>8, OpenFrameType DEF CallFrame, TypeOK, dbVars
<1>9. CASE ReturnFrame
    BY <1>9 DEF ReturnFrame, Pop, TypeOK, dbVars
<1>10. CASE RevertFrame
    <2> DEFINE at == frames[Len(frames)].at
    <2>1. at \in Nat
        BY <1>10, TopFrame DEF RevertFrame
    <2>2. state' \in [Addr -> Account \cup {NotLoaded}]
        BY <1>10, <2>1, UndoneType DEF RevertFrame
    <2>3. journal' \in Seq(Entry)
        BY <1>10, <2>1 DEF RevertFrame, TypeOK
    <2> QED
        BY <1>10, <2>2, <2>3 DEF RevertFrame, Pop, TypeOK, dbVars
<1>11. ASSUME NEW A \in SUBSET Addr, Write(A) PROVE TypeOK'
    <2>1. [a \in A |-> state[a]] \in Entry
        BY <1>11 DEF Write, Entry, Loaded, TypeOK
    <2>2. journal' \in Seq(Entry)
        BY <1>11, <2>1 DEF Write, Log, TypeOK
    <2>3. state' \in [Addr -> Account \cup {NotLoaded}]
        BY <1>11, <1>w, <1>e DEF Write, TypeOK, Account
    <2> QED
        BY <1>11, <2>2, <2>3 DEF Write, TypeOK, dbVars
<1>12. CASE ForkStep
    <2> PICK f \in Forks : \/ SelectActive(f) \/ SelectExisting(f)
                           \/ \E o \in Options : CreateFork(f, o) \/ CreateFails(f, o)
        BY <1>12 DEF ForkStep
    <2>1. CASE SelectActive(f)
        BY <2>1 DEF SelectActive, TypeOK, dbVars, txVars
    <2>2. CASE SelectExisting(f)
        <3>1. DbOK(active, forks)'
            BY <2>2, LeftType DEF SelectExisting, TypeOK, DbOK
        <3> QED
            BY <2>2, <3>1, DropRemoteType DEF SelectExisting, TypeOK
    <2>3. ASSUME NEW o \in Options, CreateFork(f, o) PROVE TypeOK'
        <3>1. DbOK(active, forks)'
            BY <2>3, LeftType, AddrAssumption DEF CreateFork, TypeOK, DbOK
        <3> QED
            BY <2>3, <3>1, DropRemoteType DEF CreateFork, TypeOK
    <2>4. ASSUME NEW o \in Options, CreateFails(f, o) PROVE TypeOK'
        <3>1. DbOK(active, forks)'
            BY <2>4, LeftType DEF CreateFails, TypeOK, DbOK
        <3> QED
            BY <2>4, <3>1, DropRemoteType DEF CreateFails, TypeOK
    <2> QED
        BY <2>1, <2>2, <2>3, <2>4
<1>13. CASE FinishSetup
    BY <1>13 DEF FinishSetup, TypeOK, DbOK, dbVars, txVars
<1>14. CASE NextInput
    BY <1>14 DEF NextInput, TypeOK, DbOK, txVars
<1>15. CASE UNCHANGED vars
    BY <1>15 DEF vars, TypeOK, DbOK, dbVars, txVars
<1> QED
    BY <1>1, <1>2, <1>3, <1>4, <1>5, <1>6, <1>7, <1>8, <1>9, <1>10, <1>11, <1>12, <1>13,
       <1>14, <1>15 DEF Next

\* A fork step is one of four; three of them split the journal.
LEMMA ForkStepCases ==
    ASSUME ForkStep
    PROVE  /\ frames # <<>>
           /\ UNCHANGED <<running, held, registry, base, inputs>>
           /\ \/ \E f \in Forks : SelectActive(f)
              \/ DropRemote
BY DEF ForkStep, SelectActive, SelectExisting, CreateFork, CreateFails, Forking, txVars

-----------------------------------------------------------------------------
(* The environment follows the active fork.                                *)

\* The chain every input clones was taken with its own environment.
BaseCoherent == base # <<>> => base[1] = base[4]

\* Every step keeps the environment that of the active fork.
LEMMA StepEnv ==
    ASSUME EnvMatchesFork, BaseCoherent, [Next]_vars
    PROVE  EnvMatchesFork' /\ BaseCoherent'
<1>1. CASE ForkStep
    BY <1>1 DEF ForkStep, SelectActive, SelectExisting, CreateFork, CreateFails,
                EnvMatchesFork, BaseCoherent, dbVars
<1>2. CASE FinishSetup
    BY <1>2 DEF FinishSetup, EnvMatchesFork, BaseCoherent, dbVars
<1>3. CASE NextInput
    BY <1>3 DEF NextInput, EnvMatchesFork, BaseCoherent
<1>4. CASE UNCHANGED <<active, env, base>> /\ (held' => held)
    BY <1>4 DEF EnvMatchesFork, BaseCoherent
<1>5. ASSUME NEW a \in Addr, TxFault(a) \/ Load(a) \/ Store(a) \/ MarkLocal(a) \/ Create(a)
      PROVE  UNCHANGED <<active, env, base>> /\ (held' => held)
    BY <1>5 DEF TxFault, Load, Store, MarkLocal, Create, dbVars
<1>6. ASSUME NEW A \in SUBSET Addr, Write(A)
      PROVE  UNCHANGED <<active, env, base>> /\ (held' => held)
    BY <1>6 DEF Write, dbVars
<1>7. CASE BeginTx \/ EndTx \/ CallFrame \/ ReturnFrame \/ RevertFrame
    BY <1>4, <1>7 DEF BeginTx, EndTx, CallFrame, ReturnFrame, RevertFrame, dbVars
<1> QED
    BY <1>1, <1>2, <1>3, <1>4, <1>5, <1>6, <1>7 DEF Next, vars, dbVars

\* The block and chain environment is that of the active fork, in every state
\* of every chain: after failed forks, reverted frames and clones
\* (fork_and_select, Chain::clone).
THEOREM EnvFollowsFork == Spec => []EnvMatchesFork
<1>1. Init => EnvMatchesFork /\ BaseCoherent
    BY DEF Init, EnvMatchesFork, BaseCoherent
<1>2. EnvMatchesFork /\ BaseCoherent /\ [Next]_vars => EnvMatchesFork' /\ BaseCoherent'
    BY StepEnv
<1> QED
    BY <1>1, <1>2, PTL DEF Spec

-----------------------------------------------------------------------------
(* A revert finds its accounts.                                            *)

\* Every step keeps the journal empty between transactions.
LEMMA StepQuiet ==
    ASSUME TypeOK, Quiet, [Next]_vars
    PROVE  Quiet'
<1>1. CASE ForkStep
    BY <1>1, ForkStepCases DEF Quiet, TypeOK
<1>2. ASSUME NEW a \in Addr, TxFault(a) PROVE Quiet'
    BY <1>2 DEF TxFault, ClearJournal, Quiet
<1>3. ASSUME NEW a \in Addr, Load(a) \/ Store(a) \/ MarkLocal(a) \/ Create(a) PROVE Quiet'
    BY <1>3 DEF Load, Store, MarkLocal, Create, Quiet, txVars
<1>4. ASSUME NEW A \in SUBSET Addr, Write(A) PROVE Quiet'
    BY <1>4 DEF Write, Quiet
<1>5. CASE EndTx
    BY <1>5 DEF EndTx, ClearJournal, Quiet
<1>6. CASE BeginTx \/ CallFrame \/ ReturnFrame \/ RevertFrame
    BY <1>6 DEF BeginTx, CallFrame, ReturnFrame, RevertFrame, Quiet, TypeOK
<1>7. CASE FinishSetup \/ NextInput \/ UNCHANGED vars
    BY <1>7 DEF FinishSetup, NextInput, Quiet, vars, txVars
<1> QED
    BY <1>1, <1>2, <1>3, <1>4, <1>5, <1>6, <1>7 DEF Next

\* A step that appends an entry for accounts that are in the journal after it.
LEMMA AppendFindsAccounts ==
    ASSUME TypeOK, RevertsFindTheirAccounts, NEW e \in Entry,
           journal' = Append(journal, e),
           \A a \in Addr : Loaded(a) => Loaded(a)',
           \A a \in DOMAIN e : Loaded(a)'
    PROVE  RevertsFindTheirAccounts'
<1>1. journal \in Seq(Entry)
    BY DEF TypeOK
<1>2. ASSUME NEW i \in DOMAIN journal', NEW a \in DOMAIN journal'[i]
      PROVE  Loaded(a)'
    <2>1. CASE i \in DOMAIN journal
        <3>1. journal'[i] = journal[i]
            BY <1>1, <2>1
        <3>2. a \in Addr /\ Loaded(a)
            BY <1>1, <1>2, <2>1, <3>1, EntriesRestoreAccounts DEF RevertsFindTheirAccounts
        <3> QED
            BY <3>2
    <2>2. CASE i \notin DOMAIN journal
        <3>1. journal'[i] = e
            BY <1>1, <1>2, <2>2
        <3> QED
            BY <1>2, <3>1
    <2> QED
        BY <2>1, <2>2
<1> QED
    BY <1>2 DEF RevertsFindTheirAccounts

\* Every step keeps the accounts of the entries in the journal.
LEMMA StepFinds ==
    ASSUME TypeOK, Quiet, RevertsFindTheirAccounts, [Next]_vars
    PROVE  RevertsFindTheirAccounts'
<1>j. journal \in Seq(Entry) /\ state \in [Addr -> Account \cup {NotLoaded}]
    BY DEF TypeOK
<1>w. \A f \in Forks \cup {Sandbox} : [val |-> Written(f), touched |-> TRUE] \in Account
    BY DEF Value, Account
<1>e. Empty \in Value /\ active \in Forks \cup {Sandbox} /\ active \in DOMAIN forks
    BY DEF Value, TypeOK, DbOK
<1>1. CASE UNCHANGED <<state, journal>>
    BY <1>1 DEF RevertsFindTheirAccounts, Loaded
<1>2. CASE ClearJournal
    BY <1>2 DEF ClearJournal, RevertsFindTheirAccounts
<1>3. ASSUME NEW a \in Addr, Load(a) PROVE RevertsFindTheirAccounts'
    <2> DEFINE x == [val |-> Read(active, a), touched |-> FALSE]
    <2>1. x \in Account
        BY <1>e, ReadFindsValue DEF Account
    <2>2. state' = [state EXCEPT ![a] = x] /\ journal' = Append(journal, [b \in {a} |-> x])
        BY <1>3 DEF Load
    <2> HIDE DEF x
    <2>3. x # NotLoaded
        BY <2>1, MarksAreNoValues
    <2>4. \A b \in Addr : (Loaded(b) => Loaded(b)') /\ Loaded(a)'
        BY <1>j, <2>2, <2>3 DEF Loaded
    <2>5. [b \in {a} |-> x] \in Entry
        BY <2>1, SingleEntry
    <2> QED
        BY <2>2, <2>4, <2>5, AppendFindsAccounts
<1>4. ASSUME NEW a \in Addr, Store(a) \/ Create(a) PROVE RevertsFindTheirAccounts'
    <2> DEFINE x == [val |-> Written(active), touched |-> TRUE]
    <2>1. x \in Account
        BY <1>w, <1>e
    <2>2. state' = [state EXCEPT ![a] = x]
        BY <1>4 DEF Store, Create
    <2>3. PICK y \in Account : journal' = Append(journal, [b \in {a} |-> y])
        <3>1. CASE Store(a)
            <4> DEFINE old == IF Loaded(a) THEN state[a] ELSE [val |-> Empty, touched |-> FALSE]
            <4>1. old \in Account
                BY <1>j DEF Loaded, Account, Value
            <4>2. journal' = Append(journal, [b \in {a} |-> old])
                BY <3>1 DEF Store
            <4> HIDE DEF old
            <4> QED
                BY <4>1, <4>2
        <3>2. CASE Create(a)
            <4> DEFINE found == IF Overlay(active)[a] = NotCached THEN Empty ELSE Overlay(active)[a]
                       old == [val |-> found, touched |-> FALSE]
            <4>0. found \in Value
                BY <1>e, ReadFindsValue DEF TypeOK, DbOK, Overlays
            <4>1. old \in Account
                BY <4>0 DEF Account
            <4>2. journal' = Append(journal, [b \in {a} |-> old])
                BY <3>2 DEF Create
            <4> HIDE DEF old
            <4> QED
                BY <4>1, <4>2
        <3> QED
            BY <1>4, <3>1, <3>2
    <2> HIDE DEF x
    <2>4. \A b \in Addr : (Loaded(b) => Loaded(b)') /\ Loaded(a)'
        BY <1>j, <2>1, <2>2, MarksAreNoValues DEF Loaded
    <2>5. [b \in {a} |-> y] \in Entry
        BY SingleEntry
    <2> QED
        BY <2>3, <2>4, <2>5, AppendFindsAccounts
<1>5. ASSUME NEW A \in SUBSET Addr, Write(A) PROVE RevertsFindTheirAccounts'
    <2>1. [a \in A |-> state[a]] \in Entry
        BY <1>5 DEF Write, Entry, Loaded, TypeOK
    <2>2. \A a \in Addr : Loaded(a) => Loaded(a)'
        BY <1>5, <1>w, <1>e, MarksAreNoValues DEF Write, Loaded
    <2>3. \A a \in A : Loaded(a)
        BY <1>5 DEF Write
    <2> QED
        BY <1>5, <2>1, <2>2, <2>3, AppendFindsAccounts DEF Write, Log
<1>6. CASE RevertFrame
    <2> DEFINE at == frames[Len(frames)].at
    <2>1. at \in Nat
        BY <1>6, TopFrame DEF RevertFrame
    <2>2. \A a \in Addr : Loaded(a) => Loaded(a)'
        <3> SUFFICES ASSUME NEW a \in Addr, Loaded(a) PROVE Undone(at)[a] # NotLoaded
            BY <1>6 DEF RevertFrame, Loaded
        <3> QED
            BY <1>j, <2>1, UndoneIsFirst, EntriesRestoreAccounts, MarksAreNoValues DEF Loaded
    <2>3. \A i \in DOMAIN journal' : i \in DOMAIN journal /\ journal'[i] = journal[i]
        BY <1>6, <1>j, <2>1 DEF RevertFrame
    <2>4. \A i \in DOMAIN journal : \A a \in DOMAIN journal[i] : a \in Addr
        BY <1>j, EntriesRestoreAccounts
    <2> QED
        BY <2>2, <2>3, <2>4 DEF RevertsFindTheirAccounts
<1>7. CASE DropRemote
    <2>1. \A i \in DOMAIN journal' :
             KeepsEntry(journal'[i]) /\ \E j \in DOMAIN journal : journal[j] = journal'[i]
        BY <1>7, <1>j, RetainedEntries DEF DropRemote
    <2>2. ASSUME NEW i \in DOMAIN journal', NEW a \in DOMAIN journal'[i]
          PROVE  Loaded(a)'
        <3>1. PICK j \in DOMAIN journal : journal[j] = journal'[i]
            BY <2>1
        <3>2. Persistent(a) /\ Loaded(a) /\ a \in Addr
            BY <1>j, <2>1, <2>2, <3>1, EntriesRestoreAccounts DEF KeepsEntry, RevertsFindTheirAccounts
        <3> QED
            BY <1>7, <3>2 DEF DropRemote, Loaded
    <2> QED
        BY <2>2 DEF RevertsFindTheirAccounts
<1>8. CASE ForkStep
    BY <1>1, <1>7, <1>8, ForkStepCases DEF SelectActive, txVars
<1>9. ASSUME NEW a \in Addr, TxFault(a) \/ MarkLocal(a) PROVE RevertsFindTheirAccounts'
    BY <1>1, <1>2, <1>9 DEF TxFault, MarkLocal, txVars
<1>10. CASE BeginTx \/ EndTx \/ CallFrame \/ ReturnFrame
    BY <1>1, <1>2, <1>10 DEF BeginTx, EndTx, CallFrame, ReturnFrame
<1>11. CASE FinishSetup \/ NextInput \/ UNCHANGED vars
    BY <1>1, <1>11 DEF FinishSetup, NextInput, vars, txVars
<1> QED
    BY <1>3, <1>4, <1>5, <1>6, <1>8, <1>9, <1>10, <1>11 DEF Next

\* The inductive invariant of the two: shape, empty journal between
\* transactions, accounts of the entries.
JournalInv == TypeOK /\ Quiet /\ RevertsFindTheirAccounts

\* A fresh chain is in shape.
LEMMA InitJournal == Init => JournalInv
<1> SUFFICES ASSUME Init PROVE JournalInv
    OBVIOUS
<1>1. DbOK(active, forks)
    BY DEF Init, DbOK, Overlays, Value
<1>2. journal \in Seq(Entry) /\ frames \in Seq(Frame)
    <2>1. <<>> \in Seq(Entry) /\ <<>> \in Seq(Frame)
        OBVIOUS
    <2> QED
        BY <2>1, Zenon DEF Init
<1>3. Quiet /\ RevertsFindTheirAccounts
    BY DEF Init, Quiet, RevertsFindTheirAccounts
<1> QED
    BY <1>1, <1>2, <1>3 DEF Init, JournalInv, TypeOK

\* Every account a journal entry restores is in the journal, in every state:
\* a call revert after a fork switch never unwraps an account the switch has
\* removed (commit_remote_before_fork_switch, journal_entry_is_persistent).
THEOREM RevertsAreSafe == Spec => []RevertsFindTheirAccounts
<1>1. JournalInv /\ [Next]_vars => JournalInv'
    BY StepType, StepQuiet, StepFinds DEF JournalInv
<1>2. JournalInv => RevertsFindTheirAccounts
    BY DEF JournalInv
<1> QED
    BY <1>1, <1>2, InitJournal, PTL DEF Spec

-----------------------------------------------------------------------------
(* The overlay follows the journal.                                        *)

\* An account that was only read is cached as it was read, unless rvm.store
\* has zeroed it.
Behind(x, c) == x.touched \/ c \in {x.val, Empty}

\* So is every remote account of the journal, and so it will be after a revert.
CacheFollows ==
    \A a \in Addr : ~Persistent(a) =>
        /\ Loaded(a) => Behind(state[a], forks[active][a])
        /\ \A i \in DOMAIN journal : a \in DOMAIN journal[i] => Behind(journal[i][a], forks[active][a])

\* An entry is appended.
LEMMA AppendFollows ==
    ASSUME TypeOK, NEW e \in Entry, journal' = Append(journal, e), NEW a \in Addr,
           \A i \in DOMAIN journal : a \in DOMAIN journal[i] => Behind(journal[i][a], forks'[active'][a]),
           a \in DOMAIN e => Behind(e[a], forks'[active'][a])
    PROVE  \A i \in DOMAIN journal' : a \in DOMAIN journal'[i] => Behind(journal'[i][a], forks'[active'][a])
<1>1. journal \in Seq(Entry)
    BY DEF TypeOK
<1>2. ASSUME NEW i \in DOMAIN journal', a \in DOMAIN journal'[i]
      PROVE  Behind(journal'[i][a], forks'[active'][a])
    <2>1. \/ i \in DOMAIN journal /\ journal'[i] = journal[i]
          \/ journal'[i] = e
        BY <1>1, <1>2
    <2> QED
        BY <1>2, <2>1 DEF Behind
<1> QED
    BY <1>2

\* Every step keeps the overlay behind the journal.
LEMMA StepFollows ==
    ASSUME JournalInv, CacheFollows, [Next]_vars
    PROVE  CacheFollows'
<1>t. /\ TypeOK /\ journal \in Seq(Entry) /\ state \in [Addr -> Account \cup {NotLoaded}]
      /\ active \in DOMAIN forks /\ forks \in [DOMAIN forks -> Overlays]
      /\ Empty \in Value
    BY DEF JournalInv, TypeOK, DbOK, Value
<1>1. ASSUME UNCHANGED <<state, journal, active, forks>>, registry \subseteq registry'
      PROVE  CacheFollows'
    BY <1>1 DEF CacheFollows, Behind, Loaded, Persistent
<1>2. CASE ClearJournal
    BY <1>2 DEF ClearJournal, CacheFollows, Loaded
<1>3. CASE NextInput
    BY <1>3 DEF NextInput, txVars, CacheFollows, Loaded, JournalInv, Quiet
<1>4. ASSUME NEW b \in Addr, Load(b) PROVE CacheFollows'
    <2> DEFINE v == Read(active, b)
               x == [val |-> v, touched |-> FALSE]
    <2>1. v \in Value /\ x \in Account
        BY <1>t, ReadFindsValue DEF Account
    <2>2. /\ state' = [state EXCEPT ![b] = x] /\ journal' = Append(journal, [c \in {b} |-> x])
          /\ forks' = [forks EXCEPT ![active][b] = v] /\ UNCHANGED <<active, registry>>
        BY <1>4 DEF Load
    <2>3. x.val = v
        OBVIOUS
    <2> HIDE DEF x, v
    <2>4. [c \in {b} |-> x] \in Entry
        BY <2>1, SingleEntry
    <2>5. forks'[active][b] = v /\ \A a \in Addr : a # b => forks'[active][a] = forks[active][a]
        BY <1>t, <2>2 DEF Overlays
    <2>6. \A i \in DOMAIN journal : b \notin DOMAIN journal[i]
        BY <1>4 DEF Load, JournalInv, RevertsFindTheirAccounts
    <2> SUFFICES ASSUME NEW a \in Addr, ~Persistent(a)
                 PROVE  /\ Loaded(a)' => Behind(state'[a], forks'[active'][a])
                        /\ \A i \in DOMAIN journal' : a \in DOMAIN journal'[i] => Behind(journal'[i][a], forks'[active'][a])
        BY <2>2 DEF CacheFollows, Persistent
    <2>7. Loaded(a)' => Behind(state'[a], forks'[active'][a])
        BY <1>t, <2>2, <2>3, <2>5 DEF CacheFollows, Behind, Loaded
    <2>8. \A i \in DOMAIN journal : a \in DOMAIN journal[i] => Behind(journal[i][a], forks'[active'][a])
        BY <2>2, <2>5, <2>6 DEF CacheFollows, Behind
    <2>9. a = b => Behind(x, forks'[active'][a])
        BY <2>2, <2>3, <2>5 DEF Behind
    <2> QED
        BY <1>t, <2>2, <2>4, <2>7, <2>8, <2>9, AppendFollows
<1>5. ASSUME NEW b \in Addr, Create(b) PROVE CacheFollows'
    <2>1. PICK e \in Entry : journal' = Append(journal, e) /\ DOMAIN e = {b}
        <3> DEFINE found == IF Overlay(active)[b] = NotCached THEN Empty ELSE Overlay(active)[b]
                   old == [val |-> found, touched |-> FALSE]
        <3>1. found \in Value
            BY <1>t, ReadFindsValue DEF Overlays
        <3>2. old \in Account
            BY <3>1 DEF Account
        <3>3. journal' = Append(journal, [c \in {b} |-> old])
            BY <1>5 DEF Create
        <3> HIDE DEF old
        <3> QED
            BY <3>2, <3>3, SingleEntry
    <2>2. /\ registry' = registry \cup {b} /\ UNCHANGED active
          /\ \A a \in Addr : a # b => state'[a] = state[a] /\ forks'[active][a] = forks[active][a]
        BY <1>t, <1>5 DEF Create, Overlays
    <2> SUFFICES ASSUME NEW a \in Addr, ~Persistent(a)'
                 PROVE  /\ Loaded(a)' => Behind(state'[a], forks'[active'][a])
                        /\ \A i \in DOMAIN journal' : a \in DOMAIN journal'[i] => Behind(journal'[i][a], forks'[active'][a])
        BY DEF CacheFollows
    <2>3. a # b /\ ~Persistent(a)
        BY <2>2 DEF Persistent
    <2>4. Loaded(a)' => Behind(state'[a], forks'[active'][a])
        BY <2>2, <2>3 DEF CacheFollows, Behind, Loaded
    <2>5. \A i \in DOMAIN journal : a \in DOMAIN journal[i] => Behind(journal[i][a], forks'[active'][a])
        BY <2>2, <2>3 DEF CacheFollows, Behind
    <2> QED
        BY <1>t, <2>1, <2>3, <2>4, <2>5, AppendFollows
<1>6. ASSUME NEW b \in Addr, Store(b) PROVE CacheFollows'
    <2>1. PICK e \in Entry : journal' = Append(journal, e) /\ DOMAIN e = {b}
        <3> DEFINE old == IF Loaded(b) THEN state[b] ELSE [val |-> Empty, touched |-> FALSE]
        <3>1. old \in Account
            BY <1>t DEF Loaded, Account
        <3>2. journal' = Append(journal, [c \in {b} |-> old])
            BY <1>6 DEF Store
        <3> HIDE DEF old
        <3> QED
            BY <3>1, <3>2, SingleEntry
    <2>2. /\ UNCHANGED <<active, registry>> /\ forks'[active][b] = Empty
          /\ \A a \in Addr : a # b => state'[a] = state[a] /\ forks'[active][a] = forks[active][a]
        BY <1>t, <1>6 DEF Store, Overlays
    <2> SUFFICES ASSUME NEW a \in Addr, ~Persistent(a)
                 PROVE  /\ Loaded(a)' => Behind(state'[a], forks'[active'][a])
                        /\ \A i \in DOMAIN journal' : a \in DOMAIN journal'[i] => Behind(journal'[i][a], forks'[active'][a])
        BY <2>2 DEF CacheFollows, Persistent
    <2>3. Loaded(a)' => Behind(state'[a], forks'[active'][a])
        BY <2>2 DEF CacheFollows, Behind, Loaded
    <2>4. \A i \in DOMAIN journal : a \in DOMAIN journal[i] => Behind(journal[i][a], forks'[active'][a])
        BY <2>2 DEF CacheFollows, Behind
    <2>5. a \in DOMAIN e => Behind(e[a], forks'[active'][a])
        BY <2>1, <2>2 DEF Behind
    <2> QED
        BY <1>t, <2>1, <2>3, <2>4, <2>5, AppendFollows
<1>7. ASSUME NEW A \in SUBSET Addr, Write(A) PROVE CacheFollows'
    <2>1. [a \in A |-> state[a]] \in Entry
        BY <1>7 DEF Write, Entry, Loaded, JournalInv, TypeOK
    <2>2. UNCHANGED <<active, forks, registry>> /\ journal' = Append(journal, [a \in A |-> state[a]])
        BY <1>7 DEF Write, Log, dbVars
    <2> SUFFICES ASSUME NEW a \in Addr, ~Persistent(a)
                 PROVE  /\ Loaded(a)' => Behind(state'[a], forks'[active'][a])
                        /\ \A i \in DOMAIN journal' : a \in DOMAIN journal'[i] => Behind(journal'[i][a], forks'[active'][a])
        BY <2>2 DEF CacheFollows, Persistent
    <2>3. Loaded(a)' => Behind(state'[a], forks'[active'][a])
        BY <1>7, <2>2 DEF Write, CacheFollows, Behind, Loaded
    <2>4. \A i \in DOMAIN journal : a \in DOMAIN journal[i] => Behind(journal[i][a], forks'[active'][a])
        BY <2>2 DEF CacheFollows, Behind
    <2>5. a \in A => Behind(state[a], forks[active][a])
        BY <1>7 DEF Write, CacheFollows
    <2>6. a \in A => Behind(state[a], forks'[active'][a])
        BY <2>2, <2>5 DEF Behind
    <2> QED
        BY <1>t, <2>1, <2>2, <2>3, <2>4, <2>6, AppendFollows
<1>8. CASE RevertFrame
    <2> DEFINE at == frames[Len(frames)].at
    <2>1. at \in Nat
        BY <1>8, <1>t, TopFrame DEF RevertFrame
    <2>2. UNCHANGED <<active, forks, registry>> /\ state' = Undone(at)
        BY <1>8 DEF RevertFrame, dbVars
    <2>3. \A i \in DOMAIN journal' : i \in DOMAIN journal /\ journal'[i] = journal[i]
        BY <1>8, <1>t, <2>1 DEF RevertFrame
    <2>4. ASSUME NEW a \in Addr, ~Persistent(a), Loaded(a)'
          PROVE  Behind(Undone(at)[a], forks[active][a])
        <3>1. Undone(at)[a] = state[a]
              \/ \E i \in DOMAIN journal : a \in DOMAIN journal[i] /\ Undone(at)[a] = journal[i][a]
            BY <1>t, <2>1, UndoneIsFirst
        <3> QED
            BY <2>2, <2>4, <3>1 DEF CacheFollows, Loaded
    <2> HIDE DEF at
    <2> QED
        BY <2>2, <2>3, <2>4 DEF CacheFollows, Behind, Persistent
<1>9. ASSUME DropRemote, UNCHANGED registry PROVE CacheFollows'
    <2>1. \A i \in DOMAIN journal' : KeepsEntry(journal'[i])
        BY <1>9, <1>t, RetainedEntries DEF DropRemote
    <2> QED
        BY <1>9, <2>1 DEF DropRemote, CacheFollows, KeepsEntry, Persistent, Loaded
<1>10. CASE ForkStep
    BY <1>1, <1>9, <1>10, ForkStepCases DEF SelectActive, txVars, dbVars
<1>11. ASSUME NEW a \in Addr, TxFault(a) \/ MarkLocal(a) PROVE CacheFollows'
    BY <1>1, <1>2, <1>11 DEF TxFault, MarkLocal, txVars, dbVars
<1>12. CASE BeginTx \/ EndTx \/ CallFrame \/ ReturnFrame \/ FinishSetup \/ UNCHANGED vars
    BY <1>1, <1>2, <1>12 DEF BeginTx, EndTx, CallFrame, ReturnFrame, FinishSetup, vars, txVars, dbVars
<1> QED
    BY <1>3, <1>4, <1>5, <1>6, <1>7, <1>8, <1>10, <1>11, <1>12 DEF Next

-----------------------------------------------------------------------------
(* Remote state is isolated.                                               *)

ForkInv == JournalInv /\ CacheFollows

\* What the fork that is left shows of a remote account is what is committed
\* to its overlay, unless a reverted rvm.store has zeroed that.
LEMMA LeftShowsRemote ==
    ASSUME ForkInv, NEW a \in Addr, ~Persistent(a), ~Zeroed(a)
    PROVE  SeenNow(a) = IF Left[a] # NotCached THEN Left[a] ELSE Backing(active, a)
<1>t. /\ state \in [Addr -> Account \cup {NotLoaded}]
      /\ Overlay(active) = forks[active]
    BY ReadFindsValue DEF ForkInv, JournalInv, TypeOK, DbOK
<1>1. CASE ~Loaded(a)
    <2>1. Left[a] = forks[active][a]
        BY <1>1, MarksAreNoValues DEF Left, Loaded
    <2> QED
        BY <1>1, <1>t, <2>1 DEF SeenNow, Seen, Read
<1>2. CASE Loaded(a)
    <2>1. state[a] \in Account /\ state[a].val \in Value /\ SeenNow(a) = state[a].val
        BY <1>2, <1>t DEF Loaded, Account, SeenNow, Seen
    <2>2. CASE state[a].touched
        <3>1. Left[a] = state[a].val
            BY <2>2 DEF Left
        <3> QED
            BY <2>1, <3>1, MarksAreNoValues
    <2>3. CASE ~state[a].touched
        <3>1. Left[a] = forks[active][a]
            BY <2>3 DEF Left
        <3>2. Behind(state[a], forks[active][a])
            BY <1>2 DEF ForkInv, CacheFollows
        <3>3. forks[active][a] = state[a].val
            BY <1>2, <2>3, <3>2 DEF Behind, Zeroed
        <3> QED
            BY <2>1, <3>1, <3>3, MarksAreNoValues
    <2> QED
        BY <2>2, <2>3
<1> QED
    BY <1>1, <1>2

\* rvm.fork changes nothing any fork shows of a remote account.
LEMMA ForkStepIsolates ==
    ASSUME ForkInv, ForkStep, NEW f \in Forks, NEW a \in Addr, ~Persistent(a),
           ~(active = Sandbox /\ a \in Carried), ~(f = active /\ Zeroed(a))
    PROVE  Seen(f, a)' = Seen(f, a)
<1>t. /\ TypeOK /\ active \in DOMAIN forks
      /\ forks \in [DOMAIN forks -> Overlays] /\ Overlay(active) = forks[active]
    BY ReadFindsValue DEF ForkInv, JournalInv, TypeOK, DbOK
<1>r. registry' = registry
    BY ForkStepCases
<1>b. Backing(f, a)' = Backing(f, a) /\ \A g : NewOverlay(g)' = NewOverlay(g)
    BY <1>r DEF Backing, NewOverlay
<1>1. ASSUME NEW g \in Forks, SelectActive(g) PROVE Seen(f, a)' = Seen(f, a)
    BY <1>1, <1>r DEF SelectActive, dbVars, txVars, Seen, Read, Overlay, Backing, Loaded
<1> DEFINE shown == IF f = active THEN Left[a] ELSE Overlay(f)[a]
<1>2. Seen(f, a) = IF shown # NotCached THEN shown ELSE Backing(f, a)
    <2>1. CASE f = active
        BY <2>1, LeftShowsRemote DEF SeenNow
    <2>2. CASE f # active
        BY <2>2 DEF Seen, Read
    <2> QED
        BY <2>1, <2>2
<1>3. ASSUME DropRemote, Overlay(f)'[a] = shown PROVE Seen(f, a)' = Seen(f, a)
    <2>1. ~Loaded(a)'
        BY <1>3 DEF DropRemote, Loaded
    <2>2. Seen(f, a)' = IF Overlay(f)'[a] # NotCached THEN Overlay(f)'[a] ELSE Backing(f, a)'
        BY <2>1 DEF Seen, Read
    <2> QED
        BY <1>2, <1>3, <1>b, <2>2
<1>4. \A o : Applied(o)[a] = o[a]
    BY DEF Applied, Carried
<1>5. ASSUME NEW g \in Forks, SelectExisting(g) PROVE Overlay(f)'[a] = shown
    <2>1. DOMAIN forks' = DOMAIN forks /\ g # active /\ g \in DOMAIN forks
        BY <1>5, <1>t DEF SelectExisting
    <2>2. forks'[active] = Left /\ forks'[g] = Applied(forks[g])
        BY <1>5, <1>t, <2>1 DEF SelectExisting
    <2>3. \A h \in DOMAIN forks : h # g /\ h # active => forks'[h] = forks[h]
        BY <1>5, <1>t, <2>1 DEF SelectExisting
    <2> QED
        BY <1>4, <1>b, <1>t, <2>1, <2>2, <2>3 DEF Overlay
<1>6. ASSUME NEW g \in Forks, NEW o \in Options, CreateFork(g, o) PROVE Overlay(f)'[a] = shown
    <2>1. DOMAIN forks' = (DOMAIN forks \cup {g}) \ {Sandbox} /\ g \notin DOMAIN forks /\ f # Sandbox
        BY <1>6, AddrAssumption DEF CreateFork
    <2>2. forks'[g] = Applied(NewOverlay(g))
        BY <1>6, AddrAssumption DEF CreateFork
    <2>3. \A h \in DOMAIN forks : h # Sandbox => forks'[h] = IF h = active THEN Left ELSE forks[h]
        BY <1>6, <2>1 DEF CreateFork
    <2> QED
        BY <1>4, <1>b, <1>t, <2>1, <2>2, <2>3 DEF Overlay
<1>7. ASSUME NEW g \in Forks, NEW o \in Options, CreateFails(g, o) PROVE Overlay(f)'[a] = shown
    BY <1>7, <1>b, <1>t DEF CreateFails, Overlay
<1>8. ASSUME NEW g \in Forks, NEW o \in Options,
             SelectExisting(g) \/ CreateFork(g, o) \/ CreateFails(g, o)
      PROVE  DropRemote
    BY <1>8 DEF SelectExisting, CreateFork, CreateFails
<1>9. ASSUME NEW g \in Forks, SelectExisting(g) PROVE DropRemote
    BY <1>9 DEF SelectExisting
<1> HIDE DEF shown
<1> QED
    BY <1>1, <1>3, <1>5, <1>6, <1>7, <1>8, <1>9 DEF ForkStep

\* Everything above, in every state.
LEMMA ForkInvariance == Spec => []ForkInv
<1>1. Init => ForkInv
    <2>1. ASSUME Init PROVE CacheFollows
        BY <2>1 DEF Init, CacheFollows, Loaded
    <2> QED
        BY <2>1, InitJournal DEF ForkInv
<1>2. ForkInv /\ [Next]_vars => ForkInv'
    BY StepType, StepQuiet, StepFinds, StepFollows DEF ForkInv, JournalInv
<1> QED
    BY <1>1, <1>2, PTL DEF Spec

\* Selecting, creating or failing to create a fork changes nothing any fork
\* shows of a remote account, for any forks and accounts and however deep the
\* call is: what was written before a switch is found again on return, and on
\* no other fork (commit_remote_before_fork_switch, fork_and_select).
THEOREM ForksAreIsolated == Spec => RemoteIsolated
<1> DEFINE Isolated ==
        \A f \in Forks, a \in Addr :
            \/ Persistent(a)
            \/ Seen(f, a)' = Seen(f, a)
            \/ active = Sandbox /\ a \in Carried
            \/ f = active /\ Zeroed(a)
<1>1. ForkInv => [ForkStep => Isolated]_vars
    BY ForkStepIsolates
<1> QED
    BY <1>1, ForkInvariance, PTL DEF RemoteIsolated

\* A local account the active fork has loaded reads the same after rvm.fork,
\* whether the fork is new, cached, current or fails to be created
\* (collect_persistent_from_active, apply_persistent).
THEOREM LocalStateTravels == Spec => LocalsTravel
<1> DEFINE Travels ==
        \A a \in Addr :
            Persistent(a) /\ (Loaded(a) \/ forks[active][a] # NotCached) => SeenNow(a)' = SeenNow(a)
<1>1. ASSUME ForkInv, ForkStep, NEW a \in Addr, Persistent(a),
             Loaded(a) \/ forks[active][a] # NotCached
      PROVE  SeenNow(a)' = SeenNow(a)
    <2>t. /\ TypeOK /\ active \in DOMAIN forks /\ Overlay(active) = forks[active]
          /\ forks \in [DOMAIN forks -> Overlays]
        BY <1>1, ReadFindsValue DEF ForkInv, JournalInv, TypeOK, DbOK
    <2>1. ASSUME NEW g \in Forks, SelectActive(g) PROVE SeenNow(a)' = SeenNow(a)
        BY <2>1 DEF SelectActive, dbVars, txVars, SeenNow, Seen, Read, Overlay, Backing, Loaded
    <2>2. ASSUME DropRemote, Loaded(a) PROVE SeenNow(a)' = SeenNow(a)
        BY <1>1, <2>2 DEF DropRemote, SeenNow, Seen, Loaded
    <2>3. Left[a] = forks[active][a]
        BY <1>1 DEF Left
    <2>4. ASSUME DropRemote, ~Loaded(a), active' \in DOMAIN forks', forks'[active'][a] = Left[a]
          PROVE  SeenNow(a)' = SeenNow(a)
        <3>1. ~Loaded(a)'
            BY <1>1, <2>4 DEF DropRemote, Loaded
        <3> QED
            BY <1>1, <2>3, <2>4, <2>t, <3>1 DEF SeenNow, Seen, Read, Overlay
    <2>5. forks[active][a] # NotCached => \A o : Applied(o)[a] = Left[a]
        BY <1>1, <2>3 DEF Applied, Carried
    <2>6. ASSUME NEW g \in Forks, SelectExisting(g) PROVE SeenNow(a)' = SeenNow(a)
        <3>1. DropRemote /\ active' = g /\ g \in DOMAIN forks' /\ forks'[g] = Applied(forks[g])
            BY <2>6, <2>t DEF SelectExisting
        <3> QED
            BY <1>1, <2>2, <2>4, <2>5, <3>1
    <2>7. ASSUME NEW g \in Forks, NEW o \in Options, CreateFork(g, o) PROVE SeenNow(a)' = SeenNow(a)
        <3>1. DropRemote /\ active' = g /\ g \in DOMAIN forks' /\ forks'[g] = Applied(NewOverlay(g))
            BY <2>7, AddrAssumption DEF CreateFork
        <3> QED
            BY <1>1, <2>2, <2>4, <2>5, <3>1
    <2>8. ASSUME NEW g \in Forks, NEW o \in Options, CreateFails(g, o) PROVE SeenNow(a)' = SeenNow(a)
        <3>1. DropRemote /\ active' = active /\ active \in DOMAIN forks' /\ forks'[active] = Left
            BY <2>8, <2>t DEF CreateFails
        <3> QED
            BY <2>2, <2>4, <3>1
    <2> QED
        BY <1>1, <2>1, <2>6, <2>7, <2>8 DEF ForkStep
<1>2. ForkInv => [ForkStep => Travels]_vars
    BY <1>1
<1> QED
    BY <1>2, ForkInvariance, PTL DEF LocalsTravel

-----------------------------------------------------------------------------
(* A reverted frame leaves no trace.                                       *)

\* One more entry: an account is restored to what it was restored to before,
\* or, if the entry is the first to touch it, to what the entry holds.
LEMMA UndoneAppend ==
    ASSUME NEW log \in Seq(Entry), NEW e \in Entry, NEW st, NEW st2,
           NEW at \in Nat, at <= Len(log), NEW a \in Addr,
           a \notin DOMAIN e => st2[a] = st[a]
    PROVE  \/ UndoneOf(Append(log, e), st2, at)[a] = UndoneOf(log, st, at)[a]
           \/ /\ a \in DOMAIN e
              /\ UndoneOf(Append(log, e), st2, at)[a] = e[a]
              /\ UndoneOf(log, st, at)[a] = st[a]
<1> DEFINE L == Len(log)
           log2 == Append(log, e)
<1>1. /\ L \in Nat /\ log2 \in Seq(Entry) /\ Len(log2) = L + 1 /\ log2[L + 1] = e
      /\ \A i \in 1 .. L : log2[i] = log[i]
    OBVIOUS
<1> HIDE DEF log2
<1>2. CASE \A i \in at + 1 .. L : a \notin DOMAIN log[i]
    <2>1. UndoneOf(log, st, at)[a] = st[a]
        BY <1>2, UndoneOfIsFirst
    <2>2. CASE a \in DOMAIN e
        <3>1. PICK i \in at + 1 .. L + 1 : a \in DOMAIN log2[i] /\ UndoneOf(log2, st2, at)[a] = log2[i][a]
            BY <1>1, <2>2, UndoneOfIsFirst
        <3>2. i = L + 1
            BY <1>1, <1>2, <3>1
        <3> QED
            BY <1>1, <2>1, <2>2, <3>1, <3>2 DEF log2
    <2>3. CASE a \notin DOMAIN e
        <3>1. \A i \in at + 1 .. L + 1 : a \notin DOMAIN log2[i]
            BY <1>1, <1>2, <2>3
        <3>2. UndoneOf(log2, st2, at)[a] = st2[a]
            BY <1>1, <3>1, UndoneOfIsFirst
        <3> QED
            BY <2>1, <2>3, <3>2 DEF log2
    <2> QED
        BY <2>2, <2>3
<1>3. CASE \E i \in at + 1 .. L : a \in DOMAIN log[i]
    <2>1. PICK i \in at + 1 .. L : /\ a \in DOMAIN log[i]
                                   /\ \A j \in at + 1 .. L : a \in DOMAIN log[j] => i <= j
                                   /\ UndoneOf(log, st, at)[a] = log[i][a]
        BY <1>3, UndoneOfIsFirst
    <2>2. PICK k \in at + 1 .. L + 1 : /\ a \in DOMAIN log2[k]
                                       /\ \A j \in at + 1 .. L + 1 : a \in DOMAIN log2[j] => k <= j
                                       /\ UndoneOf(log2, st2, at)[a] = log2[k][a]
        <3>1. i \in at + 1 .. L + 1 /\ a \in DOMAIN log2[i]
            BY <1>1, <2>1
        <3> QED
            BY <1>1, <3>1, UndoneOfIsFirst
    <2>3. k = i
        BY <1>1, <2>1, <2>2
    <2> QED
        BY <1>1, <2>1, <2>2, <2>3 DEF log2
<1> QED
    BY <1>2, <1>3

\* Undoing to an inner checkpoint first makes no difference.
LEMMA UndoneTwice ==
    ASSUME NEW log \in Seq(Entry), NEW st, NEW at \in Nat, NEW to \in Nat,
           at <= to, to <= Len(log), NEW a \in Addr
    PROVE  UndoneOf(SubSeq(log, 1, to), UndoneOf(log, st, to), at)[a] = UndoneOf(log, st, at)[a]
<1> DEFINE L == Len(log)
           log2 == SubSeq(log, 1, to)
           st2 == UndoneOf(log, st, to)
<1>1. /\ L \in Nat /\ log2 \in Seq(Entry) /\ Len(log2) = to
      /\ \A i \in 1 .. to : log2[i] = log[i]
    OBVIOUS
<1> HIDE DEF log2, st2
<1>2. CASE \E i \in at + 1 .. to : a \in DOMAIN log[i]
    <2>1. PICK i \in at + 1 .. L : /\ a \in DOMAIN log[i]
                                   /\ \A j \in at + 1 .. L : a \in DOMAIN log[j] => i <= j
                                   /\ UndoneOf(log, st, at)[a] = log[i][a]
        <3>1. ~\A i \in at + 1 .. L : a \notin DOMAIN log[i]
            BY <1>1, <1>2
        <3> QED
            BY <3>1, UndoneOfIsFirst
    <2>2. PICK k \in at + 1 .. to : /\ a \in DOMAIN log2[k]
                                    /\ \A j \in at + 1 .. to : a \in DOMAIN log2[j] => k <= j
                                    /\ UndoneOf(log2, st2, at)[a] = log2[k][a]
        <3>1. ~\A j \in at + 1 .. Len(log2) : a \notin DOMAIN log2[j]
            BY <1>1, <1>2
        <3>2. \E k \in at + 1 .. Len(log2) :
                 /\ a \in DOMAIN log2[k]
                 /\ \A j \in at + 1 .. Len(log2) : a \in DOMAIN log2[j] => k <= j
                 /\ UndoneOf(log2, st2, at)[a] = log2[k][a]
            <4>1. log2 \in Seq(Entry)
                BY <1>1
            <4> QED
                BY <3>1, <4>1, UndoneOfIsFirst
        <3> QED
            BY <1>1, <3>2
    <2>3. k = i
        BY <1>1, <2>1, <2>2
    <2> QED
        BY <1>1, <2>1, <2>2, <2>3 DEF log2, st2
<1>3. CASE \A i \in at + 1 .. to : a \notin DOMAIN log[i]
    <2>1. UndoneOf(log2, st2, at)[a] = st2[a]
        BY <1>1, <1>3, UndoneOfIsFirst
    <2>2. CASE \A i \in to + 1 .. L : a \notin DOMAIN log[i]
        <3>1. \A i \in at + 1 .. L : a \notin DOMAIN log[i]
            BY <1>1, <1>3, <2>2
        <3>2. UndoneOf(log, st, at)[a] = st[a]
            BY <3>1, UndoneOfIsFirst
        <3>3. UndoneOf(log, st, to)[a] = st[a]
            BY <2>2, UndoneOfIsFirst
        <3> QED
            BY <2>1, <3>2, <3>3 DEF log2, st2
    <2>3. CASE \E i \in to + 1 .. L : a \in DOMAIN log[i]
        <3>1. PICK i \in at + 1 .. L : /\ a \in DOMAIN log[i]
                                       /\ \A j \in at + 1 .. L : a \in DOMAIN log[j] => i <= j
                                       /\ UndoneOf(log, st, at)[a] = log[i][a]
            <4>1. ~\A i \in at + 1 .. L : a \notin DOMAIN log[i]
                BY <1>1, <2>3
            <4> QED
                BY <4>1, UndoneOfIsFirst
        <3>2. PICK k \in to + 1 .. L : /\ a \in DOMAIN log[k]
                                       /\ \A j \in to + 1 .. L : a \in DOMAIN log[j] => k <= j
                                       /\ st2[a] = log[k][a]
            BY <1>1, <2>3, UndoneOfIsFirst DEF st2
        <3>3. k = i
            BY <1>1, <1>3, <3>1, <3>2
        <3> QED
            BY <2>1, <3>1, <3>2, <3>3 DEF log2, st2
    <2> QED
        BY <2>2, <2>3
<1> QED
    BY <1>2, <1>3

\* What code would read of an account once the journal is undone to at.
SeenAfter(at, a) == IF Undone(at)[a] # NotLoaded THEN Undone(at)[a].val ELSE Read(active, a)

\* Undoing to where the frame began shows what the frame found, for the
\* accounts that have not become local since.
FrameRestores(frame) ==
    /\ frame.at <= Len(journal)
    /\ \A a \in Addr : (a \in registry <=> a \in frame.registry) => SeenAfter(frame.at, a) = frame.seen[a]

\* That holds of every clean frame; the frames inside a clean one are clean and
\* began later.
FramesRestore ==
    \A i \in DOMAIN frames :
        /\ frames[i].registry \subseteq registry
        /\ frames[i].clean =>
              /\ FrameRestores(frames[i])
              /\ \A j \in DOMAIN frames : i <= j => frames[j].clean /\ frames[i].at <= frames[j].at

\* A step that keeps the frames and what undoing shows keeps all of it.
LEMMA SameFramesRestore ==
    ASSUME TypeOK, FramesRestore, UNCHANGED frames, registry \subseteq registry',
           Len(journal) <= Len(journal'), journal' \in Seq(Entry),
           \A at \in Nat, a \in Addr :
               at <= Len(journal) /\ (a \in registry' <=> a \in registry) =>
                   SeenAfter(at, a)' = SeenAfter(at, a)
    PROVE  FramesRestore'
<1>f. frames \in Seq(Frame) /\ \A i \in DOMAIN frames : frames[i].at \in Nat /\ frames[i] \in Frame
    BY FramesTyped
<1>1. ASSUME NEW i \in DOMAIN frames, frames[i].clean
      PROVE  FrameRestores(frames[i])'
    <2>1. frames[i].registry \subseteq registry /\ FrameRestores(frames[i])
        BY <1>1 DEF FramesRestore
    <2>2. frames[i].at <= Len(journal')
        BY <1>f, <2>1 DEF FrameRestores, TypeOK
    <2>3. ASSUME NEW a \in Addr, a \in registry' <=> a \in frames[i].registry
          PROVE  SeenAfter(frames[i].at, a)' = frames[i].seen[a]
        <3>1. a \in registry' <=> a \in registry
            BY <2>1, <2>3
        <3>2. SeenAfter(frames[i].at, a) = frames[i].seen[a]
            BY <2>1, <2>3, <3>1 DEF FrameRestores
        <3>3. ASSUME NEW at \in Nat, at <= Len(journal)
              PROVE  SeenAfter(at, a)' = SeenAfter(at, a)
            BY <3>1, <3>3
        <3>4. PICK at \in Nat : at = frames[i].at
            BY <1>f
        <3>5. SeenAfter(at, a)' = SeenAfter(at, a) /\ at = frames'[i].at
            BY <2>1, <3>3, <3>4 DEF FrameRestores
        <3> QED
            BY <3>2, <3>4, <3>5 DEF SeenAfter
    <2> QED
        BY <2>2, <2>3 DEF FrameRestores
<1> QED
    BY <1>1 DEF FramesRestore

\* A step that appends an entry and shows every account as before keeps it too.
LEMMA AppendRestores ==
    ASSUME JournalInv, FramesRestore, UNCHANGED <<frames, active>>, registry \subseteq registry',
           NEW e \in Entry, journal' = Append(journal, e),
           \A a \in Addr : a \notin DOMAIN e => state'[a] = state[a],
           \A a \in Addr : (a \in registry' <=> a \in registry) => Read(active, a)' = Read(active, a),
           \A a \in DOMAIN e : (a \in registry' <=> a \in registry) =>
               \/ e[a] = state[a]
               \/ /\ ~Loaded(a) /\ e[a] \in Account /\ e[a].val = Read(active, a)
    PROVE  FramesRestore'
<1>t. TypeOK /\ journal \in Seq(Entry) /\ Len(journal) \in Nat
    BY DEF JournalInv, TypeOK
<1>1. journal' \in Seq(Entry) /\ Len(journal) <= Len(journal')
    BY <1>t
<1>2. ASSUME NEW at \in Nat, NEW a \in Addr, at <= Len(journal), a \in registry' <=> a \in registry
      PROVE  SeenAfter(at, a)' = SeenAfter(at, a)
    <2>1. Undone(at) = UndoneOf(journal, state, at) /\ Undone(at)' = UndoneOf(journal', state', at)
        BY DEF Undone, UndoneOf
    <2>2. Read(active, a)' = Read(active, a)
        BY <1>2
    <2>3. \/ Undone(at)'[a] = Undone(at)[a]
          \/ a \in DOMAIN e /\ Undone(at)'[a] = e[a] /\ Undone(at)[a] = state[a]
        <3>1. a \notin DOMAIN e => state'[a] = state[a]
            OBVIOUS
        <3> QED
            BY <1>t, <1>2, <2>1, <3>1, UndoneAppend
    <2>4. CASE Undone(at)'[a] = Undone(at)[a]
        BY <2>2, <2>4 DEF SeenAfter
    <2>5. CASE a \in DOMAIN e /\ Undone(at)'[a] = e[a] /\ Undone(at)[a] = state[a] /\ e[a] # state[a]
        <3>1. ~Loaded(a) /\ e[a] \in Account /\ e[a].val = Read(active, a)
            BY <1>2, <2>5
        <3>2. e[a] # NotLoaded
            BY <3>1, MarksAreNoValues
        <3> QED
            BY <2>2, <2>5, <3>1, <3>2 DEF SeenAfter, Loaded
    <2> QED
        BY <2>3, <2>4, <2>5
<1> QED
    BY <1>t, <1>1, <1>2, SameFramesRestore

\* Every step keeps the clean frames restorable.
LEMMA StepFrames ==
    ASSUME JournalInv, FramesRestore, [Next]_vars
    PROVE  FramesRestore'
<1>t. /\ TypeOK /\ journal \in Seq(Entry) /\ Len(journal) \in Nat
      /\ state \in [Addr -> Account \cup {NotLoaded}]
      /\ active \in DOMAIN forks /\ forks \in [DOMAIN forks -> Overlays] /\ Overlay(active) = forks[active]
      /\ Empty \in Value
    <2>1. TypeOK
        BY DEF JournalInv
    <2>2. active \in DOMAIN forks /\ journal \in Seq(Entry)
        BY <2>1 DEF TypeOK, DbOK
    <2>3. Overlay(active) = forks[active] /\ Empty \in Value
        BY <2>2 DEF Overlay, Value
    <2> QED
        BY <2>1, <2>2, <2>3 DEF TypeOK, DbOK
<1>f. frames \in Seq(Frame) /\ \A i \in DOMAIN frames : frames[i].at \in Nat /\ frames[i] \in Frame
    BY <1>t, FramesTyped
<1>1. ASSUME UNCHANGED <<frames, journal, state, active, forks, registry>> PROVE FramesRestore'
    <2>1. \A x : FrameRestores(x) <=> FrameRestores(x)'
        BY <1>1 DEF FrameRestores, SeenAfter, Undone, Read, Overlay, Backing
    <2> QED
        BY <1>1, <2>1 DEF FramesRestore
<1>2. ASSUME frames' = <<>> PROVE FramesRestore'
    BY <1>2 DEF FramesRestore
<1>3. ASSUME Dirty, UNCHANGED registry PROVE FramesRestore'
    <2>1. DOMAIN frames' = DOMAIN frames /\ \A i \in DOMAIN frames' : ~frames'[i].clean
        BY <1>3, <1>f, DirtyFrames
    <2>2. \A i \in DOMAIN frames : frames'[i].registry = frames[i].registry
        BY <1>3, <1>f DEF Dirty, Frame
    <2> QED
        BY <1>3, <2>1, <2>2 DEF FramesRestore
<1>4. ASSUME frames' = Append(frames, OpenFrame), UNCHANGED <<journal, state, active, forks, registry>>
      PROVE  FramesRestore'
    <2>1. OpenFrame \in Frame /\ OpenFrame.at = Len(journal) /\ OpenFrame.clean = TRUE
             /\ OpenFrame.registry = registry /\ OpenFrame.seen = [a \in Addr |-> SeenNow(a)]
        BY <1>t, OpenFrameType DEF OpenFrame
    <2>2. ASSUME NEW a \in Addr PROVE SeenAfter(Len(journal), a) = SeenNow(a)
        <3>1. Undone(Len(journal))[a] = state[a]
            BY <1>t, UndoneIsFirst
        <3> QED
            BY <3>1 DEF SeenAfter, SeenNow, Seen, Loaded
    <2>3. FrameRestores(OpenFrame)
        BY <1>t, <2>1, <2>2 DEF FrameRestores
    <2>4. \A x : FrameRestores(x) <=> FrameRestores(x)'
        BY <1>4 DEF FrameRestores, SeenAfter, Undone, Read, Overlay, Backing
    <2>5. ASSUME NEW i \in DOMAIN frames'
          PROVE  /\ frames'[i].registry \subseteq registry'
                 /\ frames'[i].clean =>
                       /\ FrameRestores(frames'[i])
                       /\ \A j \in DOMAIN frames' : i <= j => frames'[j].clean /\ frames'[i].at <= frames'[j].at
        <3>1. DOMAIN frames' = 1 .. Len(frames) + 1 /\ frames'[Len(frames) + 1] = OpenFrame
              /\ \A j \in 1 .. Len(frames) : frames'[j] = frames[j]
            BY <1>4, <1>f, <2>1
        <3>2. CASE i = Len(frames) + 1
            BY <1>4, <1>f, <2>1, <2>3, <3>1, <3>2
        <3>3. CASE i \in DOMAIN frames
            <4>1. frames[i].clean => frames[i].at <= Len(journal)
                BY <3>3 DEF FramesRestore, FrameRestores
            <4> QED
                BY <1>4, <1>f, <2>1, <3>1, <3>3, <4>1 DEF FramesRestore
        <3> QED
            BY <1>f, <3>1, <3>2, <3>3
    <2> QED
        BY <2>4, <2>5 DEF FramesRestore
<1>5. CASE ReturnFrame
    <2>1. /\ UNCHANGED <<journal, state, active, forks, registry>>
          /\ DOMAIN frames' \subseteq DOMAIN frames /\ \A i \in DOMAIN frames' : frames'[i] = frames[i]
        BY <1>5, <1>f DEF ReturnFrame, Pop, dbVars
    <2>2. \A x : FrameRestores(x) <=> FrameRestores(x)'
        BY <2>1 DEF FrameRestores, SeenAfter, Undone, Read, Overlay, Backing
    <2>3. \A i \in DOMAIN frames' :
              /\ frames'[i].registry \subseteq registry'
              /\ frames'[i].clean =>
                    /\ FrameRestores(frames'[i])
                    /\ \A j \in DOMAIN frames' : i <= j => frames'[j].clean /\ frames'[i].at <= frames'[j].at
        BY <2>1 DEF FramesRestore
    <2> QED
        BY <2>2, <2>3 DEF FramesRestore
<1>6. CASE RevertFrame
    <2> DEFINE n == Len(frames)
               to == frames[n].at
    <2>1. n \in DOMAIN frames /\ n \in Nat /\ to \in Nat
        BY <1>6, <1>t, TopFrame DEF RevertFrame
    <2>2. /\ UNCHANGED <<active, forks, registry>> /\ state' = Undone(to)
          /\ journal' = IF to < Len(journal) THEN SubSeq(journal, 1, to) ELSE journal
          /\ frames' = SubSeq(frames, 1, n - 1)
        BY <1>6 DEF RevertFrame, Pop, dbVars
    <2>3. DOMAIN frames' \subseteq DOMAIN frames
             /\ \A i \in DOMAIN frames' : frames'[i] = frames[i] /\ i <= n
        BY <1>f, <2>1, <2>2
    <2>4. \A a \in Addr : Read(active, a)' = Read(active, a)
        BY <2>2 DEF Read, Overlay, Backing
    <2>5. ASSUME NEW x \in Frame, FrameRestores(x), x.at <= to, to <= Len(journal)
          PROVE  FrameRestores(x)'
        <3>1. journal' = SubSeq(journal, 1, to) /\ Len(journal') = to /\ x.at \in Nat
            BY <1>t, <2>1, <2>2, <2>5 DEF Frame
        <3>2. Undone(x.at) = UndoneOf(journal, state, x.at) /\ Undone(x.at)' = UndoneOf(journal', state', x.at)
                 /\ Undone(to) = UndoneOf(journal, state, to)
            BY DEF Undone, UndoneOf
        <3>3. ASSUME NEW a \in Addr PROVE Undone(x.at)'[a] = Undone(x.at)[a]
            BY <1>t, <2>1, <2>2, <2>5, <3>1, <3>2, UndoneTwice
        <3>4. ASSUME NEW a \in Addr PROVE SeenAfter(x.at, a)' = SeenAfter(x.at, a)
            BY <2>4, <3>3 DEF SeenAfter
        <3> QED
            BY <2>2, <2>5, <3>1, <3>4 DEF FrameRestores
    <2>6. ASSUME NEW i \in DOMAIN frames', frames[i].clean PROVE FrameRestores(frames[i]) /\ frames[i].at <= to /\ to <= Len(journal)
        BY <2>1, <2>3, <2>6 DEF FramesRestore, FrameRestores
    <2> HIDE DEF n, to
    <2>7. ASSUME NEW i \in DOMAIN frames' PROVE \E x \in Frame : x = frames'[i] /\ (x.clean => FrameRestores(x)')
        BY <1>f, <2>3, <2>5, <2>6
    <2>8. \A i \in DOMAIN frames' :
              /\ frames'[i].registry \subseteq registry'
              /\ \A j \in DOMAIN frames' : frames'[i].clean /\ i <= j => frames'[j].clean /\ frames'[i].at <= frames'[j].at
        BY <2>2, <2>3 DEF FramesRestore
    <2> QED
        BY <2>7, <2>8 DEF FramesRestore
<1>7. ASSUME NEW b \in Addr, Load(b) PROVE FramesRestore'
    <2> DEFINE v == Read(active, b)
               x == [val |-> v, touched |-> FALSE]
    <2>1. v \in Value /\ x \in Account
        BY <1>t, ReadFindsValue DEF Account
    <2>2. /\ state' = [state EXCEPT ![b] = x] /\ journal' = Append(journal, [c \in {b} |-> x])
          /\ forks' = [forks EXCEPT ![active][b] = v] /\ UNCHANGED <<active, registry, frames>>
          /\ ~Loaded(b)
        BY <1>7 DEF Load
    <2>3. [c \in {b} |-> x] \in Entry
        BY <2>1, SingleEntry
    <2>4. /\ forks'[active][b] = v /\ DOMAIN forks' = DOMAIN forks
          /\ \A a \in Addr : a # b => forks'[active][a] = forks[active][a]
        BY <1>t, <2>2 DEF Overlays
    <2>5. ASSUME NEW a \in Addr PROVE Read(active, a)' = Read(active, a)
        <3>1. Overlay(active)' = forks'[active] /\ Backing(active, a)' = Backing(active, a)
            BY <1>t, <2>2, <2>4 DEF Overlay, Backing
        <3>2. CASE a = b
            BY <2>1, <2>4, <3>1, <3>2, MarksAreNoValues DEF Read
        <3>3. CASE a # b
            BY <1>t, <2>4, <3>1, <3>3 DEF Read
        <3> QED
            BY <3>2, <3>3
    <2>6. x.val = Read(active, b)
        OBVIOUS
    <2> HIDE DEF x, v
    <2>7. DOMAIN [c \in {b} |-> x] = {b} /\ [c \in {b} |-> x][b] = x
        OBVIOUS
    <2>8. \A a \in Addr : a # b => state'[a] = state[a]
        BY <1>t, <2>2
    <2> QED
        BY <2>1, <2>2, <2>3, <2>5, <2>6, <2>7, <2>8, AppendRestores
<1>8. ASSUME NEW b \in Addr, Create(b) PROVE FramesRestore'
    <2> DEFINE v == IF Overlay(active)[b] = NotCached THEN Empty ELSE Overlay(active)[b]
               x == [val |-> v, touched |-> FALSE]
    <2>1. v \in Value /\ x \in Account
        BY <1>t DEF Account, Overlays
    <2>2. /\ state' = [state EXCEPT ![b] = [val |-> Written(active), touched |-> TRUE]]
          /\ journal' = Append(journal, [c \in {b} |-> x])
          /\ forks' = [forks EXCEPT ![active][b] = v] /\ UNCHANGED <<active, frames>>
          /\ ~Loaded(b) /\ registry' = registry \cup {b}
        BY <1>8 DEF Create
    <2>3. [c \in {b} |-> x] \in Entry
        BY <2>1, SingleEntry
    <2>4. /\ forks'[active][b] = v /\ DOMAIN forks' = DOMAIN forks
          /\ \A a \in Addr : a # b => forks'[active][a] = forks[active][a]
        BY <1>t, <2>2 DEF Overlays
    <2>5. (b \in registry' <=> b \in registry) => v = Read(active, b)
        BY <1>t, <2>2 DEF Read, Backing
    <2>6. ASSUME NEW a \in Addr, a \in registry' <=> a \in registry PROVE Read(active, a)' = Read(active, a)
        <3>1. Overlay(active)' = forks'[active] /\ Backing(active, a)' = Backing(active, a)
            BY <1>t, <2>2, <2>4, <2>6 DEF Overlay, Backing
        <3>2. CASE a = b
            BY <2>1, <2>4, <2>5, <2>6, <3>1, <3>2, MarksAreNoValues DEF Read
        <3>3. CASE a # b
            BY <1>t, <2>4, <3>1, <3>3 DEF Read
        <3> QED
            BY <3>2, <3>3
    <2>7. x.val = v
        OBVIOUS
    <2> HIDE DEF x, v
    <2>8. DOMAIN [c \in {b} |-> x] = {b} /\ [c \in {b} |-> x][b] = x
        OBVIOUS
    <2>9. \A a \in Addr : a # b => state'[a] = state[a]
        BY <1>t, <2>2
    <2> QED
        BY <2>1, <2>2, <2>3, <2>5, <2>6, <2>7, <2>8, <2>9, AppendRestores
<1>9. ASSUME NEW A \in SUBSET Addr, Write(A) PROVE FramesRestore'
    <2>1. [a \in A |-> state[a]] \in Entry
        BY <1>9 DEF Write, Entry, Loaded, JournalInv, TypeOK
    <2>2. /\ UNCHANGED <<active, forks, registry, frames>> /\ journal' = Append(journal, [a \in A |-> state[a]])
          /\ \A a \in Addr : a \notin A => state'[a] = state[a]
        BY <1>9 DEF Write, Log, dbVars
    <2>3. \A a \in Addr : Read(active, a)' = Read(active, a)
        BY <2>2 DEF Read, Overlay, Backing
    <2> QED
        BY <2>1, <2>2, <2>3, AppendRestores
<1>10. ASSUME NEW b \in Addr, MarkLocal(b) PROVE FramesRestore'
    <2>1. UNCHANGED <<active, forks, state, journal, frames>> /\ registry' = registry \cup {b}
        BY <1>10 DEF MarkLocal, dbVars, txVars
    <2>2. ASSUME NEW at \in Nat, NEW a \in Addr, a \in registry' <=> a \in registry
          PROVE  SeenAfter(at, a)' = SeenAfter(at, a)
        BY <2>1, <2>2 DEF SeenAfter, Undone, Read, Overlay, Backing
    <2> QED
        BY <1>t, <2>1, <2>2, SameFramesRestore
<1>11. CASE ForkStep
    BY <1>1, <1>3, <1>11, ForkStepCases DEF SelectActive, DropRemote, txVars, dbVars
<1>12. ASSUME NEW b \in Addr, Store(b) \/ TxFault(b) PROVE FramesRestore'
    BY <1>2, <1>3, <1>12 DEF Store, TxFault, ClearJournal
<1>13. CASE EndTx \/ NextInput
    BY <1>2, <1>13 DEF EndTx, ClearJournal, NextInput, txVars, JournalInv, Quiet
<1>14. CASE BeginTx
    <2>1. frames = <<>> /\ frames' = <<OpenFrame>> /\ UNCHANGED <<journal, state, active, forks, registry>>
        BY <1>14 DEF BeginTx, JournalInv, Quiet, dbVars
    <2>2. frames' = Append(frames, OpenFrame)
        BY <2>1
    <2> QED
        BY <1>4, <2>1, <2>2
<1>15. CASE CallFrame
    BY <1>4, <1>15 DEF CallFrame, dbVars
<1>16. CASE FinishSetup \/ UNCHANGED vars
    BY <1>1, <1>16 DEF FinishSetup, vars, txVars, dbVars
<1> QED
    BY <1>5, <1>6, <1>7, <1>8, <1>9, <1>10, <1>11, <1>12, <1>13, <1>14, <1>15, <1>16 DEF Next

\* A reverted frame in which neither rvm.fork split the journal nor rvm.store
\* ran shows every account as the frame found it, however many frames were
\* opened, returned and reverted inside it (revm's checkpoints over the
\* journal, the overlay and the registry).
THEOREM RevertLeavesNoTrace == Spec => RevertRestores
<1> DEFINE Restores ==
        \A a \in Addr :
            (a \in registry <=> a \in frames[Len(frames)].registry) =>
                SeenNow(a)' = frames[Len(frames)].seen[a]
           Inv == JournalInv /\ FramesRestore
<1>1. Init => Inv
    <2>1. ASSUME Init PROVE FramesRestore
        BY <2>1 DEF Init, FramesRestore
    <2> QED
        BY <2>1, InitJournal
<1>2. Inv /\ [Next]_vars => Inv'
    BY StepType, StepQuiet, StepFinds, StepFrames DEF JournalInv
<1>3. ASSUME Inv, RevertFrame, frames[Len(frames)].clean
      PROVE  Restores
    <2> DEFINE n == Len(frames)
    <2>1. n \in DOMAIN frames
        BY <1>3, TopFrame DEF RevertFrame, JournalInv
    <2>2. FrameRestores(frames[n])
        BY <1>3, <2>1 DEF FramesRestore
    <2>3. UNCHANGED <<active, forks, registry>> /\ state' = Undone(frames[n].at)
        BY <1>3 DEF RevertFrame, dbVars
    <2>4. ASSUME NEW a \in Addr PROVE SeenNow(a)' = SeenAfter(frames[n].at, a)
        BY <2>3 DEF SeenNow, Seen, Loaded, SeenAfter, Read, Overlay, Backing
    <2> QED
        BY <2>2, <2>4 DEF FrameRestores
<1>4. Inv => [RevertFrame /\ frames[Len(frames)].clean => Restores]_vars
    BY <1>3
<1> QED
    BY <1>1, <1>2, <1>4, PTL DEF Spec, RevertRestores
=============================================================================
