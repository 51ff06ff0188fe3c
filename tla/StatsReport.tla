---------------------------- MODULE StatsReport ----------------------------
(***************************************************************************)
(* The statistics of a test campaign (src/tester/stats.rs) and its stop    *)
(* filters (src/tester/stop.rs): fuzzer threads count every call of a      *)
(* function, its time and, by kind and data, the way it reverted, and a    *)
(* filter may make a finding of the same revert.  Counters are atomics,    *)
(* the groups are behind a mutex; the snapshot is taken when the threads   *)
(* have ended.  The RPC counters, sums like the total time, are left out.  *)
(*                                                                         *)
(* A result is [success, output, elapsed].  An output is [halt, len, sel,  *)
(* decodes, id]: whether there is none, its length, its selector (NoText   *)
(* below 4 bytes), whether the payload decodes as that error, its data.    *)
(* The total of a campaign's times is far from the limit of u64.           *)
(***************************************************************************)
EXTENDS Integers, Sequences, FiniteSets, FiniteSetsExt, Functions

CONSTANTS
    Recorders,      \* the fuzzer threads
    Results,        \* the results calls may have
    MaxRecorded,    \* bound: calls recorded
    MaxNs,          \* u64::MAX, the empty minimum
    Filters,        \* stop filters a campaign may be given
    KnownErrors     \* ErrorResolver.names: selectors of the compiled errors

\* No selector, no message.
NoText == ""

\* An output is what revm returns: none, or bytes; only 4 bytes and more
\* have a selector and may decode.  Times are cut off at u64::MAX.
Wellformed(o) ==
    /\ {o.halt, o.decodes} \subseteq BOOLEAN /\ o.len \in Nat
    /\ o.halt => o.len = 0
    /\ o.len < 4 <=> o.sel = NoText
    /\ o.decodes => o.len >= 4

ASSUME StatsAssumption ==
    /\ IsFiniteSet(Recorders) /\ {MaxNs, MaxRecorded} \subseteq Nat
    /\ NoText \notin KnownErrors
    /\ \A r \in Results : r.success \in BOOLEAN /\ r.elapsed \in 0 .. MaxNs /\ Wellformed(r.output)

VARIABLES
    counters,       \* FunctionCounters of one handler
    recording,      \* what each thread is recording, and how far it is
    recorded        \* the results whose recording has begun

statsVars == <<counters, recording, recorded>>

NoResult == [at |-> "idle"]
-----------------------------------------------------------------------------
(* classify, from_revert and decode_revert: three readings of one output *)

Key(kind, data) == [kind |-> kind, data |-> data]

\* classify: the first reading that fits
Reading(o) ==
    LET is(error) == o.sel = error /\ o.decodes
    IN  IF o.halt THEN Key("Halt", NoText)
        ELSE IF o.len = 0 THEN Key("EmptyRevert", NoText)
        ELSE IF is("BrokenInvariantError") /\ o.id # NoText THEN Key("BrokenInvariantError", o.id)
        ELSE IF is("Error") THEN Key("Error", o.id)
        ELSE IF is("Panic") THEN Key("Panic", o.id)
        ELSE IF o.len >= 4 THEN Key("CustomError", o.sel)
        ELSE Key("UnknownRevert", o.id)
Classify(r) == IF r.success THEN {} ELSE {Reading(r.output)}

\* BrokenInvariant::from_revert: what the campaign reports
FromRevert(o) ==
    IF o.sel = "BrokenInvariantError" /\ o.decodes /\ o.id # NoText THEN {o.id} ELSE {}

\* TraceContext::decode_revert: what the trace prints
DecodeRevert(o) ==
    IF o.halt \/ o.len = 0 THEN "reverted"
    ELSE IF o.sel = "Error" /\ o.decodes THEN "message"
    ELSE IF o.sel = "Panic" /\ o.decodes THEN "panic"
    ELSE IF o.sel \in KnownErrors THEN "named" ELSE "bytes"

\* StopOnRevert and StopOnPanic; a filter is [kind, of], of is "any", a
\* selector or a panic code
IsPanic(o) == o.sel = "Panic" /\ o.decodes
Matches(filter, r) ==
    /\ ~r.success
    /\ IF filter.kind = "panic" THEN IsPanic(r.output) /\ filter.of \in {"any", r.output.id}
       ELSE IF filter.of = "any" THEN FromRevert(r.output) = {}
       ELSE r.output.len >= 4 /\ r.output.sel = filter.of

\* finding_id: the identity of the revert, for the shrinker to preserve
PanicId(o) == IF IsPanic(o) THEN <<"code", o.id>> ELSE <<"unknown", NoText>>
RevertId(o) == IF o.halt THEN <<"halt", NoText>>
               ELSE IF o.len >= 4 THEN <<"selector", o.sel>>
               ELSE IF o.len = 0 THEN <<"empty", NoText>> ELSE <<"bytes", o.id>>
FindingId(filter, r) ==
    [kind |-> filter.kind,
     id |-> IF filter.kind = "panic" THEN PanicId(r.output) ELSE RevertId(r.output)]

\* matches_expected: whether a replayed call still is the finding
MatchesPanic(o, id) == IsPanic(o) /\ (id[1] = "code" => o.id = id[2])
MatchesRevert(o, id) ==
    CASE id[1] = "halt" -> o.halt
      [] id[1] = "empty" -> ~o.halt /\ o.len = 0
      [] id[1] = "selector" -> o.len >= 4 /\ o.sel = id[2]
      [] OTHER -> o.len \in 1..3 /\ o.id = id[2]
MatchesExpected(r, expected) ==
    /\ ~r.success
    /\ IF expected.kind = "panic" THEN MatchesPanic(r.output, expected.id)
       ELSE MatchesRevert(r.output, expected.id)

\* from_key and ErrorResolver::resolve: how a group is shown
Shows(key) ==
    CASE key.kind = "Error" -> "message"
      [] key.kind = "Panic" -> "panic"
      [] key.kind = "CustomError" -> IF key.data \in KnownErrors THEN "named" ELSE "selector"
      [] key.kind \in {"Halt", "EmptyRevert"} -> "reverted"
      [] key.kind = "BrokenInvariantError" -> "report"
      [] OTHER -> "bytes"
-----------------------------------------------------------------------------
(* FunctionCounters *)

StatsIdle ==
    /\ counters = [calls |-> 0, successful |-> 0, reverts |-> 0, total |-> 0, min |-> MaxNs,
                   max |-> 0, groups |-> [key \in {} |-> 0]]
    /\ recording = [t \in Recorders |-> NoResult]
    /\ recorded = <<>>

\* a thread has executed a call and starts to record it
BeginRecord(t, r) ==
    /\ recording[t] = NoResult
    /\ recording' = [recording EXCEPT ![t] = [at |-> "outcome", result |-> r]]
    /\ recorded' = Append(recorded, r)
    /\ UNCHANGED counters

\* record, step 1
RecordOutcome(t) ==
    /\ recording[t].at = "outcome"
    /\ LET ok == recording[t].result.success
       IN  counters' = [counters EXCEPT !.calls = @ + 1,
                                        !.successful = IF ok THEN @ + 1 ELSE @,
                                        !.reverts = IF ok THEN @ ELSE @ + 1]
    /\ recording' = [recording EXCEPT ![t].at = "time"]
    /\ UNCHANGED recorded

\* record, step 2
RecordTime(t) ==
    /\ recording[t].at = "time"
    /\ LET ns == recording[t].result.elapsed
       IN  counters' = [counters EXCEPT !.total = @ + ns, !.min = Min({@, ns}), !.max = Max({@, ns})]
    /\ recording' = [recording EXCEPT ![t].at = "group"]
    /\ UNCHANGED recorded

\* record, step 3: the count of the revert's group, under the lock
Grouped_Reset(groups, keys) ==
    [k \in DOMAIN groups \union keys |-> IF k \in keys THEN 1 ELSE groups[k]]
CountIn(groups, k) == IF k \in DOMAIN groups THEN groups[k] ELSE 0
Grouped(groups, keys) ==
    [k \in DOMAIN groups \union keys |-> CountIn(groups, k) + (IF k \in keys THEN 1 ELSE 0)]
RecordGroup(t) ==
    /\ recording[t].at = "group"
    /\ counters' = [counters EXCEPT !.groups = Grouped(@, Classify(recording[t].result))]
    /\ recording' = [recording EXCEPT ![t] = NoResult]
    /\ UNCHANGED recorded
RecordStep(t) == RecordOutcome(t) \/ RecordTime(t) \/ RecordGroup(t)

StatsNext ==
    \E t \in Recorders :
        \/ Len(recorded) < MaxRecorded /\ \E r \in Results : BeginRecord(t, r)
        \/ RecordStep(t)

StatsSpec == StatsIdle /\ [][StatsNext]_statsVars

\* snapshot, of the timings and the groups
Snapshot ==
    [calls |-> counters.calls, successful |-> counters.successful, reverts |-> counters.reverts,
     min |-> IF counters.calls = 0 THEN 0 ELSE counters.min, max |-> counters.max,
     avg |-> IF counters.calls = 0 THEN 0 ELSE counters.total \div counters.calls,
     groups |-> counters.groups]
-----------------------------------------------------------------------------
(* Properties *)

\* The saved statistics add up however the threads interleaved: every call
\* is a success or in exactly one group of reverts, every group is as large
\* as the number of such calls, and the mean time lies between the extremes
\* (stats.rs record, classify, snapshot).
StatsAddUp ==
    (\A t \in Recorders : recording[t] = NoResult) =>
        LET s == Snapshot
        IN  /\ s.calls = Len(recorded) /\ s.calls = s.successful + s.reverts
            /\ s.reverts = SumFunctionOnSet(s.groups, DOMAIN s.groups)
            /\ \A k \in DOMAIN s.groups :
                  s.groups[k] = Cardinality({i \in DOMAIN recorded : k \in Classify(recorded[i])})
            /\ s.min <= s.avg /\ s.avg <= s.max

\* The statistics, the campaign and the trace read a revert alike: a group
\* of broken invariants holds just the calls the campaign reports, a known
\* custom error has its name in the trace and in the statistics, and so have
\* messages and panics (stats.rs classify, broken_invariant.rs from_revert,
\* context.rs decode_revert).
ReportsAgree ==
    \A i \in DOMAIN recorded :
        LET o == recorded[i].output
        IN  \A key \in Classify(recorded[i]) :
                /\ (key.kind = "BrokenInvariantError") <=> FromRevert(o) = {key.data}
                /\ CASE Shows(key) = "report" -> DecodeRevert(o) \in {"named", "bytes"}
                     [] Shows(key) = "selector" -> DecodeRevert(o) = "bytes"
                     [] OTHER -> DecodeRevert(o) = Shows(key)

\* A finding a stop filter makes of a revert is one the shrinker can keep: a
\* replayed call counts as the finding just when it failed in the way that
\* gives the same finding id, whatever the length and the data of the two
\* outputs (stop.rs matches, finding_id, matches_expected).
FindingsKeepTheirId ==
    \A i, j \in DOMAIN recorded, filter \in Filters :
        Matches(filter, recorded[i]) =>
            (MatchesExpected(recorded[j], FindingId(filter, recorded[i]))
             <=> ~recorded[j].success
                 /\ FindingId(filter, recorded[j]) = FindingId(filter, recorded[i]))

\* Statistics, findings, traces and the shrinker's replays agree on what each
\* revert of the campaign is.
RevertsAgree == ReportsAgree /\ FindingsKeepTheirId

\* The saved statistics are right: they add up, and a revert is the same to
\* everyone who reports it.
StatsSound == StatsAddUp /\ RevertsAgree
=============================================================================
