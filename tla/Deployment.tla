----------------------------- MODULE Deployment -----------------------------
(***************************************************************************)
(* From a compiled contract to a deployed one: the rules a test harness, a *)
(* max harness and a script are checked against (src/tester/harness.rs,    *)
(* src/maxer/harness.rs, src/executor/script.rs), the libraries that are   *)
(* resolved, deployed and linked first (src/evm/chain/linker.rs,           *)
(* Chain::deploy) and the calls that follow (src/cli/exec.rs, and the      *)
(* first steps of src/cli/test.rs and max.rs).                             *)
(*                                                                         *)
(* A program gives every contract its initcode: [links, empty], links the  *)
(* libraries whose placeholders are in it, in some order (solc's link      *)
(* references are a hash map).  An ABI is [constructor, functions]: a      *)
(* constructor is absent, or <<c>>; a function is [name, args, mutability, *)
(* returns], in the order of the ABI.                                      *)
(***************************************************************************)
EXTENDS Naturals, Sequences, SequencesExt, Subsequences

CONSTANTS
    Target,     \* the contract of the command
    Commands    \* the commands: [kind, program, abi]

ASSUME DeploymentAssumption ==
    \A c \in Commands :
       /\ c.kind \in {"test", "max", "exec"} /\ Target \in DOMAIN c.program
       /\ \A id \in DOMAIN c.program : c.program[id].links \in Seq(Range(c.program[id].links))
       /\ c.abi.functions \in Seq(Range(c.abi.functions))

VARIABLES
    command,    \* [kind, program, abi], <<>> before the command
    stage,      \* what the command does next
    visits,     \* deploy_library's recursion: [id, rest], rest still to visit
    addresses,  \* library_addrs
    chainCode,  \* the contracts on the chain, by address: [id, linked]
    calls,      \* the functions called after the deployment
    traces      \* execution traces saved

deploymentVars == <<command, stage, visits, addresses, chainCode, calls, traces>>
-----------------------------------------------------------------------------
(* Rules *)

Overloads(abi, name) ==
    ElementsAt(abi.functions, {i \in DOMAIN abi.functions : abi.functions[i].name = name})
Invariants(abi) == {f \in Range(abi.functions) : f.name = "invariant_"}
\* called with its bare selector and without value
Bare(f) == f.args = 0 /\ f.mutability # "payable"
ConstructorBare(abi) == \A c \in Range(abi.constructor) : Bare(c)

\* capture_optional: the first of the overloads counts
First(abi, name) ==
    LET all == Overloads(abi, name) IN IF all = <<>> THEN <<>> ELSE <<Head(all)>>

TestAccepts(abi) ==
    /\ ConstructorBare(abi)
    /\ \A name \in {"setup", "summary"} : \A f \in Range(First(abi, name)) : Bare(f)
    /\ \A f \in Invariants(abi) : Bare(f)

\* neither the arguments of value nor setup, summary or the constructor are
\* looked at
MaxAccepts(abi) ==
    /\ Invariants(abi) = {}
    /\ Len(Overloads(abi, "value")) = 1
    /\ LET value == Head(Overloads(abi, "value"))
       IN  value.mutability \in {"view", "pure"} /\ value.returns = "uint256"

ScriptAccepts(abi) ==
    /\ ConstructorBare(abi)
    /\ \A f \in Range(Overloads(abi, "setup")) : f.args = 0 /\ f.mutability = "nonpayable"
    /\ Len(Overloads(abi, "exec")) = 1
    /\ LET exec == Head(Overloads(abi, "exec")) IN exec.args = 0 /\ exec.mutability = "nonpayable"

Accepts(kind, abi) ==
    CASE kind = "test" -> TestAccepts(abi)
      [] kind = "max" -> MaxAccepts(abi)
      [] OTHER -> ScriptAccepts(abi)
-----------------------------------------------------------------------------
(* Libraries *)

\* resolve_libraries: every library below the target is compiled and has code.
\* Around a cycle of links the code's recursion does not end; the model's does
\* not either, in the visits, and nothing of the cycle is deployed.
ClosedBelow(program, below) ==
    /\ Range(program[Target].links) \subseteq below
    /\ \A id \in below : ~program[id].empty /\ Range(program[id].links) \subseteq below
Resolves(program) == \E below \in SUBSET DOMAIN program : ClosedBelow(program, below)

\* deploy_library visits the nested libraries first, shared ones again
VisitOf(program, id) == [id |-> id, rest |-> program[id].links]
NestedDone_Early(visit) == Len(visit.rest) <= 1
NestedDone(visit) == visit.rest = <<>>

\* link_libraries: the placeholders of the libraries deployed so far; one
\* that is left makes the initcode no hex, and it deploys as empty code
Linked(id) ==
    LET links == Range(command.program[id].links)
    IN  [l \in links |-> IF l \in DOMAIN addresses THEN <<addresses[l]>> ELSE <<>>]
-----------------------------------------------------------------------------
(* The command *)

DeploymentIdle ==
    /\ command = <<>> /\ stage = "idle" /\ visits = <<>> /\ addresses = <<>>
    /\ chainCode = <<>> /\ calls = <<>> /\ traces = 0

\* compilation is over: the rules, then the libraries
StartCommand(c) ==
    /\ stage = "idle"
    /\ command' = c
    /\ LET ok == /\ ~c.program[Target].empty
                 /\ Resolves(c.program) /\ Accepts(c.kind, c.abi)
       IN  /\ stage' = IF ok THEN "deploy" ELSE "failed"
           /\ visits' = IF ok THEN <<VisitOf(c.program, Target)>> ELSE <<>>
    /\ UNCHANGED <<addresses, chainCode, calls, traces>>

VisitNested ==
    /\ stage = "deploy" /\ visits # <<>> /\ Last(visits).rest # <<>>
    /\ visits' = Append([visits EXCEPT ![Len(visits)].rest = Tail(@)],
                        VisitOf(command.program, Head(Last(visits).rest)))
    /\ UNCHANGED <<command, stage, addresses, chainCode, calls, traces>>

\* deploy_raw
CreateRaw(id) == chainCode' = Append(chainCode, [id |-> id, linked |-> Linked(id)])

DeployLibrary ==
    /\ stage = "deploy" /\ Len(visits) > 1 /\ NestedDone(Last(visits))
    /\ visits' = Front(visits)
    /\ LET id == Last(visits).id
       IN  IF id \in DOMAIN addresses THEN UNCHANGED <<addresses, chainCode>>
           ELSE /\ CreateRaw(id)
                /\ addresses' = [l \in DOMAIN addresses \union {id} |->
                                    IF l = id THEN Len(chainCode) + 1 ELSE addresses[l]]
    /\ UNCHANGED <<command, stage, calls, traces>>

\* the deployment reverts: an error, without a trace
LibraryFails ==
    /\ stage = "deploy" /\ Len(visits) > 1 /\ NestedDone(Last(visits))
    /\ Last(visits).id \notin DOMAIN addresses
    /\ stage' = "failed"
    /\ UNCHANGED <<command, visits, addresses, chainCode, calls, traces>>

TargetIsNext == stage = "deploy" /\ Len(visits) = 1 /\ NestedDone(Last(visits))
SetupOf(abi) == First(abi, "setup")
DeployTarget ==
    /\ TargetIsNext
    /\ CreateRaw(Target)
    /\ stage' = IF SetupOf(command.abi) = <<>> THEN "run" ELSE "setup"
    /\ UNCHANGED <<command, visits, addresses, calls, traces>>

CallSetup ==
    /\ stage = "setup"
    /\ calls' = Append(calls, Head(SetupOf(command.abi)))
    /\ stage' = "run"
    /\ UNCHANGED <<command, visits, addresses, chainCode, traces>>

\* the script's exec, or the first measurement of a max harness; a test
\* campaign begins, with its invariants
Run ==
    /\ stage = "run"
    /\ calls' = calls \o CASE command.kind = "exec" -> Overloads(command.abi, "exec")
                           [] command.kind = "max" -> Overloads(command.abi, "value")
                           [] OTHER -> Overloads(command.abi, "invariant_")
    /\ traces' = IF command.kind = "exec" THEN traces + 1 ELSE traces
    /\ stage' = "done"
    /\ UNCHANGED <<command, visits, addresses, chainCode>>

\* a step of the target reverts: its trace is saved, the command fails
TargetReverts ==
    /\ stage \in {"setup", "run"} \/ TargetIsNext
    /\ stage = "run" => command.kind # "test"
    /\ traces' = traces + 1
    /\ stage' = "failed"
    /\ UNCHANGED <<command, visits, addresses, chainCode, calls>>

DeploymentNext ==
    \/ stage = "idle" /\ \E c \in Commands : StartCommand(c)
    \/ VisitNested \/ DeployLibrary \/ LibraryFails
    \/ DeployTarget \/ CallSetup \/ Run \/ TargetReverts

DeploymentSpec == DeploymentIdle /\ [][DeploymentNext]_deploymentVars
-----------------------------------------------------------------------------
(* Properties *)

\* However libraries nest and share each other, no contract is created from
\* initcode with a placeholder left in it: every library it links was on the
\* chain before it, under the address that was filled in, and no library is
\* deployed twice (linker.rs resolve_library, link_libraries;
\* Chain::deploy_library).
LinkedCompletely ==
    /\ \A i \in DOMAIN chainCode : \A l \in DOMAIN chainCode[i].linked :
           \E a \in 1..(i - 1) : chainCode[i].linked[l] = <<a>> /\ chainCode[a].id = l
    /\ \A i, j \in DOMAIN chainCode : chainCode[i].id = chainCode[j].id => i = j

\* A test or exec command that got past the rules sends its functions what
\* they take: each one it calls has no arguments and needs no value, also
\* where the ABI has overloads (harness.rs capture_optional, script.rs).
CallsTakeNothing ==
    stage # "idle" /\ command.kind # "max" => \A i \in DOMAIN calls : Bare(calls[i])

\* What a command runs is what its rules let through: fully linked code, and
\* functions that take what they are sent.
PreparedTarget == LinkedCompletely /\ CallsTakeNothing
=============================================================================
