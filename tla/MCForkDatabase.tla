--------------------------- MODULE MCForkDatabase ---------------------------
(***************************************************************************)
(* Two forks of one endpoint; the deployer, an address that becomes local, *)
(* and a remote account that is the coinbase of the second fork's block.   *)
(***************************************************************************)
EXTENDS ForkDatabase

TwoForks == {"L1", "L2"}
OneUrl == [f \in TwoForks |-> "rpc"]
Accounts == {"deployer", "harness", "bridge"}
Deployer == {"deployer"}
Harness == {"harness"}
OnChain == [f \in TwoForks |-> [a \in Accounts |-> IF a = "bridge" THEN Remote(f) ELSE Empty]]
Beneficiary == [f \in TwoForks |-> IF f = "L2" THEN "bridge" ELSE "nobody"]
=============================================================================
