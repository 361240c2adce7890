---------------------------- MODULE MCNodeEngine ----------------------------
(***************************************************************************)
(* A small instance of NodeEngine for TLC.                                 *)
(***************************************************************************)
EXTENDS NodeEngine

CONSTANTS alice, bob, nightly

MCAccounts == {alice, bob}
MCPolicies == {nightly}
MCCovers == [p \in MCPolicies |-> MCAccounts]
=============================================================================
