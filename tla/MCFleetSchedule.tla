--------------------------- MODULE MCFleetSchedule ---------------------------
(***************************************************************************)
(* FleetSchedule on one server: one account, one policy, one repository,   *)
(* and rows for two backups and a restore.                                 *)
(***************************************************************************)
EXTENDS FleetSchedule

CONSTANTS j1, j2, r1, a1, s1, x, p1

MCAccountOf == [w \in Work |-> a1]
MCPolicyOf == [j \in Jobs |-> p1]
MCRepositoriesOf == [p \in Policies |-> {x}]
MCServerOf == [a \in Accounts |-> s1]
MCMaxConcurrency == [s \in Servers |-> 1]
MCSourceOf == [r \in Repos |-> x]
=============================================================================
