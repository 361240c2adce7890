---------------------------- MODULE MCFleetQueue ----------------------------
(* FleetQueue on one server: three accounts, one of them backed up by  *)
(* two policies and restored twice.                                         *)
EXTENDS FleetQueue, TLC

CONSTANTS j1, j2, j3, j4, r1, r2, a1, a2, a3, s1, x, y, p1, p2, p3

MCAccountOf == [w \in Work |-> IF w = j4 THEN a3 ELSE IF w = j3 THEN a2 ELSE a1]
(* j4 belongs to a policy with no repositories and is never created.        *)
MCPolicyOf == [j \in Jobs |-> IF j = j4 THEN p3 ELSE IF j \in {j2, j3} THEN p2 ELSE p1]
MCRepositoriesOf == [p \in Policies |-> IF p = p1 THEN {x, y} ELSE IF p = p2 THEN {x} ELSE {}]
MCOneRepository == [p \in Policies |-> {x}]
MCServerOf == [a \in Accounts |-> s1]
MCMaxConcurrency == [s \in Servers |-> 2]
MCOneAtATime == [s \in Servers |-> 1]

(* Tokens are only ever compared for equality.                             *)
TokenSymmetry == Permutations(Tokens)
=============================================================================
