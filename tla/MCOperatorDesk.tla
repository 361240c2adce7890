---------------------------- MODULE MCOperatorDesk ----------------------------
(* A database and a DNS zone of one account, two tabs.                      *)
EXTENDS OperatorDesk, TLC

CONSTANTS t1, t2, a, db1, dns

MCTabs == {t1, t2}
MCAccounts == {a}
MCParts == {db1, dns}
MCKindOf == db1 :> "database" @@ dns :> "dns"
Symmetric == Permutations(MCTabs)
=============================================================================
