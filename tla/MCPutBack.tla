------------------------------ MODULE MCPutBack ------------------------------
(* Two databases, the account's own login and one more; a backup that holds *)
(* everything and one that holds half; baskets that mix the kinds.          *)
EXTENDS PutBack

CONSTANTS d1, d2, own, u1

MCBackups ==
    {[dumps |-> {d1, d2}, users |-> {own, u1},
      grants |-> [l \in Logins |-> IF l = own THEN {d1, d2} ELSE {d1}],
      parts |-> {"homedir", "databases", "metadata"}, cron |-> TRUE, complete |-> TRUE],
     [dumps |-> {d1}, users |-> {u1}, grants |-> [l \in Logins |-> {d1}],
      parts |-> {"databases", "metadata"}, cron |-> FALSE, complete |-> FALSE]}

MCBaskets ==
    {[kinds |-> {"database", "dbusers", "homedir"}, dbs |-> {d1}, users |-> {u1}],
     [kinds |-> {"dbusers", "cron"}, dbs |-> {}, users |-> {}],
     [kinds |-> {"database", "cron"}, dbs |-> {d1, d2}, users |-> {}],
     [kinds |-> {"database", "dns"}, dbs |-> {d1}, users |-> {}]}
==========================================================================
