------------------------------ MODULE MCStaging ------------------------------
(* Two accounts, the name of one a prefix of the other's.                   *)
EXTENDS Staging

CONSTANTS c1, c1x, r1, r2, r3, r4, r5, r6

MCNameOf == [a \in Accounts |-> IF a = c1 THEN <<"c", "1">> ELSE <<"c", "1", "-", "x">>]
MCAccountOf == [r \in Restores |-> IF r = r3 THEN c1x ELSE c1]
MCKindOf == [r \in Restores |-> CASE r \in {r1, r2, r3} -> "account"
                                  [] r = r4 -> "items"
                                  [] r = r5 -> "files"
                                  [] OTHER -> "verify"]
MCFilesKindOf == [r \in Restores |-> IF r = r1 THEN "files" ELSE "account"]
=============================================================================
