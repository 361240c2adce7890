--------------------------- MODULE MCRecoveryCentre ---------------------------
(* Two connections of one account and one of somebody else's, two things to *)
(* choose from, of which one can only be downloaded.                        *)
EXTENDS RecoveryCentre, TLC

CONSTANTS r1, r2, s1, files, dns

MCLeft == {{files}}
Alike == Permutations(Requests)
==========================================================================
