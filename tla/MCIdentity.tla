----------------------------- MODULE MCIdentity -----------------------------
(***************************************************************************)
(* Small instances of Identity for TLC.                                    *)
(***************************************************************************)
EXTENDS Identity, TLC

\* Names and uids are interchangeable
Symmetry == Permutations(Names) \cup Permutations(Uids)
=============================================================================
