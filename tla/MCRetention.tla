---------------------------- MODULE MCRetention ----------------------------
(***************************************************************************)
(* A small instance of Retention for TLC: two schedules that may share the *)
(* repository.                                                             *)
(***************************************************************************)
EXTENDS Retention, TLC

Symmetry == Permutations(Policies)
=============================================================================
