---------------------------- MODULE MCDestinations ----------------------------
(* Two things going on at once, two destinations, a place that is empty and *)
(* one that holds another server's backups, and two machines that may       *)
(* answer on the SFTP server's address.                                     *)
EXTENDS Destinations, TLC

CONSTANTS p1, p2, h1, h2

Alike == Permutations(Procs) \cup Permutations(Hosts)
==========================================================================
