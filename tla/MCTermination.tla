---------------------------- MODULE MCTermination ----------------------------
(* Three set-ups of the schedules: one for two destinations that skips mail *)
(* to begin with, two that overlap with different windows, and three over   *)
(* four destinations where the greedy cover is one too many.                *)
EXTENDS Termination

P(repos, full, every, alert) == [repos |-> repos, on |-> TRUE, full |-> full, every |-> every, alert |-> alert]

Overlapping == <<P({2, 3}, TRUE, 1, 0), P({1, 2}, TRUE, 1, 1), P({3, 4}, TRUE, 1, 0)>>

MCPlans ==
    {<<P({1, 2}, FALSE, 1, 0)>>,
     <<P({1, 2}, TRUE, 1, 0), P({1}, TRUE, 1, 1)>>,
     Overlapping}

MCSteady == {Overlapping}
==========================================================================
