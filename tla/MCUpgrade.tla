------------------------------ MODULE MCUpgrade ------------------------------
(* Two builds, both released.  Pushed are an old signed build, on the branch *)
(* and under the new tag; a set that is half moved; and what nobody signed.  *)
EXTENDS Upgrade

Push(p, s, g, t) == [place |-> p, sums |-> s, signed |-> g, tarball |-> t]
MCPushes == {Push(Dist, 1, TRUE, 1), Push(Dist, 2, TRUE, 1), Push(Dist, 2, FALSE, 0),
             Push(2, 1, TRUE, 1), Push(2, 2, TRUE, 0)}
==========================================================================
