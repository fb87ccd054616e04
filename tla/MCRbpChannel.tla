---------------------------- MODULE MCRbpChannel ----------------------------
(* RbpChannel on a small instance. *)
EXTENDS RbpChannel, TLC

CONSTANTS b1, b2

MCBody == {b1, b2}
BodySymmetry == Permutations(MCBody)
=============================================================================
