----------------------------- MODULE MCRbpLink -----------------------------
(* One session for model checking.  Connections and send slots are            *)
(* interchangeable.                                                          *)
EXTENDS RbpLink, TLC

Symmetry == Permutations(Conn) \cup Permutations(Slot)
=============================================================================
