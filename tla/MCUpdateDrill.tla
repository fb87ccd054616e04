---------------------------- MODULE MCUpdateDrill ----------------------------
(***************************************************************************)
(* The installed version, two releases and a second manifest under the first  *)
(* release's sequence.                                                       *)
(***************************************************************************)
EXTENDS UpdateDrill

CONSTANTS v0, v1, v2

MCVersion == {v0, v1, v2}
MCRelease == {[seq |-> 1, version |-> v1], [seq |-> 1, version |-> v2],
              [seq |-> 2, version |-> v2]}
=============================================================================
