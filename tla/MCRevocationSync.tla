--------------------------- MODULE MCRevocationSync ---------------------------
(***************************************************************************)
(* One connection at a time beside the sweep, and two devices, one of them     *)
(* enrolled at the start.                                                     *)
(***************************************************************************)
EXTENDS RevocationSync

CONSTANTS c1, d1, d2

MCConn == {c1}
MCDevice == {d1, d2}
MCEnrolled == {d1}
=============================================================================
