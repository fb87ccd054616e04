--------------------------- MODULE MCDirectRuntime ---------------------------
(***************************************************************************)
(* Two runtime processes and one command of each kind: a view command that    *)
(* forgets its previous run and may defer, the query that keeps signal and     *)
(* result and stores nothing when it throws, and the code execution that keeps *)
(* its result and may write into it.                                         *)
(***************************************************************************)
EXTENDS DirectRuntime

CONSTANTS p1, p2, focus, viewInfo, code

MCClient == {p1, p2}
MCMaxCalls == [p \in MCClient |-> 1]
MCRequest == MCClient \X {1}
MCCommand == {focus, viewInfo, code}
MCDeferring == {focus}
MCKeeping == {viewInfo, code}
MCLateReset == {viewInfo}
MCSilent == {viewInfo}
MCPatching == {code}
=============================================================================
