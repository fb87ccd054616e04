------------------------ MODULE MCBridgeInvocations ------------------------
(***************************************************************************)
(* Small instances of BridgeInvocations.                                    *)
(***************************************************************************)
EXTENDS BridgeInvocations, TLC

\* Keys are interchangeable, and so are the documents; the session scope is not.
Symmetry == Permutations(Key) \cup Permutations(Scope \ {SessionScope})
=============================================================================
