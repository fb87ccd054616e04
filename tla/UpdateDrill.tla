----------------------------- MODULE UpdateDrill -----------------------------
(***************************************************************************)
(* The Bridge host, watched for the drill of the installer's acceptance       *)
(* list: one update whose restart went as planned, and then a new worker       *)
(* that does nothing but crash.  The history observes the host and changes     *)
(* nothing of it.                                                            *)
(***************************************************************************)
EXTENDS BridgeHost

VARIABLE drill    \* how the workers of this run of the host have ended so far:
                  \* "none" has, "updated" is one planned restart and then only
                  \* crashes of the version it selected, with no further update or
                  \* rollback, "other" is anything else

DrillInit == Init /\ drill = "none"

AfterExit ==
    CASE planned /\ drill = "none" -> "updated"
      [] ~planned /\ drill = "updated" /\ worker = [version |-> st.active, state |-> "crashed"]
           -> "updated"
      [] OTHER -> "other"

DrillNext ==
    /\ Next
    /\ drill' = CASE HostStart -> "none"
                  [] ObserveExit -> AfterExit
                  [] LaunchFails -> "other"
                  [] drill = "updated" /\ st'.active # st.active -> "other"
                  [] OTHER -> drill

DrillSpec == DrillInit /\ [][DrillNext]_<<vars, drill>>

-----------------------------------------------------------------------------

\* docs/implementation-plan/03-bridge-addin-installer.md: "deliberately crashing v2
\* worker triggers automatic revert to v1 within 5 min and quarantines v2".  So while
\* the new worker only crashes, and within the crash window with a version to go back
\* to, the host does not give up: the crashes end in the rollback.
CrashingUpdateReverted == ended = "budget" /\ drill = "updated" => ~RollbackPossible
=============================================================================
