---------------------------- MODULE BridgeUpdate ----------------------------
(***************************************************************************)
(* The update half of the Bridge host: the durable update state, the file    *)
(* that names the current worker version, the version directories of worker  *)
(* and add-in, and the three operations that change them, the release        *)
(* commit, the application of a pending add-in, and the crash-loop rollback.  *)
(* The three exclude each other by the mutation lease, so one variable, op,   *)
(* is the program counter of whichever holds it. Every write to the disk is a  *)
(* step of its own, because the host can die between any two of them.          *)
(***************************************************************************)
EXTENDS Naturals

CONSTANTS
    Version,        \* version names
    Installed,      \* the version the installer put into versions\current
    Release,        \* signed manifests: [seq |-> , version |-> ]
    NoVersion, NoRelease, NoOp,
    MaxFaults       \* bound: failed file operations, host crashes and service stops

ASSUME InstalledAssumption == Installed \in Version /\ NoVersion \notin Version
ASSUME ReleaseAssumption ==
    Release \subseteq [seq: Nat \ {0}, version: Version] /\ NoRelease \notin Release

\* The states of a directory are not version names.
ASSUME SlotAssumption == {"absent", "partial", "whole"} \cap Version = {}

VARIABLES
    st,             \* the update state file
    pointer,        \* the current-version file; NoVersion: there is none yet
    bridgeSlot,     \* versions\<version>: "absent", "partial" or "whole"
    addinSlot,      \* addin-versions\<version>: what it holds, "absent" or "partial"
    addin,          \* the add-in Revit loads: a version, "partial", or NoVersion
    op,             \* the holder of the mutation lease and its next step
    verdict,        \* what the last crash record answered its caller
    poller,         \* the update poller: pc, release being applied, state it saw
    offer,          \* the release the Gateway serves
    faults

updateVars == <<st, pointer, bridgeSlot, addinSlot, addin, op, verdict, poller, offer, faults>>
disk == <<st, pointer, bridgeSlot, addinSlot, addin>>

CrashThreshold == 3

\* UpdateState: VersionActivatedAtUtc is kept as armed, whether it is set and
\* less than CrashWindow ago; the list of exit times as its length.
InitialState ==
    [active |-> NoVersion, previous |-> NoVersion, highest |-> 0,
     accepted |-> NoRelease, pend |-> NoRelease, pendAddin |-> NoVersion,
     armed |-> FALSE, crashes |-> 0, quarantined |-> {}]

Authority(s) == <<s.active, s.previous, s.highest, s.accepted, s.pend>>

IdlePoller == [pc |-> "idle", release |-> NoRelease, seen |-> Authority(InitialState)]

UpdateInit ==
    /\ st = InitialState
    /\ pointer = NoVersion
    /\ bridgeSlot = [v \in Version |-> "absent"]
    /\ addinSlot = [v \in Version |-> "absent"]
    /\ addin = Installed
    /\ op = NoOp
    /\ verdict = "none"
    /\ poller = IdlePoller
    /\ offer = NoRelease
    /\ faults = 0

\* Five minutes have passed since the last version flip.
CrashWindowCloses ==
    /\ st.armed
    /\ st' = [st EXCEPT !.armed = FALSE]
    /\ UNCHANGED <<pointer, bridgeSlot, addinSlot, addin, op, verdict, poller, offer, faults>>

-----------------------------------------------------------------------------
(* The release commit: BridgeUpdateEngine.ApplyAsync.                        *)

Bound0(s) == [s EXCEPT !.active = IF @ = NoVersion THEN Installed ELSE @]

\* Mutant: a sequence already accepted may carry another release.
Refused_ReusesSequence(s, r) ==
    \/ r.version \in s.quarantined
    \/ r.seq < s.highest
    \/ r.seq = s.highest /\ s.active = r.version /\ s.accepted # r
    \/ r.seq > s.highest /\ s.active = r.version

\* Mutant: an interrupted release is not recognised.
Refused_NoResume(s, r) ==
    \/ r.version \in s.quarantined
    \/ r.seq < s.highest
    \/ r.seq = s.highest /\ (s.active # r.version \/ s.accepted # r)
    \/ r.seq > s.highest /\ s.active = r.version

Refused(s, r) ==
    \/ r.version \in s.quarantined
    \/ r.seq < s.highest
    \/ r.seq = s.highest /\ s.active # r.version /\ s.pend # r
    \/ r.seq = s.highest /\ s.active = r.version /\ s.accepted # r
    \/ r.seq > s.highest /\ s.active = r.version

AlreadyCurrent(s, r) == r.seq = s.highest /\ s.active = r.version /\ s.accepted = r

\* Between two polls the Gateway may have published a release with a higher
\* sequence, or serve another manifest under the same one. A poll that finds
\* nothing new, or is refused, still binds the state file; one that finds the
\* active release only retries its add-in.
Poll ==
    /\ poller.pc = "idle"
    /\ \E r \in Release :
         LET s == Bound0(st) IN
         /\ offer # NoRelease => r.seq >= offer.seq
         /\ offer' = r
         /\ st' = s
         /\ poller' = IF Refused(s, r) THEN poller
                      ELSE IF AlreadyCurrent(s, r) THEN [IdlePoller EXCEPT !.pc = "retryAddin"]
                      ELSE [pc |-> "staged", release |-> r, seen |-> Authority(s)]
    /\ UNCHANGED <<pointer, bridgeSlot, addinSlot, addin, op, verdict, faults>>

\* The download is not selected by the rollout, fails, or does not verify.
StageFails ==
    /\ poller.pc = "staged"
    /\ faults < MaxFaults
    /\ faults' = faults + 1
    /\ poller' = IdlePoller
    /\ UNCHANGED <<disk, op, verdict, offer>>

SameAuthority(r) ==
    Authority(st) = poller.seen /\ r.version \notin st.quarantined

UpdateStateChanged ==
    /\ poller.pc = "staged"
    /\ op = NoOp
    /\ ~SameAuthority(poller.release)
    /\ poller' = IdlePoller
    /\ UNCHANGED <<disk, op, verdict, offer, faults>>

AcceptRelease ==
    /\ poller.pc = "staged"
    /\ op = NoOp
    /\ SameAuthority(poller.release)
    /\ st' = [st EXCEPT !.highest = poller.release.seq, !.pend = poller.release]
    /\ op' = [who |-> "poller", step |-> "previousBridge", version |-> poller.release.version,
              from |-> st.active]
    /\ poller' = [IdlePoller EXCEPT !.pc = "committing"]
    /\ UNCHANGED <<pointer, bridgeSlot, addinSlot, addin, verdict, offer, faults>>

HeldBy(who) == op # NoOp /\ op.who = who
At(step) == op # NoOp /\ op.step = step
Goto(step) == op' = [op EXCEPT !.step = step]

\* EnsurePreviousBridgeSlot: a directory that exists is taken as it is.
CopyPreviousBridge ==
    /\ At("previousBridge")
    /\ bridgeSlot[op.from] = "absent"
    /\ pointer = NoVersion
    /\ bridgeSlot' = [bridgeSlot EXCEPT ![op.from] = "partial"]
    /\ Goto("copyBridge")
    /\ UNCHANGED <<st, pointer, addinSlot, addin, verdict, poller, offer, faults>>

PreviousBridgeCopied ==
    /\ At("copyBridge")
    /\ bridgeSlot' = [bridgeSlot EXCEPT ![op.from] = "whole"]
    /\ Goto("installBridge")
    /\ UNCHANGED <<st, pointer, addinSlot, addin, verdict, poller, offer, faults>>

PreviousBridgeReady ==
    At("installBridge") \/ (At("previousBridge") /\ bridgeSlot[op.from] # "absent")

\* Mutant: a resumed commit installs again, over the directory in use.
PointerAlreadySelected_Never == FALSE

PointerAlreadySelected == pointer = op.version /\ bridgeSlot[op.version] # "absent"

BridgeAlreadySelected ==
    /\ PreviousBridgeReady
    /\ PointerAlreadySelected
    /\ Goto("previousAddin")
    /\ UNCHANGED <<disk, verdict, poller, offer, faults>>

\* InstallVersionDirectory: delete what is there, then move the staged
\* directory in; a host that dies in between leaves part of it, or nothing.
DeleteBridgeSlot ==
    /\ PreviousBridgeReady
    /\ ~PointerAlreadySelected
    /\ \E left \in {"absent", "partial"} :
         /\ bridgeSlot[op.version] = "absent" => left = "absent"
         /\ bridgeSlot' = [bridgeSlot EXCEPT ![op.version] = left]
    /\ Goto("moveBridge")
    /\ UNCHANGED <<st, pointer, addinSlot, addin, verdict, poller, offer, faults>>

MoveBridgeSlot ==
    /\ At("moveBridge")
    /\ bridgeSlot' = [bridgeSlot EXCEPT ![op.version] = "whole"]
    /\ Goto("flip")
    /\ UNCHANGED <<st, pointer, addinSlot, addin, verdict, poller, offer, faults>>

WriteCurrentVersion ==
    /\ At("flip")
    /\ pointer' = op.version
    /\ Goto("previousAddin")
    /\ UNCHANGED <<st, bridgeSlot, addinSlot, addin, verdict, poller, offer, faults>>

\* EnsurePreviousAddinSlot
PreviousAddinReady ==
    \/ At("installAddin")
    \/ At("previousAddin") /\ (addinSlot[op.from] # "absent" \/ addin = NoVersion)

CopyPreviousAddin ==
    /\ At("previousAddin")
    /\ addinSlot[op.from] = "absent" /\ addin # NoVersion
    /\ addinSlot' = [addinSlot EXCEPT ![op.from] = "partial"]
    /\ Goto("copyAddin")
    /\ UNCHANGED <<st, pointer, bridgeSlot, addin, verdict, poller, offer, faults>>

\* Mutant: the slot of the previous version is filled from the new payload.
PreviousAddinCopied_New ==
    /\ At("copyAddin")
    /\ addinSlot' = [addinSlot EXCEPT ![op.from] = op.version]
    /\ Goto("installAddin")
    /\ UNCHANGED <<st, pointer, bridgeSlot, addin, verdict, poller, offer, faults>>

PreviousAddinCopied ==
    /\ At("copyAddin")
    /\ addinSlot' = [addinSlot EXCEPT ![op.from] = addin]
    /\ Goto("installAddin")
    /\ UNCHANGED <<st, pointer, bridgeSlot, addin, verdict, poller, offer, faults>>

DeleteAddinSlot ==
    /\ PreviousAddinReady
    /\ \E left \in {"absent", "partial"} :
         /\ addinSlot[op.version] = "absent" => left = "absent"
         /\ addinSlot' = [addinSlot EXCEPT ![op.version] = left]
    /\ Goto("moveAddin")
    /\ UNCHANGED <<st, pointer, bridgeSlot, addin, verdict, poller, offer, faults>>

MoveAddinSlot ==
    /\ At("moveAddin")
    /\ addinSlot' = [addinSlot EXCEPT ![op.version] = op.version]
    /\ Goto("activate")
    /\ UNCHANGED <<st, pointer, bridgeSlot, addin, verdict, poller, offer, faults>>

ActivateRelease ==
    /\ At("activate")
    /\ st' = [st EXCEPT !.active = op.version, !.previous = op.from, !.armed = TRUE,
                        !.crashes = 0, !.pendAddin = op.version,
                        !.accepted = st.pend, !.pend = NoRelease]
    /\ op' = NoOp
    /\ poller' = [poller EXCEPT !.pc = "applyAddin"]
    /\ UNCHANGED <<pointer, bridgeSlot, addinSlot, addin, verdict, offer, faults>>

-----------------------------------------------------------------------------
(* PendingAddinApplier.TryApplyAsync, called by the engine and by the          *)
(* background service; the slot is copied aside, the old add-in moved out and  *)
(* the copy moved in. Whether a Revit process is found running is a free choice *)
(* wherever the code asks or the files it holds get in the way.               *)

\* The guards that throw: pending_addin_stale and pending_addin_missing.
PendingAddinRejected ==
    \/ st.pendAddin # st.active
    \/ st.pendAddin \in st.quarantined
    \/ addinSlot[st.pendAddin] = "absent"

InAddinStep == poller.pc \in {"applyAddin", "retryAddin"}

AfterAddin == IF poller.pc = "applyAddin" THEN [poller EXCEPT !.pc = "restart"] ELSE IdlePoller

\* Nothing is pending, or Revit is running.
NothingToApply ==
    /\ InAddinStep
    /\ op = NoOp
    /\ poller' = AfterAddin
    /\ UNCHANGED <<disk, op, verdict, offer, faults>>

BeginApply(who) ==
    /\ who = "poller" => InAddinStep
    /\ op = NoOp
    /\ st.pendAddin # NoVersion
    /\ ~PendingAddinRejected
    /\ op' = [who |-> who, step |-> "moveOut", version |-> st.pendAddin, from |-> st.active]
    /\ UNCHANGED <<disk, verdict, poller, offer, faults>>

\* DeployAddinSlot
MoveAddinOut ==
    /\ At("moveOut")
    /\ addin' = NoVersion
    /\ Goto("moveIn")
    /\ UNCHANGED <<st, pointer, bridgeSlot, addinSlot, verdict, poller, offer, faults>>

MoveAddinIn ==
    /\ At("moveIn")
    /\ addin' = addinSlot[op.version]
    /\ Goto("clear")
    /\ UNCHANGED <<st, pointer, bridgeSlot, addinSlot, verdict, poller, offer, faults>>

EndOp ==
    /\ op' = NoOp
    /\ verdict' = IF op.who = "monitor" THEN "rolledBack" ELSE verdict

ClearPendingAddin ==
    /\ At("clear")
    /\ st' = [st EXCEPT !.pendAddin = NoVersion]
    /\ EndOp
    /\ poller' = IF op.who = "poller" THEN AfterAddin ELSE poller
    /\ UNCHANGED <<pointer, bridgeSlot, addinSlot, addin, offer, faults>>

\* The move fails, as it does when Revit has started meanwhile and holds the
\* files, and the backup is put back. The rollback swallows the
\* exception; the poller loses its result with it, and asks for no restart.
DeployFails ==
    /\ At("moveOut")
    /\ EndOp
    /\ poller' = IF op.who = "poller" THEN IdlePoller ELSE poller
    /\ UNCHANGED <<disk, offer, faults>>

\* An exception or a cancellation in the middle of a release commit.
Abandon ==
    /\ HeldBy("poller") /\ op.step \notin {"moveOut", "moveIn", "clear"}
    /\ op' = NoOp
    /\ poller' = IdlePoller
    /\ UNCHANGED <<disk, verdict, offer>>

CommitFails ==
    /\ faults < MaxFaults
    /\ faults' = faults + 1
    /\ Abandon

-----------------------------------------------------------------------------
(* CrashLoopRollbackController.RecordUnexpectedExitAsync, called by the         *)
(* worker supervisor.                                                        *)

RollbackPossible == st.previous # NoVersion /\ st.armed

CountCrash ==
    /\ op = NoOp
    /\ RollbackPossible => st.crashes + 1 < CrashThreshold
    /\ st' = [st EXCEPT !.crashes = IF RollbackPossible THEN @ + 1 ELSE @]
    /\ verdict' = IF RollbackPossible THEN "counted" ELSE "notCounted"
    /\ UNCHANGED <<pointer, bridgeSlot, addinSlot, addin, op, poller, offer, faults>>

\* rollback_payload_missing is thrown when the directory or the executable is
\* not there; a partial directory may have it.
BeginRollback ==
    /\ op = NoOp
    /\ RollbackPossible
    /\ st.crashes + 1 >= CrashThreshold
    /\ bridgeSlot[st.previous] # "absent"
    /\ op' = [who |-> "monitor", step |-> "rbPointer", version |-> st.previous, from |-> st.active]
    /\ UNCHANGED <<disk, verdict, poller, offer, faults>>

RollbackPayloadMissing ==
    /\ op = NoOp
    /\ RollbackPossible
    /\ st.crashes + 1 >= CrashThreshold
    /\ bridgeSlot[st.previous] # "whole"
    /\ verdict' = "error"
    /\ UNCHANGED <<disk, op, poller, offer, faults>>

\* Mutant: the state is restored and the pointer is not.
RestorePointer_Skipped ==
    /\ At("rbPointer")
    /\ Goto("rbState")
    /\ UNCHANGED <<disk, verdict, poller, offer, faults>>

RestorePointer ==
    /\ At("rbPointer")
    /\ pointer' = op.version
    /\ Goto("rbState")
    /\ UNCHANGED <<st, bridgeSlot, addinSlot, addin, verdict, poller, offer, faults>>

HasRestoredAddin == addinSlot[op.version] # "absent"

RestoreState ==
    /\ At("rbState")
    /\ st' = [st EXCEPT !.active = op.version, !.previous = NoVersion, !.armed = FALSE,
                        !.crashes = 0, !.quarantined = @ \cup {op.from},
                        !.pendAddin = IF HasRestoredAddin THEN op.version ELSE NoVersion]
    /\ \/ HasRestoredAddin /\ Goto("moveOut") /\ UNCHANGED verdict
       \/ EndOp
    /\ UNCHANGED <<pointer, bridgeSlot, addinSlot, addin, poller, offer, faults>>

CommitStep ==
    \/ AcceptRelease \/ UpdateStateChanged
    \/ CopyPreviousBridge \/ PreviousBridgeCopied
    \/ BridgeAlreadySelected \/ DeleteBridgeSlot \/ MoveBridgeSlot \/ WriteCurrentVersion
    \/ CopyPreviousAddin \/ PreviousAddinCopied
    \/ DeleteAddinSlot \/ MoveAddinSlot \/ ActivateRelease

DeployStep == MoveAddinOut \/ MoveAddinIn \/ ClearPendingAddin \/ DeployFails

RollbackStep == RestorePointer \/ RestoreState
=============================================================================
