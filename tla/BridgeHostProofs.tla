-------------------------- MODULE BridgeHostProofs --------------------------
(***************************************************************************)
(* Proofs about BridgeHost, for every set of versions and releases and every  *)
(* bound. IInv says what the holder of the mutation lease may rely on, that    *)
(* the state file has not moved under it; from it follow the quarantine and     *)
(* the binding of release sequences. DirInv says what the version directories  *)
(* hold at every point a host may die, StopInv who holds the lifecycle gate.    *)
(***************************************************************************)
EXTENDS BridgeHost, TLAPS

AnyVersion == Version \cup {NoVersion}
AnyRelease == Release \cup {NoRelease}

StateType ==
    [active: AnyVersion, previous: AnyVersion, highest: Nat, accepted: AnyRelease,
     pend: AnyRelease, pendAddin: AnyVersion, armed: BOOLEAN, crashes: Nat,
     quarantined: SUBSET Version]

SeenType == AnyVersion \X AnyVersion \X Nat \X AnyRelease \X AnyRelease

PollerPc == {"idle", "staged", "committing", "applyAddin", "retryAddin", "restart", "restarting"}

PollerType == [pc: PollerPc, release: AnyRelease, seen: SeenType]

CommitSteps == {"previousBridge", "copyBridge", "installBridge", "moveBridge", "flip",
                "previousAddin", "copyAddin", "installAddin", "moveAddin", "activate"}
OtherSteps == {"moveOut", "moveIn", "clear", "rbPointer", "rbState"}

OpType == [who: {"poller", "applier", "monitor"}, step: CommitSteps \cup OtherSteps,
           version: AnyVersion, from: AnyVersion]

Types ==
    /\ st \in StateType
    /\ pointer \in AnyVersion
    /\ poller \in PollerType
    /\ op # NoOp => op \in OpType

\* Before the first poll nothing has been recorded.
Fresh == st.active = NoVersion => st.quarantined = {} /\ st.previous = NoVersion

\* What a rollback would do is harmless: the version it restores and the release
\* that is half done are not the version it quarantines.
RollbackSafe ==
    st.previous # NoVersion =>
        /\ st.active \in Version
        /\ st.active # st.previous
        /\ st.pend # NoRelease => st.pend.version # st.active

\* What the poller has decided about its release, from the state it has seen.
StagedSafe ==
    poller.pc = "staged" =>
        /\ poller.release \in Release
        /\ poller.seen[1] \in Version
        /\ poller.release.version # poller.seen[1]
        /\ \/ poller.release.seq > poller.seen[3]
           \/ poller.release.seq = poller.seen[3] /\ poller.release = poller.seen[5]

\* A commit works on the release the state file names, and from its active version.
CommitSafe ==
    op # NoOp /\ op.step \in CommitSteps =>
        /\ st.pend # NoRelease
        /\ op.version = st.pend.version
        /\ op.from = st.active
        /\ st.active \in Version
        /\ op.version # st.active

RestoreSafe ==
    op # NoOp /\ op.step \in {"rbPointer", "rbState"} =>
        /\ st.previous # NoVersion
        /\ op.version = st.previous
        /\ op.from = st.active
        /\ op.step = "rbState" => pointer = st.previous

IInv ==
    /\ Types /\ Fresh /\ RollbackSafe /\ StagedSafe /\ CommitSafe /\ RestoreSafe
    /\ QuarantinedNotSelected

Core == <<st, pointer, op, poller>>

-----------------------------------------------------------------------------
\* The invariant speaks of the disk, the lease and the poller only.
LEMMA CoreUnchanged ==
    ASSUME IInv, UNCHANGED Core
    PROVE  IInv'
BY DEF IInv, Core, Types, Fresh, RollbackSafe, StagedSafe, CommitSafe, RestoreSafe, QuarantinedNotSelected, StateType, PollerType, OpType, AnyVersion, AnyRelease

\* Giving up the lease or the poll, or going on without touching the state file,
\* keeps the invariant: nobody is left who relies on more.
LEMMA LeaseReleased ==
    ASSUME IInv, UNCHANGED <<st, pointer>>,
           op' = NoOp \/ op' = op,
           poller' = poller \/ (poller' \in PollerType /\ poller'.pc # "staged")
    PROVE  IInv'
BY DEF IInv, Types, Fresh, RollbackSafe, StagedSafe, CommitSafe, RestoreSafe, QuarantinedNotSelected, StateType, PollerType, OpType, AnyVersion, AnyRelease

\* The idle poller, whatever its pc, is well typed.
LEMMA IdlePollerType ==
    /\ IdlePoller \in PollerType /\ IdlePoller.pc = "idle"
    /\ \A pc \in PollerPc : [IdlePoller EXCEPT !.pc = pc] \in PollerType
                         /\ [IdlePoller EXCEPT !.pc = pc].pc = pc
<1>1. Authority(InitialState) \in SeenType
  BY DEF SeenType, Authority, InitialState, AnyVersion, AnyRelease
<1>2. IdlePoller \in PollerType /\ IdlePoller.pc = "idle"
  BY <1>1 DEF IdlePoller, PollerType, PollerPc, AnyRelease
<1>3. ASSUME NEW pc \in PollerPc
      PROVE  /\ [IdlePoller EXCEPT !.pc = pc] \in PollerType
             /\ [IdlePoller EXCEPT !.pc = pc].pc = pc
  BY <1>2 DEF PollerType
<1> QED
  BY <1>2, <1>3

\* Going on to another step of the same operation.
LEMMA GotoType ==
    ASSUME op \in OpType, NEW step \in CommitSteps \cup OtherSteps, Goto(step)
    PROVE  /\ op' \in OpType
           /\ op'.step = step /\ op'.who = op.who
           /\ op'.version = op.version /\ op'.from = op.from
BY DEF Goto, OpType

\* A step inside a commit.
LEMMA CommitGoto ==
    ASSUME IInv, NEW step \in CommitSteps,
           op # NoOp, op.step \in CommitSteps, Goto(step),
           UNCHANGED <<st, poller>>,
           pointer' = pointer \/ pointer' = op.version
    PROVE  IInv'
<1>1. /\ st.pend \in Release /\ op.version = st.pend.version /\ op.from = st.active
      /\ st.active \in Version /\ op.version # st.active
      /\ op.version \in Version /\ op.version \notin st.quarantined
  BY ReleaseAssumption
     DEF IInv, CommitSafe, QuarantinedNotSelected, Types, StateType, AnyRelease
<1>2. /\ op' \in OpType /\ op'.step = step
      /\ op'.version = op.version /\ op'.from = op.from
  BY GotoType DEF IInv, Types
<1>3. Types' /\ Fresh' /\ RollbackSafe' /\ StagedSafe'
  BY <1>1, <1>2 DEF IInv, Types, Fresh, RollbackSafe, StagedSafe, AnyVersion
<1>4. CommitSafe' /\ QuarantinedNotSelected'
  BY <1>1, <1>2 DEF IInv, CommitSafe, QuarantinedNotSelected
<1>5. RestoreSafe'
  BY <1>2 DEF RestoreSafe, CommitSteps
<1> QED
  BY <1>3, <1>4, <1>5 DEF IInv

\* What a step does to the binding of sequence numbers.
SequenceStep ==
    /\ st'.highest >= st.highest
    /\ st'.highest = st.highest => BoundRelease(st') = BoundRelease(st)

\* A step that leaves the state alone keeps the sequence.
LEMMA SameState ==
    ASSUME IInv, UNCHANGED st
    PROVE  SequenceStep
BY DEF IInv, Types, StateType, SequenceStep

\* Poll: the state it has seen is the state there is, with its active version filled in.
LEMMA PollStep ==
    ASSUME IInv, Poll
    PROVE  IInv' /\ SequenceStep
<1>1. PICK r \in Release :
         /\ st' = Bound0(st)
         /\ poller' = IF Refused(Bound0(st), r) THEN poller
                      ELSE IF AlreadyCurrent(Bound0(st), r)
                      THEN [IdlePoller EXCEPT !.pc = "retryAddin"]
                      ELSE [pc |-> "staged", release |-> r, seen |-> Authority(Bound0(st))]
  BY DEF Poll
<1> DEFINE s == Bound0(st)
<1>2. /\ s \in StateType /\ s.active \in Version
      /\ s.active = IF st.active = NoVersion THEN Installed ELSE st.active
      /\ s.previous = st.previous /\ s.highest = st.highest /\ s.accepted = st.accepted
      /\ s.pend = st.pend /\ s.pendAddin = st.pendAddin /\ s.quarantined = st.quarantined
  BY InstalledAssumption DEF Bound0, IInv, Types, StateType, AnyVersion
<1>3. Authority(s) \in SeenType
      /\ Authority(s)[1] = s.active /\ Authority(s)[3] = s.highest /\ Authority(s)[5] = s.pend
  BY <1>2 DEF SeenType, Authority, StateType, AnyVersion
<1>4. poller' \in PollerType
  BY <1>1, <1>3, IdlePollerType DEF IInv, Types, PollerType, PollerPc, AnyRelease
<1>5. StagedSafe'
  <2>1. CASE poller' = poller
    BY <2>1 DEF IInv, StagedSafe
  <2>2. CASE poller' = [IdlePoller EXCEPT !.pc = "retryAddin"]
    BY <2>2, IdlePollerType DEF StagedSafe
  <2>3. CASE /\ ~Refused(s, r) /\ ~AlreadyCurrent(s, r)
             /\ poller' = [pc |-> "staged", release |-> r, seen |-> Authority(s)]
    <3>1. r.version # s.active /\ (r.seq > s.highest \/ (r.seq = s.highest /\ r = s.pend))
      BY <2>3, <1>2, ReleaseAssumption DEF Refused, AlreadyCurrent, StateType
    <3> QED
      BY <3>1, <2>3, <1>2, <1>3 DEF StagedSafe
  <2> QED
    BY <1>1, <2>1, <2>2, <2>3
<1>6. Fresh' /\ RollbackSafe' /\ CommitSafe' /\ RestoreSafe' /\ QuarantinedNotSelected'
  BY <1>1, <1>2, InstalledAssumption
     DEF Poll, IInv, Fresh, RollbackSafe, CommitSafe, RestoreSafe, QuarantinedNotSelected, Types
<1>7. Types'
  BY <1>1, <1>2, <1>4 DEF Poll, IInv, Types
<1>8. SequenceStep
  BY <1>1, <1>2 DEF SequenceStep, BoundRelease, StateType
<1> QED
  BY <1>5, <1>6, <1>7, <1>8 DEF IInv

\* AcceptRelease: the state is still the one seen, so what was decided of it holds.
LEMMA AcceptReleaseStep ==
    ASSUME IInv, AcceptRelease
    PROVE  IInv' /\ SequenceStep
<1> DEFINE r == poller.release
<1>1. /\ r \in Release /\ r.version # st.active /\ st.active \in Version
      /\ r.version \notin st.quarantined /\ r.version \in Version /\ r.seq \in Nat
      /\ r.seq > st.highest \/ (r.seq = st.highest /\ r = st.pend)
  BY ReleaseAssumption
     DEF AcceptRelease, SameAuthority, Authority, IInv, StagedSafe, Types, StateType
<1>2. /\ st' = [st EXCEPT !.highest = r.seq, !.pend = r]
      /\ op' = [who |-> "poller", step |-> "previousBridge", version |-> r.version,
                from |-> st.active]
      /\ poller' = [IdlePoller EXCEPT !.pc = "committing"]
      /\ pointer' = pointer
  BY DEF AcceptRelease
<1>3. /\ st' \in StateType
      /\ st'.highest = r.seq /\ st'.pend = r /\ st'.accepted = st.accepted
      /\ st'.active = st.active /\ st'.previous = st.previous
      /\ st'.pendAddin = st.pendAddin /\ st'.quarantined = st.quarantined
  BY Zenon, <1>1, <1>2 DEF IInv, Types, StateType, AnyRelease
<1>4. Types' /\ StagedSafe'
  BY <1>1, <1>2, <1>3, IdlePollerType
     DEF IInv, Types, StagedSafe, OpType, CommitSteps, PollerPc, AnyVersion
<1>5. Fresh' /\ RollbackSafe' /\ CommitSafe' /\ RestoreSafe' /\ QuarantinedNotSelected'
  BY <1>1, <1>2, <1>3, ReleaseAssumption, InstalledAssumption
     DEF IInv, Fresh, RollbackSafe, CommitSafe, RestoreSafe, QuarantinedNotSelected
<1>6. SequenceStep
  BY <1>1, <1>3, ReleaseAssumption DEF SequenceStep, BoundRelease, IInv, Types, StateType
<1> QED
  BY <1>4, <1>5, <1>6 DEF IInv

\* ActivateRelease: the pending release becomes the accepted one.
LEMMA ActivateReleaseStep ==
    ASSUME IInv, ActivateRelease
    PROVE  IInv' /\ SequenceStep
<1>1. /\ op # NoOp /\ op.step \in CommitSteps
      /\ st.pend # NoRelease /\ st.pend \in Release
      /\ op.version = st.pend.version /\ op.version \in Version
      /\ op.from = st.active /\ st.active \in Version /\ op.version # st.active
      /\ op.version \notin st.quarantined /\ st.active \notin st.quarantined
  BY ReleaseAssumption
     DEF ActivateRelease, At, CommitSteps, IInv, CommitSafe, QuarantinedNotSelected,
         Types, StateType, AnyRelease
<1>2. /\ st' = [st EXCEPT !.active = op.version, !.previous = op.from, !.armed = TRUE,
                        !.crashes = 0, !.pendAddin = op.version,
                        !.accepted = st.pend, !.pend = NoRelease]
      /\ op' = NoOp /\ pointer' = pointer
      /\ poller' = [poller EXCEPT !.pc = "applyAddin"]
  BY DEF ActivateRelease
<1>3. /\ st' \in StateType
      /\ st'.highest = st.highest /\ st'.pend = NoRelease /\ st'.accepted = st.pend
      /\ st'.active = op.version /\ st'.previous = st.active
      /\ st'.pendAddin = op.version /\ st'.quarantined = st.quarantined
  BY Zenon, <1>1, <1>2 DEF IInv, Types, StateType, AnyRelease, AnyVersion
<1>4. poller' \in PollerType /\ poller'.pc = "applyAddin"
  BY <1>2 DEF IInv, Types, PollerType, PollerPc
<1>5. Types' /\ StagedSafe' /\ CommitSafe' /\ RestoreSafe'
  BY <1>2, <1>3, <1>4 DEF IInv, Types, StagedSafe, CommitSafe, RestoreSafe
<1>6. Fresh' /\ RollbackSafe' /\ QuarantinedNotSelected'
  BY <1>1, <1>2, <1>3, ReleaseAssumption, InstalledAssumption
     DEF IInv, Fresh, RollbackSafe, QuarantinedNotSelected
<1>7. SequenceStep
  BY <1>1, <1>3 DEF SequenceStep, BoundRelease, IInv, Types, StateType
<1> QED
  BY <1>5, <1>6, <1>7 DEF IInv

\* RestoreState: the version quarantined is none of those that stay selected.
LEMMA RestoreStateStep ==
    ASSUME IInv, RestoreState
    PROVE  IInv' /\ SequenceStep
<1>1. /\ op # NoOp /\ op \in OpType
      /\ st.previous # NoVersion /\ st.previous \in Version /\ st.active \in Version
      /\ op.version = st.previous /\ op.from = st.active /\ pointer = st.previous
      /\ st.active # st.previous
      /\ st.pend # NoRelease => st.pend.version # st.active
  BY DEF RestoreState, At, IInv, RestoreSafe, RollbackSafe, Types, StateType, AnyVersion
<1>2. PICK p \in {st.previous, NoVersion} :
         st' = [st EXCEPT !.active = op.version, !.previous = NoVersion, !.armed = FALSE,
                          !.crashes = 0, !.quarantined = @ \cup {op.from}, !.pendAddin = p]
  BY Zenon, <1>1 DEF RestoreState
<1>3. /\ st' \in StateType
      /\ st'.highest = st.highest /\ st'.pend = st.pend /\ st'.accepted = st.accepted
      /\ st'.active = st.previous /\ st'.previous = NoVersion
      /\ st'.pendAddin = p /\ st'.quarantined = st.quarantined \cup {st.active}
  BY Zenon, <1>1, <1>2 DEF IInv, Types, StateType, AnyVersion
<1>4. /\ op' = NoOp \/ (op' \in OpType /\ op'.step = "moveOut")
      /\ pointer' = pointer /\ poller' = poller
  BY <1>1 DEF RestoreState, EndOp, Goto, OpType, OtherSteps
<1>5. Types' /\ StagedSafe' /\ CommitSafe' /\ RestoreSafe'
  BY <1>3, <1>4 DEF IInv, Types, StagedSafe, CommitSafe, RestoreSafe, CommitSteps
<1>6. Fresh' /\ RollbackSafe' /\ QuarantinedNotSelected'
  <2>1. /\ NoVersion \notin st.quarantined /\ NoVersion # st.active
        /\ st.previous \notin st.quarantined
        /\ st.pend # NoRelease => st.pend.version \notin st.quarantined
    BY <1>1, InstalledAssumption DEF IInv, Types, StateType, QuarantinedNotSelected
  <2>2. QuarantinedNotSelected'
    BY <1>1, <1>3, <1>4, <2>1 DEF QuarantinedNotSelected
  <2> QED
    BY <1>1, <1>3, <2>1, <2>2, InstalledAssumption DEF Fresh, RollbackSafe
<1>7. SequenceStep
  BY <1>3 DEF SequenceStep, BoundRelease, StateType
<1> QED
  BY <1>5, <1>6, <1>7 DEF IInv

\* The steps of a commit between accepting the release and activating it.
LEMMA CommitMiddle ==
    ASSUME IInv,
           \/ CopyPreviousBridge \/ PreviousBridgeCopied
           \/ BridgeAlreadySelected \/ DeleteBridgeSlot \/ MoveBridgeSlot
           \/ WriteCurrentVersion
           \/ CopyPreviousAddin \/ PreviousAddinCopied \/ DeleteAddinSlot
           \/ MoveAddinSlot
    PROVE  IInv' /\ SequenceStep
<1>1. /\ op # NoOp /\ op.step \in CommitSteps
      /\ \E step \in CommitSteps : Goto(step)
      /\ UNCHANGED <<st, poller>>
      /\ pointer' = pointer \/ pointer' = op.version
  BY DEF CopyPreviousBridge, PreviousBridgeCopied, BridgeAlreadySelected, DeleteBridgeSlot,
         MoveBridgeSlot, WriteCurrentVersion, CopyPreviousAddin, PreviousAddinCopied,
         DeleteAddinSlot, MoveAddinSlot, PreviousBridgeReady, PreviousAddinReady, At, CommitSteps, disk
<1> QED
  BY <1>1, CommitGoto, SameState

\* An add-in step goes on to another one, or ends the operation.
LEMMA AddinStep ==
    ASSUME IInv, UNCHANGED <<st, pointer, poller>>,
           op' \in OpType, op'.step \in {"moveOut", "moveIn", "clear"}
    PROVE  IInv'
BY DEF IInv, Types, Fresh, RollbackSafe, StagedSafe, CommitSafe, RestoreSafe,
       QuarantinedNotSelected, CommitSteps

\* Where the poller goes when the add-in is in place.
LEMMA AfterAddinType ==
    ASSUME IInv
    PROVE  AfterAddin \in PollerType /\ AfterAddin.pc # "staged"
BY IdlePollerType DEF AfterAddin, IInv, Types, PollerType, PollerPc

\* The add-in of the active version is deployed, by whoever took the lease.
LEMMA DeployKeeps ==
    ASSUME IInv, DeployStep \/ BeginApply("poller") \/ BeginApply("applier")
    PROVE  IInv' /\ SequenceStep
<1>1. CASE BeginApply("poller") \/ BeginApply("applier")
  <2>1. /\ op' \in OpType /\ op'.step = "moveOut"
        /\ UNCHANGED <<st, pointer, poller>>
    BY <1>1 DEF BeginApply, disk, IInv, Types, StateType, OpType, OtherSteps
  <2> QED
    BY <2>1, AddinStep, SameState
<1>2. CASE MoveAddinOut \/ MoveAddinIn
  <2>1. /\ op' \in OpType /\ op'.step \in {"moveIn", "clear"}
        /\ UNCHANGED <<st, pointer, poller>>
    BY <1>2, GotoType DEF MoveAddinOut, MoveAddinIn, At, IInv, Types, OtherSteps
  <2> QED
    BY <2>1, AddinStep, SameState
<1>3. CASE DeployFails
  BY <1>3, LeaseReleased, SameState, IdlePollerType DEF DeployFails, EndOp, disk
<1>4. CASE ClearPendingAddin
  <2>1. /\ st' = [st EXCEPT !.pendAddin = NoVersion]
        /\ op' = NoOp /\ pointer' = pointer
        /\ poller' = poller \/ (poller' \in PollerType /\ poller'.pc # "staged")
    BY <1>4, AfterAddinType DEF ClearPendingAddin, EndOp
  <2>2. /\ st' \in StateType
        /\ st'.highest = st.highest /\ st'.pend = st.pend /\ st'.accepted = st.accepted
        /\ st'.active = st.active /\ st'.previous = st.previous
        /\ st'.pendAddin = NoVersion /\ st'.quarantined = st.quarantined
    BY <2>1 DEF IInv, Types, StateType, AnyVersion
  <2>3. Types' /\ Fresh' /\ RollbackSafe' /\ StagedSafe' /\ CommitSafe' /\ RestoreSafe'
    BY <2>1, <2>2
       DEF IInv, Types, Fresh, RollbackSafe, StagedSafe, CommitSafe, RestoreSafe
  <2>4. NoVersion \notin st.quarantined
    BY InstalledAssumption DEF IInv, Types, StateType
  <2>5. QuarantinedNotSelected'
    BY <2>1, <2>2, <2>4 DEF IInv, QuarantinedNotSelected
  <2> QED
    BY <2>2, <2>3, <2>5 DEF IInv, SequenceStep, BoundRelease, StateType
<1> QED
  BY <1>1, <1>2, <1>3, <1>4 DEF DeployStep

\* Counters and the crash window are not part of what anybody relies on.
SameButCounters ==
    /\ st' \in StateType
    /\ st'.highest = st.highest /\ st'.pend = st.pend /\ st'.accepted = st.accepted
    /\ st'.active = st.active /\ st'.previous = st.previous
    /\ st'.pendAddin = st.pendAddin /\ st'.quarantined = st.quarantined

\* A step that changes only counters preserves the invariant.
LEMMA CountersOnly ==
    ASSUME IInv, UNCHANGED <<pointer, op, poller>>, SameButCounters
    PROVE  IInv' /\ SequenceStep
BY DEF SameButCounters, IInv, Types, Fresh, RollbackSafe, StagedSafe, CommitSafe, RestoreSafe,
       QuarantinedNotSelected, SequenceStep, BoundRelease, StateType

\* The end of the crash window preserves the invariant.
LEMMA CrashWindowStep ==
    ASSUME IInv, CrashWindowCloses
    PROVE  IInv' /\ SequenceStep
<1>1. SameButCounters /\ UNCHANGED <<pointer, op, poller>>
  BY Zenon DEF SameButCounters, CrashWindowCloses, IInv, Types, StateType
<1> QED
  BY <1>1, CountersOnly

\* The crash record: counting, starting a rollback, or failing to.
LEMMA RecordStep ==
    ASSUME IInv, CountCrash \/ BeginRollback \/ RollbackPayloadMissing
    PROVE  IInv' /\ SequenceStep
<1>1. CASE CountCrash
  <2>1. SameButCounters /\ UNCHANGED <<pointer, op, poller>>
    BY <1>1 DEF SameButCounters, CountCrash, IInv, Types, StateType
  <2> QED
    BY <2>1, CountersOnly
<1>2. CASE BeginRollback
  <2>1. /\ op' = [who |-> "monitor", step |-> "rbPointer",
                  version |-> st.previous, from |-> st.active]
        /\ st.previous # NoVersion
        /\ UNCHANGED <<st, pointer, poller>>
    BY <1>2 DEF BeginRollback, RollbackPossible, disk
  <2>2. op' \in OpType /\ op'.step = "rbPointer"
        /\ op'.version = st.previous /\ op'.from = st.active
    BY <2>1 DEF IInv, Types, StateType, OpType, OtherSteps
  <2>3. Types' /\ Fresh' /\ RollbackSafe' /\ StagedSafe' /\ QuarantinedNotSelected'
    BY <2>1, <2>2
       DEF IInv, Types, Fresh, RollbackSafe, StagedSafe, QuarantinedNotSelected
  <2>4. CommitSafe' /\ RestoreSafe'
    BY <2>1, <2>2 DEF CommitSafe, RestoreSafe, CommitSteps
  <2> QED
    BY <2>1, <2>3, <2>4, SameState DEF IInv
<1>3. CASE RollbackPayloadMissing
  BY <1>3, LeaseReleased, SameState DEF RollbackPayloadMissing, disk
<1> QED
  BY <1>1, <1>2, <1>3

\* Restoring the pointer preserves the invariant.
LEMMA RestorePointerStep ==
    ASSUME IInv, RestorePointer
    PROVE  IInv' /\ SequenceStep
<1>1. /\ op # NoOp /\ op \in OpType /\ op.step = "rbPointer"
      /\ st.previous # NoVersion /\ st.previous \in Version
      /\ op.version = st.previous /\ op.from = st.active
      /\ st.previous \notin st.quarantined
  BY DEF RestorePointer, At, IInv, RestoreSafe, Types, StateType, AnyVersion,
         QuarantinedNotSelected
<1>2. /\ op' \in OpType /\ op'.step = "rbState"
      /\ op'.version = st.previous /\ op'.from = st.active
      /\ pointer' = st.previous /\ UNCHANGED <<st, poller>>
  BY <1>1, GotoType DEF RestorePointer, OtherSteps
<1>3. Types' /\ Fresh' /\ RollbackSafe' /\ StagedSafe' /\ QuarantinedNotSelected'
  BY <1>1, <1>2
     DEF IInv, Types, Fresh, RollbackSafe, StagedSafe, QuarantinedNotSelected, AnyVersion
<1>4. CommitSafe' /\ RestoreSafe'
  BY <1>1, <1>2 DEF CommitSafe, RestoreSafe, CommitSteps
<1> QED
  BY <1>2, <1>3, <1>4, SameState DEF IInv

-----------------------------------------------------------------------------
\* The invariant of the update state holds initially.
LEMMA InitInv ==
    ASSUME Init
    PROVE  IInv
<1>1. Types
  BY IdlePollerType
     DEF Init, UpdateInit, InitialState, Types, StateType, AnyVersion, AnyRelease
<1> QED
  BY <1>1, IdlePollerType
     DEF Init, UpdateInit, InitialState, IInv, Fresh, RollbackSafe, StagedSafe, CommitSafe,
         RestoreSafe, QuarantinedNotSelected

\* Every step of the host keeps the invariant and the binding of sequences.
LEMMA StepInv ==
    ASSUME IInv, [Next]_vars
    PROVE  IInv' /\ SequenceStep
<1>1. CASE UNCHANGED vars \/ HostStart \/ StopHost \/ WorkerExits
  <2>1. UNCHANGED Core
    BY <1>1 DEF vars, updateVars, disk, Core, HostStart, StopHost, WorkerExits
  <2> QED
    BY <2>1, CoreUnchanged, SameState DEF Core
<1>2. CASE HostCrash \/ HostEnds
  BY <1>2, LeaseReleased, SameState, IdlePollerType DEF HostCrash, HostEnds, Volatile, disk
<1>3. CASE PollerStep
  <2>1. CASE Poll
    BY <2>1, PollStep
  <2>2. CASE AcceptRelease
    BY <2>2, AcceptReleaseStep
  <2>3. CASE ActivateRelease
    BY <2>3, ActivateReleaseStep
  <2>4. CASE UpdateStateChanged \/ StageFails \/ CommitFails
    BY <2>4, LeaseReleased, SameState, IdlePollerType
       DEF UpdateStateChanged, StageFails, CommitFails, Abandon, disk
  <2>5. CASE NothingToApply
    BY <2>5, LeaseReleased, SameState, AfterAddinType DEF NothingToApply, disk
  <2>6. CASE BeginApply("poller")
    BY <2>6, DeployKeeps
  <2> QED
    BY <1>3, <2>1, <2>2, <2>3, <2>4, <2>5, <2>6, CommitMiddle DEF PollerStep, CommitStep
<1>4. CASE ApplierStep
  BY <1>4, DeployKeeps DEF ApplierStep
<1>5. CASE LeaseStep
  BY <1>5, DeployKeeps, RestorePointerStep, RestoreStateStep DEF LeaseStep, RollbackStep
<1>6. CASE Environment
  BY <1>6, CrashWindowStep DEF Environment
<1>7. CASE MonitorStep
  <2>1. CASE RecordCrash
    BY Zenon, <2>1, RecordStep DEF RecordCrash
  <2>2. CASE ~RecordCrash
    <3>1. UNCHANGED Core
      BY <1>7, <2>2
         DEF MonitorStep, BeginStart, BeginLaunch, WorkerReady, LaunchFails, LaunchCancelled,
             ObserveExit, StartRecorded, ExitRecorded, Regate, LaunchRecorded, LaunchForgone,
             Recorded, updateVars, disk, Core
    <3> QED
      BY <3>1, CoreUnchanged, SameState DEF Core
  <2> QED
    BY <2>1, <2>2
<1>8. CASE RestartStep
  <2>1. /\ UNCHANGED <<st, pointer, op>>
        /\ poller' = IdlePoller \/ poller' = [poller EXCEPT !.pc = "restarting"]
    BY <1>8 DEF RestartStep, RequestUpdateRestart, FinishUpdateRestart, disk
  <2>2. poller' \in PollerType /\ poller'.pc # "staged"
    BY <2>1, IdlePollerType DEF IInv, Types, PollerType, PollerPc
  <2> QED
    BY <2>1, <2>2, LeaseReleased, SameState
<1>9. CASE StopStep /\ ~HostEnds
  <2>1. /\ UNCHANGED <<st, pointer>>
        /\ op' = NoOp \/ op' = op
        /\ poller' = poller \/ poller' = IdlePoller
    BY Zenon, <1>9 DEF StopStep, CancelPoller, RequestStop, StopWorker, Abandon, updateVars, disk
  <2> QED
    BY <2>1, IdlePollerType, LeaseReleased, SameState
<1> QED
  BY <1>1, <1>2, <1>3, <1>4, <1>5, <1>6, <1>7, <1>8, <1>9 DEF Next, StopStep

-----------------------------------------------------------------------------
(* What the version directories hold *)

Doing(steps) == op # NoOp /\ op.step \in steps

\* The versions in use came with a release older than the one that is half done, or
\* with the installer.
Published ==
    /\ st.pend # NoRelease => st.pend.seq = st.highest
    /\ \A v \in {st.active, st.previous} \cap Version :
         \/ v = Installed
         \/ \E r \in Release : /\ r.version = v /\ r.seq <= st.highest
                               /\ st.pend # NoRelease => r.seq < st.highest

\* The directories the pointer, the active and the previous version name, and what a
\* commit or a rollback knows of the one it is about to select.
BridgeDirs ==
    /\ bridgeSlot \in [Version -> States]
    /\ pointer # NoVersion => bridgeSlot[pointer] # "absent"
    /\ \A v \in {pointer, st.active, st.previous} \cap Version :
         bridgeSlot[v] = "partial" => v = Installed \/ Republished(v)
    /\ Doing({"flip"}) => bridgeSlot[op.version] = "whole"
    /\ Doing({"rbPointer"}) => bridgeSlot[op.version] # "absent"

PointerPlace ==
    /\ pointer = NoVersion => st.previous = NoVersion /\ st.active \in {NoVersion, Installed}
    /\ pointer # NoVersion /\ st.pend = NoRelease => pointer \in {st.active, st.previous}
    /\ Doing({"previousAddin", "copyAddin", "installAddin", "moveAddin", "activate"})
         => pointer = op.version

SlotValue == Version \cup {"absent", "partial", NoVersion}

\* What is saved under a version that was not published again is that version's add-in;
\* it is there once the version has been activated, and for the installed version by the
\* time another add-in is deployed.
AddinDirs ==
    /\ addinSlot \in [Version -> SlotValue] /\ addin \in SlotValue
    /\ \A v \in Version : ~Republished(v) => addinSlot[v] \in {"absent", "partial", v}
    /\ \A v \in {st.active, st.previous} \cap Version :
         v # Installed /\ ~Republished(v) => addinSlot[v] # "absent"
    /\ ~Republished(Installed) /\ addinSlot[Installed] = "absent" =>
         addin = Installed /\ st.previous = NoVersion /\ st.active \in {NoVersion, Installed}

AddinSteps ==
    /\ Doing({"moveOut", "moveIn", "clear"}) =>
         /\ op.version = st.active /\ op.version \in Version
         /\ op.version \notin st.quarantined
         /\ addinSlot[op.version] # "absent"
    /\ Doing({"copyAddin"}) /\ ~Republished(op.from) => op.from = Installed /\ addin = Installed
    /\ Doing({"installAddin", "moveAddin", "activate"}) /\ ~Republished(op.from) =>
         addinSlot[op.from] # "absent"
    /\ Doing({"activate"}) => addinSlot[op.version] = op.version

DirInv == Published /\ BridgeDirs /\ PointerPlace /\ AddinDirs /\ AddinSteps

\* What the definitions of the invariant read.
Dirs == <<st, pointer, bridgeSlot, addinSlot, addin, op>>

\* A step that leaves the directories alone preserves their invariant.
LEMMA DirsUnchanged ==
    ASSUME DirInv, UNCHANGED Dirs
    PROVE  DirInv'
BY DEF DirInv, Dirs, Published, BridgeDirs, PointerPlace, AddinDirs, AddinSteps, Doing

\* Whoever gives up the lease leaves the directories as they are.
LEMMA LeaseGivenUp ==
    ASSUME DirInv, UNCHANGED disk, op' = NoOp
    PROVE  DirInv'
BY DEF DirInv, disk, Published, BridgeDirs, PointerPlace, AddinDirs, AddinSteps, Doing

\* A commit that replaces a version in use does so for a version published again.
LEMMA ReplacesRepublished ==
    ASSUME IInv, Published, Doing(CommitSteps),
           op.version \in {st.active, st.previous, Installed}
    PROVE  Republished(op.version)
<1>1. /\ st.pend \in Release /\ op.version = st.pend.version /\ op.version \in Version
      /\ st.pend.seq = st.highest
  BY ReleaseAssumption DEF IInv, Doing, CommitSafe, Types, StateType, AnyRelease, Published
<1>2. CASE op.version = Installed
  BY Zenon, <1>1, <1>2 DEF Republished
<1>3. CASE op.version # Installed
  <2>1. op.version \in {st.active, st.previous} \cap Version /\ st.pend # NoRelease
    BY <1>1, <1>3, ReleaseAssumption
  <2>2. \E r \in Release : /\ r.version = op.version /\ r.seq <= st.highest
                           /\ st.pend # NoRelease => r.seq < st.highest
    <3>1. \A v \in {st.active, st.previous} \cap Version :
            \/ v = Installed
            \/ \E r \in Release : /\ r.version = v /\ r.seq <= st.highest
                                  /\ st.pend # NoRelease => r.seq < st.highest
      BY Zenon DEF Published
    <3> QED
      BY <1>3, <2>1, <3>1
  <2>3. PICK r \in Release : r.version = op.version /\ r.seq < st.pend.seq
    BY <1>1, <2>1, <2>2
  <2> QED
    BY <1>1, <2>3 DEF Republished
<1> QED
  BY <1>2, <1>3

\* A step of a commit that does not touch the state file.
LEMMA CommitDirs ==
    ASSUME IInv, DirInv,
           \/ CopyPreviousBridge \/ PreviousBridgeCopied
           \/ BridgeAlreadySelected \/ DeleteBridgeSlot \/ MoveBridgeSlot
           \/ WriteCurrentVersion
           \/ CopyPreviousAddin \/ PreviousAddinCopied \/ DeleteAddinSlot
           \/ MoveAddinSlot
    PROVE  DirInv'
<1>1. /\ op # NoOp /\ op \in OpType /\ op.step \in CommitSteps /\ st' = st
      /\ \E step \in CommitSteps : Goto(step)
  BY DEF CopyPreviousBridge, PreviousBridgeCopied, BridgeAlreadySelected, DeleteBridgeSlot,
         MoveBridgeSlot, WriteCurrentVersion, CopyPreviousAddin, PreviousAddinCopied,
         DeleteAddinSlot, MoveAddinSlot, PreviousBridgeReady, PreviousAddinReady, At,
         CommitSteps, disk, IInv, Types
<1>2. /\ st.pend \in Release /\ op.version = st.pend.version /\ op.from = st.active
      /\ st.active \in Version /\ op.version # st.active /\ op.version \in Version
      /\ st.pend # NoRelease
  BY <1>1, ReleaseAssumption DEF IInv, CommitSafe, Types, StateType, AnyRelease
<1>3. Published'
  BY <1>1 DEF DirInv, Published
<1>4. /\ op' \in OpType /\ op'.version = op.version /\ op'.from = op.from
      /\ \A step \in CommitSteps : Goto(step) => op'.step = step
  BY <1>1, GotoType
<1>5. op.version \in {st.active, st.previous, Installed} => Republished(op.version)
  BY <1>1, ReplacesRepublished DEF DirInv, Doing
<1>6. Installed \in Version /\ NoVersion \notin Version
  BY InstalledAssumption
<1>7. ASSUME UNCHANGED <<addinSlot, addin>>
      PROVE  AddinDirs'
  BY <1>1, <1>7 DEF DirInv, AddinDirs
<1>8. ASSUME UNCHANGED bridgeSlot, pointer' = pointer, ~Doing({"flip", "rbPointer"})'
      PROVE  BridgeDirs'
  BY <1>1, <1>8 DEF DirInv, BridgeDirs, Doing
<1>9. CASE CopyPreviousBridge
  <2>1. /\ op'.step = "copyBridge" /\ pointer = NoVersion /\ UNCHANGED <<pointer, addinSlot, addin>>
        /\ bridgeSlot' = [bridgeSlot EXCEPT ![op.from] = "partial"]
    BY <1>4, <1>9 DEF CopyPreviousBridge, CommitSteps
  <2>2. st.active = Installed /\ st.previous = NoVersion
    BY <1>2, <1>6, <2>1 DEF DirInv, PointerPlace
  <2>3. BridgeDirs'
    BY Zenon, <1>1, <1>2, <1>6, <2>1, <2>2 DEF DirInv, BridgeDirs, Doing, States
  <2>4. PointerPlace' /\ AddinSteps'
    BY <1>1, <2>1 DEF DirInv, PointerPlace, AddinSteps, Doing
  <2> QED
    BY <1>3, <1>7, <2>1, <2>3, <2>4 DEF DirInv
<1>10. CASE PreviousBridgeCopied
  <2>1. /\ op'.step = "installBridge" /\ UNCHANGED <<pointer, addinSlot, addin>>
        /\ bridgeSlot' = [bridgeSlot EXCEPT ![op.from] = "whole"]
    BY <1>4, <1>10 DEF PreviousBridgeCopied, CommitSteps
  <2>2. BridgeDirs'
    BY <1>1, <1>2, <2>1 DEF DirInv, BridgeDirs, Doing, States
  <2>3. PointerPlace' /\ AddinSteps'
    BY <1>1, <2>1 DEF DirInv, PointerPlace, AddinSteps, Doing
  <2> QED
    BY <1>3, <1>7, <2>1, <2>2, <2>3 DEF DirInv
<1>11. CASE BridgeAlreadySelected
  <2>1. /\ op'.step = "previousAddin" /\ UNCHANGED <<pointer, bridgeSlot, addinSlot, addin>>
        /\ pointer = op.version
    BY Zenon, <1>4, <1>11 DEF BridgeAlreadySelected, PointerAlreadySelected, CommitSteps, disk
  <2>2. PointerPlace' /\ AddinSteps'
    BY <1>1, <1>4, <2>1 DEF DirInv, PointerPlace, AddinSteps, Doing
  <2>3. BridgeDirs'
    BY <1>8, <2>1 DEF Doing
  <2> QED
    BY <1>3, <1>7, <2>1, <2>2, <2>3 DEF DirInv
<1>12. CASE DeleteBridgeSlot
  <2>1. PICK left \in {"absent", "partial"} :
          bridgeSlot' = [bridgeSlot EXCEPT ![op.version] = left]
    BY Zenon, <1>12 DEF DeleteBridgeSlot
  <2>2. /\ op'.step = "moveBridge" /\ UNCHANGED <<pointer, addinSlot, addin>>
        /\ ~PointerAlreadySelected
    BY <1>4, <1>12 DEF DeleteBridgeSlot, CommitSteps
  <2>3. pointer # op.version
    BY Zenon, <1>2, <1>6, <2>2 DEF PointerAlreadySelected, DirInv, BridgeDirs
  <2>4. BridgeDirs'
    BY <1>1, <1>2, <1>5, <2>1, <2>2, <2>3 DEF DirInv, BridgeDirs, Doing, States
  <2>5. PointerPlace' /\ AddinSteps'
    BY <1>1, <2>2 DEF DirInv, PointerPlace, AddinSteps, Doing
  <2> QED
    BY <1>3, <1>7, <2>2, <2>4, <2>5 DEF DirInv
<1>13. CASE MoveBridgeSlot
  <2>1. /\ op'.step = "flip" /\ UNCHANGED <<pointer, addinSlot, addin>>
        /\ bridgeSlot' = [bridgeSlot EXCEPT ![op.version] = "whole"]
    BY Zenon, <1>4, <1>13 DEF MoveBridgeSlot, CommitSteps
  <2>2. BridgeDirs'
    BY <1>1, <1>2, <1>4, <2>1 DEF DirInv, BridgeDirs, Doing, States
  <2>3. PointerPlace' /\ AddinSteps'
    BY <1>1, <2>1 DEF DirInv, PointerPlace, AddinSteps, Doing
  <2> QED
    BY Zenon, <1>3, <1>7, <2>1, <2>2, <2>3 DEF DirInv
<1>14. CASE WriteCurrentVersion
  <2>1. /\ op'.step = "previousAddin" /\ UNCHANGED <<bridgeSlot, addinSlot, addin>>
        /\ pointer' = op.version /\ bridgeSlot[op.version] = "whole"
    BY Zenon, <1>1, <1>4, <1>14 DEF WriteCurrentVersion, At, CommitSteps, DirInv, BridgeDirs, Doing
  <2>2. BridgeDirs'
    BY Zenon, <1>1, <1>2, <2>1 DEF DirInv, BridgeDirs, Doing
  <2>3. PointerPlace' /\ AddinSteps'
    BY <1>1, <1>2, <1>4, <1>6, <2>1 DEF DirInv, PointerPlace, AddinSteps, Doing
  <2> QED
    BY Zenon, <1>3, <1>7, <2>1, <2>2, <2>3 DEF DirInv
<1>15. CASE CopyPreviousAddin
  <2>1. /\ op'.step = "copyAddin" /\ UNCHANGED <<pointer, bridgeSlot, addin>>
        /\ addinSlot[op.from] = "absent" /\ op.step = "previousAddin"
        /\ addinSlot' = [addinSlot EXCEPT ![op.from] = "partial"]
    BY Zenon, <1>4, <1>15 DEF CopyPreviousAddin, At, CommitSteps
  <2>2. ~Republished(op.from) => op.from = Installed /\ addin = Installed
    BY Zenon, <1>2, <2>1 DEF DirInv, AddinDirs
  <2>3. AddinDirs'
    BY <1>1, <1>2, <2>1 DEF DirInv, AddinDirs, SlotValue
  <2>4. PointerPlace' /\ AddinSteps'
    BY <1>1, <1>4, <2>1, <2>2 DEF DirInv, PointerPlace, AddinSteps, Doing
  <2>5. BridgeDirs'
    BY <1>8, <2>1 DEF Doing
  <2> QED
    BY Zenon, <1>3, <2>3, <2>4, <2>5 DEF DirInv
<1>16. CASE PreviousAddinCopied
  <2>1. /\ op'.step = "installAddin" /\ UNCHANGED <<pointer, bridgeSlot, addin>>
        /\ op.step = "copyAddin"
        /\ addinSlot' = [addinSlot EXCEPT ![op.from] = addin]
    BY <1>4, <1>16 DEF PreviousAddinCopied, At, CommitSteps
  <2>2. ~Republished(op.from) => op.from = Installed /\ addin = Installed /\ addin # "absent"
    BY Zenon, <1>1, <1>6, <2>1, SlotAssumption DEF DirInv, AddinSteps, Doing
  <2>3. addinSlot'[op.from] = addin /\ addinSlot' \in [Version -> SlotValue]
        /\ \A v \in Version \ {op.from} : addinSlot'[v] = addinSlot[v]
    BY Zenon, <1>2, <2>1 DEF DirInv, AddinDirs
  <2>4. AddinDirs'
    BY ZenonT(60), <1>1, <1>2, <1>6, <2>1, <2>2, <2>3 DEF DirInv, AddinDirs
  <2>5. PointerPlace' /\ AddinSteps'
    BY <1>1, <1>4, <2>1, <2>2, <2>3 DEF DirInv, PointerPlace, AddinSteps, Doing
  <2>6. BridgeDirs'
    BY <1>8, <2>1 DEF Doing
  <2> QED
    BY <1>3, <2>4, <2>5, <2>6 DEF DirInv
<1>17. CASE DeleteAddinSlot
  <2>1. PICK left \in {"absent", "partial"} :
          addinSlot' = [addinSlot EXCEPT ![op.version] = left]
    BY ZenonT(60), <1>17 DEF DeleteAddinSlot
  <2>2. /\ op'.step = "moveAddin" /\ UNCHANGED <<pointer, bridgeSlot, addin>>
        /\ op.step \in {"installAddin", "previousAddin"}
        /\ op.step = "previousAddin" => addinSlot[op.from] # "absent" \/ addin = NoVersion
    BY Zenon, <1>4, <1>17 DEF DeleteAddinSlot, PreviousAddinReady, At, CommitSteps
  <2>3. ~Republished(op.from) => addinSlot[op.from] # "absent"
    BY Zenon, <1>1, <1>2, <1>6, <2>2 DEF DirInv, AddinDirs, AddinSteps, Doing
  <2>4. addinSlot' \in [Version -> SlotValue] /\ addinSlot'[op.version] = left
        /\ \A v \in Version \ {op.version} : addinSlot'[v] = addinSlot[v]
    BY Zenon, <1>2, <2>1 DEF DirInv, AddinDirs, SlotValue
  <2>5. AddinDirs'
    BY ZenonT(60), <1>1, <1>2, <1>5, <1>6, <2>2, <2>4 DEF DirInv, AddinDirs
  <2>6. PointerPlace' /\ AddinSteps'
    BY <1>1, <1>2, <1>4, <2>2, <2>3, <2>4 DEF DirInv, PointerPlace, AddinSteps, Doing
  <2>7. BridgeDirs'
    BY Zenon, <1>8, <2>2 DEF Doing
  <2> QED
    BY <1>3, <2>5, <2>6, <2>7 DEF DirInv
<1>18. CASE MoveAddinSlot
  <2>1. /\ op'.step = "activate" /\ UNCHANGED <<pointer, bridgeSlot, addin>>
        /\ op.step = "moveAddin"
        /\ addinSlot' = [addinSlot EXCEPT ![op.version] = op.version]
    BY <1>4, <1>18 DEF MoveAddinSlot, At, CommitSteps
  <2>2. addinSlot' \in [Version -> SlotValue] /\ addinSlot'[op.version] = op.version
        /\ \A v \in Version \ {op.version} : addinSlot'[v] = addinSlot[v]
    BY <1>2, <2>1 DEF DirInv, AddinDirs, SlotValue
  <2>3. op.version # "absent"
    BY Zenon, <1>2, SlotAssumption
  <2>4. AddinDirs'
    BY Zenon, <1>1, <1>2, <1>6, <2>1, <2>2, <2>3 DEF DirInv, AddinDirs
  <2>5. PointerPlace' /\ AddinSteps'
    BY <1>1, <1>2, <1>4, <2>1, <2>2 DEF DirInv, PointerPlace, AddinSteps, Doing
  <2>6. BridgeDirs'
    BY <1>8, <2>1 DEF Doing
  <2> QED
    BY <1>3, <2>4, <2>5, <2>6 DEF DirInv
<1> QED
  BY Zenon, <1>9, <1>10, <1>11, <1>12, <1>13, <1>14, <1>15, <1>16, <1>17, <1>18

\* The state file changes in what the directories have nothing to do with.
LEMMA CountersDirs ==
    ASSUME IInv, DirInv, SameButCounters, UNCHANGED <<pointer, bridgeSlot, addinSlot, addin, op>>
    PROVE  DirInv'
<1>1. /\ st'.active = st.active /\ st'.previous = st.previous /\ st'.highest = st.highest
      /\ st'.pend = st.pend /\ st'.quarantined = st.quarantined
  BY DEF SameButCounters
<1>2. Published'
  BY <1>1 DEF DirInv, Published
<1>3. BridgeDirs'
  BY <1>1 DEF DirInv, BridgeDirs, Doing
<1>4. PointerPlace'
  BY <1>1 DEF DirInv, PointerPlace, Doing
<1>5. AddinDirs'
  BY Zenon, <1>1 DEF DirInv, AddinDirs, Doing
<1>6. AddinSteps'
  BY <1>1 DEF DirInv, AddinSteps, Doing
<1> QED
  BY <1>2, <1>3, <1>4, <1>5, <1>6 DEF DirInv

\* Poll: the installed version becomes the active one.
LEMMA PollDirs ==
    ASSUME IInv, DirInv, Poll
    PROVE  DirInv'
<1>1. /\ st' = Bound0(st) /\ UNCHANGED <<pointer, bridgeSlot, addinSlot, addin, op>>
  BY DEF Poll
<1>2. /\ st'.active = IF st.active = NoVersion THEN Installed ELSE st.active
      /\ st'.previous = st.previous /\ st'.highest = st.highest
      /\ st'.pend = st.pend /\ st'.quarantined = st.quarantined
  BY <1>1 DEF Bound0, IInv, Types, StateType
<1>3. CASE st.active # NoVersion
  <2>1. st'.active = st.active
    BY Zenon, <1>2, <1>3
  <2>2. Published'
    BY <1>1, <1>2, <2>1 DEF DirInv, Published
  <2>3. BridgeDirs'
    BY Zenon, <1>1, <1>2, <2>1 DEF DirInv, BridgeDirs, Doing
  <2>4. PointerPlace'
    BY Zenon, <1>1, <1>2, <2>1 DEF DirInv, PointerPlace, Doing
  <2>5. AddinDirs'
    BY Zenon, <1>1, <1>2, <2>1 DEF DirInv, AddinDirs, Doing
  <2>6. AddinSteps'
    BY <1>1, <1>2, <2>1 DEF DirInv, AddinSteps, Doing
  <2> QED
    BY <2>2, <2>3, <2>4, <2>5, <2>6 DEF DirInv
<1>4. CASE st.active = NoVersion
  <2>1. st'.active = Installed /\ st.previous = NoVersion /\ NoVersion \notin Version
    BY <1>2, <1>4, InstalledAssumption DEF IInv, Fresh
  <2>2. st.pend = NoRelease => pointer = NoVersion
    BY <1>4, <2>1 DEF DirInv, PointerPlace
  <2>3. Published' /\ BridgeDirs'
    BY ZenonT(60), <1>1, <1>2, <2>1 DEF DirInv, Published, BridgeDirs, Doing
  <2>4. PointerPlace' /\ AddinDirs'
    BY ZenonT(60), <1>1, <1>2, <2>1, <2>2 DEF DirInv, PointerPlace, AddinDirs, Doing
  <2>5. AddinSteps'
    BY <1>1, <1>2, <1>4, <2>1 DEF DirInv, AddinSteps, Doing
  <2> QED
    BY <2>3, <2>4, <2>5 DEF DirInv
<1> QED
  BY <1>3, <1>4

\* AcceptRelease: its sequence is above that of every version in use.
LEMMA AcceptDirs ==
    ASSUME IInv, DirInv, AcceptRelease
    PROVE  DirInv'
<1> DEFINE r == poller.release
<1>1. /\ r \in Release /\ r.seq \in Nat /\ r # NoRelease
      /\ r.seq > st.highest \/ (r.seq = st.highest /\ r = st.pend)
      /\ st.active \in Version
  BY ReleaseAssumption
     DEF AcceptRelease, SameAuthority, Authority, IInv, StagedSafe, Types, StateType
<1>2. /\ st' = [st EXCEPT !.highest = r.seq, !.pend = r]
      /\ op'.step = "previousBridge"
      /\ UNCHANGED <<pointer, bridgeSlot, addinSlot, addin>>
  BY DEF AcceptRelease
<1>3. /\ st'.highest = r.seq /\ st'.pend = r
      /\ st'.active = st.active /\ st'.previous = st.previous
      /\ st'.quarantined = st.quarantined /\ st.highest \in Nat
  BY Zenon, <1>2 DEF IInv, Types, StateType
<1> HIDE DEF r
<1>4. Published'
  <2>1. st'.pend.seq = st'.highest
    BY Zenon, <1>3
  <2>2. ASSUME NEW v \in {st.active, st.previous} \cap Version, v # Installed
        PROVE  \E q \in Release : q.version = v /\ q.seq < r.seq
    <3>1. PICK q \in Release : /\ q.version = v /\ q.seq <= st.highest
                               /\ st.pend # NoRelease => q.seq < st.highest
      BY <2>2 DEF DirInv, Published
    <3>2. q.seq \in Nat /\ r.seq \in Nat /\ st.highest \in Nat
      BY <1>1, <1>3, ReleaseAssumption
    <3>3. q.seq < r.seq
      BY <1>1, <3>1, <3>2
    <3> QED
      BY <3>1, <3>3
  <2>3. \A q \in Release : q.seq < r.seq => q.seq <= r.seq
    BY <1>1, ReleaseAssumption
  <2> QED
    BY Zenon, <1>3, <2>1, <2>2, <2>3 DEF Published
<1>5. BridgeDirs' /\ PointerPlace' /\ AddinDirs' /\ AddinSteps'
  BY <1>1, <1>2, <1>3 DEF DirInv, BridgeDirs, PointerPlace, AddinDirs, AddinSteps, Doing
<1> QED
  BY <1>4, <1>5 DEF DirInv

\* ActivateRelease: the directories of the version it activates are the ones just made.
LEMMA ActivateDirs ==
    ASSUME IInv, DirInv, ActivateRelease
    PROVE  DirInv'
<1>1. /\ op # NoOp /\ op.step = "activate" /\ st.pend \in Release /\ st.pend # NoRelease
      /\ op.version = st.pend.version /\ op.version \in Version
      /\ op.from = st.active /\ st.active \in Version /\ st.pend.seq = st.highest
  BY ReleaseAssumption
     DEF ActivateRelease, At, CommitSteps, IInv, CommitSafe, Types, StateType, AnyRelease,
         DirInv, Published
<1>2. /\ st' = [st EXCEPT !.active = op.version, !.previous = op.from, !.armed = TRUE,
                        !.crashes = 0, !.pendAddin = op.version,
                        !.accepted = st.pend, !.pend = NoRelease]
      /\ op' = NoOp /\ UNCHANGED <<pointer, bridgeSlot, addinSlot, addin>>
  BY DEF ActivateRelease
<1>3. /\ st'.highest = st.highest /\ st'.pend = NoRelease
      /\ st'.active = op.version /\ st'.previous = st.active
  BY Zenon, <1>1, <1>2 DEF IInv, Types, StateType
<1>4. Published'
  <2>1. st.pend.version = st'.active /\ st.pend.seq <= st'.highest
    BY <1>1, <1>3, ReleaseAssumption
  <2> QED
    BY <1>1, <1>3, <2>1 DEF DirInv, Published
<1>5. pointer = op.version /\ addinSlot[op.version] # "absent"
  BY <1>1, SlotAssumption DEF DirInv, PointerPlace, AddinSteps, Doing
<1>6. BridgeDirs' /\ PointerPlace'
  BY Zenon, <1>1, <1>2, <1>3, <1>5, InstalledAssumption DEF DirInv, BridgeDirs, PointerPlace, Doing
<1>7. ~Republished(op.from) => addinSlot[op.from] # "absent"
  BY <1>1 DEF DirInv, AddinSteps, Doing
<1>8. AddinDirs' /\ AddinSteps'
  <2>1. ~Republished(Installed) => addinSlot[Installed] # "absent"
    BY <1>1, <1>7, InstalledAssumption DEF DirInv, AddinDirs
  <2> QED
    BY ZenonT(60), <1>1, <1>2, <1>3, <1>5, <1>7, <2>1 DEF DirInv, AddinDirs, AddinSteps, Doing
<1> QED
  BY <1>4, <1>6, <1>8 DEF DirInv

\* What a step may make of the add-in that Revit loads.
AddinMove ==
    addin' # addin /\ addin' # NoVersion /\ ~Republished(st.active) =>
        addin' = "partial" \/ (addin' = st.active /\ addin' \notin st.quarantined)

\* The add-in is moved out and the saved one in, by whoever took the lease.
LEMMA DeployDirs ==
    ASSUME IInv, DirInv, DeployStep \/ BeginApply("poller") \/ BeginApply("applier")
    PROVE  DirInv' /\ AddinMove
<1>1. CASE BeginApply("poller") \/ BeginApply("applier")
  <2>1. /\ op'.step = "moveOut" /\ op'.version = st.pendAddin /\ UNCHANGED disk
        /\ st.pendAddin # NoVersion /\ ~PendingAddinRejected
    BY <1>1 DEF BeginApply
  <2>2. /\ st.pendAddin \in Version /\ st.pendAddin = st.active
        /\ st.pendAddin \notin st.quarantined /\ addinSlot[st.pendAddin] # "absent"
    <3>1. st.pendAddin \in Version
      BY <2>1 DEF IInv, Types, StateType, AnyVersion
    <3> QED
      BY <2>1, <3>1 DEF PendingAddinRejected
  <2> QED
    BY <2>1, <2>2
       DEF disk, DirInv, Published, BridgeDirs, PointerPlace, AddinDirs, AddinSteps, Doing, AddinMove
<1>2. CASE MoveAddinOut \/ MoveAddinIn
  <2>1. /\ op # NoOp /\ op \in OpType /\ op.step \in {"moveOut", "moveIn"}
        /\ addin' \in {NoVersion, addinSlot[op.version]}
        /\ UNCHANGED <<st, pointer, bridgeSlot, addinSlot>>
        /\ \E step \in {"moveIn", "clear"} : Goto(step)
    BY <1>2 DEF MoveAddinOut, MoveAddinIn, At, IInv, Types
  <2>2. op'.step \in {"moveIn", "clear"} /\ op'.version = op.version
    BY Zenon, <2>1, GotoType DEF OtherSteps
  <2>3. /\ op.version = st.active /\ op.version \in Version
        /\ op.version \notin st.quarantined /\ addinSlot[op.version] # "absent"
    BY Zenon, <2>1 DEF DirInv, AddinSteps, Doing
  <2>4. AddinDirs' /\ AddinSteps'
    BY <2>1, <2>2, <2>3, InstalledAssumption DEF DirInv, AddinDirs, AddinSteps, Doing, SlotValue
  <2>5. Published' /\ BridgeDirs' /\ PointerPlace'
    BY ZenonT(60), <2>1, <2>2 DEF DirInv, Published, BridgeDirs, PointerPlace, Doing
  <2>6. AddinMove
    BY Zenon, <2>1, <2>3 DEF DirInv, AddinDirs, AddinMove
  <2> QED
    BY <2>4, <2>5, <2>6 DEF DirInv
<1>3. CASE DeployFails
  BY <1>3, LeaseGivenUp DEF DeployFails, EndOp, disk, AddinMove
<1>4. CASE ClearPendingAddin
  <2>1. /\ st' = [st EXCEPT !.pendAddin = NoVersion] /\ op' = NoOp
        /\ UNCHANGED <<pointer, bridgeSlot, addinSlot, addin>>
    BY <1>4 DEF ClearPendingAddin, EndOp
  <2>2. /\ st'.active = st.active /\ st'.previous = st.previous /\ st'.highest = st.highest
        /\ st'.pend = st.pend /\ st'.quarantined = st.quarantined
    BY <2>1 DEF IInv, Types, StateType
  <2> QED
    BY <2>1, <2>2
       DEF DirInv, Published, BridgeDirs, PointerPlace, AddinDirs, AddinSteps, Doing, AddinMove
<1> QED
  BY Zenon, <1>1, <1>2, <1>3, <1>4 DEF DeployStep

\* The crash record and the rollback it may begin.
LEMMA RollbackDirs ==
    ASSUME IInv, DirInv,
           CountCrash \/ BeginRollback \/ RollbackPayloadMissing \/ RestorePointer \/ RestoreState
    PROVE  DirInv' /\ UNCHANGED addin
<1>1. CASE CountCrash
  <2>1. SameButCounters /\ UNCHANGED <<pointer, bridgeSlot, addinSlot, addin, op>>
    BY <1>1 DEF SameButCounters, CountCrash, IInv, Types, StateType
  <2> QED
    BY <2>1, CountersDirs
<1>2. CASE BeginRollback
  <2>1. /\ op'.step = "rbPointer" /\ op'.version = st.previous /\ UNCHANGED disk
        /\ bridgeSlot[st.previous] # "absent"
    BY ZenonT(60), <1>2 DEF BeginRollback
  <2> QED
    BY ZenonT(60), <2>1
       DEF disk, DirInv, Published, BridgeDirs, PointerPlace, AddinDirs, AddinSteps, Doing
<1>3. CASE RollbackPayloadMissing
  BY ZenonT(60), <1>3, DirsUnchanged DEF RollbackPayloadMissing, disk, Dirs
<1>4. CASE RestorePointer
  <2>1. /\ op # NoOp /\ op \in OpType /\ op.step = "rbPointer"
        /\ st.previous \in Version /\ op.version = st.previous
        /\ bridgeSlot[op.version] # "absent"
    BY Zenon, <1>4 DEF RestorePointer, At, IInv, RestoreSafe, Types, StateType, AnyVersion,
                DirInv, BridgeDirs, Doing
  <2>2. /\ op'.step = "rbState" /\ pointer' = st.previous
        /\ UNCHANGED <<st, bridgeSlot, addinSlot, addin>>
    BY Zenon, <1>4, <2>1, GotoType DEF RestorePointer, OtherSteps
  <2> QED
    BY Zenon, <2>1, <2>2, InstalledAssumption
       DEF DirInv, Published, BridgeDirs, PointerPlace, AddinDirs, AddinSteps, Doing
<1>5. CASE RestoreState
  <2>1. /\ op # NoOp /\ op \in OpType /\ st.previous \in Version /\ st.active \in Version
        /\ op.version = st.previous /\ op.from = st.active /\ pointer = st.previous
        /\ st.active # st.previous /\ st.previous \notin st.quarantined
    BY <1>5 DEF RestoreState, At, IInv, RestoreSafe, RollbackSafe, Types, StateType, AnyVersion,
                QuarantinedNotSelected
  <2>2. PICK p \in {st.previous, NoVersion} :
         st' = [st EXCEPT !.active = op.version, !.previous = NoVersion, !.armed = FALSE,
                          !.crashes = 0, !.quarantined = @ \cup {op.from}, !.pendAddin = p]
    BY ZenonT(60), <1>5, <2>1 DEF RestoreState
  <2>3. /\ st'.highest = st.highest /\ st'.pend = st.pend
        /\ st'.active = st.previous /\ st'.previous = NoVersion
        /\ st'.quarantined = st.quarantined \cup {st.active}
    BY <2>1, <2>2 DEF IInv, Types, StateType
  <2>4. /\ \/ op' = NoOp
           \/ op'.step = "moveOut" /\ op'.version = op.version /\ addinSlot[op.version] # "absent"
        /\ UNCHANGED <<pointer, bridgeSlot, addinSlot, addin>>
    BY <1>5, <2>1, GotoType DEF RestoreState, EndOp, OtherSteps, HasRestoredAddin
  <2>5. NoVersion \notin Version
    BY Zenon, InstalledAssumption
  <2>6. Published' /\ BridgeDirs' /\ PointerPlace'
    BY <2>1, <2>3, <2>4, <2>5 DEF DirInv, Published, BridgeDirs, PointerPlace, Doing
  <2>7. AddinDirs' /\ AddinSteps'
    BY <2>1, <2>3, <2>4, <2>5 DEF DirInv, AddinDirs, AddinSteps, Doing
  <2> QED
    BY <2>4, <2>6, <2>7 DEF DirInv
<1> QED
  BY <1>1, <1>2, <1>3, <1>4, <1>5

\* The invariant of the directories holds initially.
LEMMA InitDirs ==
    ASSUME Init
    PROVE  DirInv
BY InstalledAssumption
   DEF Init, UpdateInit, InitialState, DirInv, Published, BridgeDirs, PointerPlace, AddinDirs,
       AddinSteps, Doing, States, SlotValue

\* Every step of the host keeps what is known of the directories.
LEMMA StepDirs ==
    ASSUME IInv, DirInv, [Next]_vars
    PROVE  DirInv' /\ AddinMove
<1>1. CASE UNCHANGED vars \/ HostStart \/ StopHost \/ WorkerExits
  <2>1. UNCHANGED Dirs
    BY Zenon, <1>1 DEF vars, updateVars, disk, Dirs, HostStart, StopHost, WorkerExits
  <2> QED
    BY <2>1, DirsUnchanged DEF Dirs, AddinMove
<1>2. CASE HostCrash \/ HostEnds
  BY <1>2, LeaseGivenUp DEF HostCrash, HostEnds, Volatile, disk, AddinMove
<1>3. CASE PollerStep
  <2>1. CASE Poll
    BY <2>1, PollDirs DEF Poll, AddinMove
  <2>2. CASE AcceptRelease
    BY <2>2, AcceptDirs DEF AcceptRelease, AddinMove
  <2>3. CASE ActivateRelease
    BY <2>3, ActivateDirs DEF ActivateRelease, AddinMove
  <2>4. CASE CommitFails
    BY Zenon, <2>4, LeaseGivenUp DEF CommitFails, Abandon, disk, AddinMove
  <2>5. CASE UpdateStateChanged \/ StageFails \/ NothingToApply
    BY <2>5, DirsUnchanged DEF UpdateStateChanged, StageFails, NothingToApply, disk, Dirs, AddinMove
  <2>6. CASE BeginApply("poller")
    BY Zenon, <2>6, DeployDirs
  <2>7. CASE \/ CopyPreviousBridge \/ PreviousBridgeCopied
             \/ BridgeAlreadySelected \/ DeleteBridgeSlot \/ MoveBridgeSlot
             \/ WriteCurrentVersion
             \/ CopyPreviousAddin \/ PreviousAddinCopied \/ DeleteAddinSlot
             \/ MoveAddinSlot
    <3>1. UNCHANGED addin
      BY <2>7 DEF CopyPreviousBridge, PreviousBridgeCopied, BridgeAlreadySelected,
                  DeleteBridgeSlot, MoveBridgeSlot, WriteCurrentVersion, CopyPreviousAddin,
                  PreviousAddinCopied, DeleteAddinSlot, MoveAddinSlot, disk
    <3> QED
      BY Zenon, <2>7, <3>1, CommitDirs DEF AddinMove
  <2> QED
    BY <1>3, <2>1, <2>2, <2>3, <2>4, <2>5, <2>6, <2>7 DEF PollerStep, CommitStep
<1>4. CASE ApplierStep
  BY <1>4, DeployDirs DEF ApplierStep
<1>5. CASE LeaseStep
  BY <1>5, DeployDirs, RollbackDirs DEF LeaseStep, RollbackStep, AddinMove
<1>6. CASE Environment
  <2>1. SameButCounters /\ UNCHANGED <<pointer, bridgeSlot, addinSlot, addin, op>>
    BY Zenon, <1>6 DEF Environment, SameButCounters, CrashWindowCloses, IInv, Types, StateType
  <2> QED
    BY <2>1, CountersDirs DEF AddinMove
<1>7. CASE MonitorStep
  <2>1. CASE RecordCrash
    BY Zenon, <2>1, RollbackDirs DEF RecordCrash, AddinMove
  <2>2. CASE ~RecordCrash
    <3>1. UNCHANGED Dirs
      BY <1>7, <2>2
         DEF MonitorStep, BeginStart, BeginLaunch, WorkerReady, LaunchFails, LaunchCancelled,
             ObserveExit, StartRecorded, ExitRecorded, Regate, LaunchRecorded, LaunchForgone,
             Recorded, updateVars, disk, Dirs
    <3> QED
      BY <3>1, DirsUnchanged DEF Dirs, AddinMove
  <2> QED
    BY <2>1, <2>2
<1>8. CASE RestartStep \/ RequestStop \/ StopWorker
  <2>1. UNCHANGED Dirs
    BY <1>8 DEF RestartStep, RequestUpdateRestart, FinishUpdateRestart, RequestStop, StopWorker,
                updateVars, disk, Dirs
  <2> QED
    BY <2>1, DirsUnchanged DEF Dirs, AddinMove
<1>9. CASE CancelPoller
  <2>1. UNCHANGED disk /\ (op' = NoOp \/ op' = op)
    BY <1>9 DEF CancelPoller, Abandon, disk
  <2> QED
    BY <2>1, LeaseGivenUp, DirsUnchanged DEF disk, Dirs, AddinMove
<1> QED
  BY <1>1, <1>2, <1>3, <1>4, <1>5, <1>6, <1>7, <1>8, <1>9 DEF Next, StopStep

-----------------------------------------------------------------------------
(* The lifecycle gate *)

StartPc == {"start", "starting", "startFailed", "startRecord"}

\* Start, launch and update restart hold the lifecycle gate, and a stop that has
\* returned has had it.
StopInv ==
    /\ "pc" \in DOMAIN monitor /\ "state" \in DOMAIN worker
    /\ host \in {"up", "stopping"} => monitor.pc \notin StartPc
    /\ host \notin {"up", "stopping"} => worker.state = "none"
    /\ host = "starting" => monitor.pc \in StartPc /\ lifecycleGate = "monitor"
    /\ host \notin {"up", "stopping", "starting"} =>
         monitor.pc = "start" /\ lifecycleGate = "free" /\ poller.pc # "restarting"
    /\ monitor.pc = "launching" => lifecycleGate = "monitor"
    /\ poller.pc = "restarting" => lifecycleGate = "poller"
    /\ stop # "no" => host = "stopping"
    /\ stop = "done" => worker.state # "running" /\ monitor.pc # "launching"

\* The poller begins no update restart.
NoRestart == poller'.pc = "restarting" => poller.pc = "restarting"

\* A step that leaves the lifecycle alone preserves its invariant.
LEMMA StopUnchanged ==
    ASSUME StopInv, UNCHANGED <<host, worker, monitor, lifecycleGate, stop>>, NoRestart
    PROVE  StopInv'
BY DEF StopInv, NoRestart

\* The monitor goes on to a step that launches nothing.
LEMMA MonitorMoves ==
    ASSUME StopInv, UNCHANGED <<host, worker, lifecycleGate, stop, poller>>,
           "pc" \in DOMAIN monitor', monitor'.pc \notin StartPc \cup {"launching"},
           monitor.pc \notin StartPc
    PROVE  StopInv'
BY DEF StopInv, StartPc

\* The update steps, whoever takes them, leave the restart to RequestUpdateRestart.
LEMMA UpdateNoRestart ==
    ASSUME IInv, PollerStep \/ ApplierStep \/ LeaseStep \/ Environment \/ CancelPoller \/ RecordCrash
    PROVE  NoRestart
<1>1. AfterAddin.pc # "restarting"
  BY IdlePollerType DEF AfterAddin, IInv, Types, PollerType
<1>2. /\ IdlePoller.pc # "restarting"
      /\ [IdlePoller EXCEPT !.pc = "committing"].pc # "restarting"
      /\ [IdlePoller EXCEPT !.pc = "retryAddin"].pc # "restarting"
      /\ [poller EXCEPT !.pc = "applyAddin"].pc # "restarting"
  BY IdlePollerType DEF PollerPc, IInv, Types, PollerType
<1>3. CASE Poll
  BY <1>2, <1>3 DEF Poll, NoRestart
<1>4. CASE CommitStep \/ NothingToApply \/ BeginApply("poller") \/ StageFails \/ CommitFails
  BY Zenon, <1>1, <1>2, <1>4
     DEF CommitStep, AcceptRelease, UpdateStateChanged, CopyPreviousBridge, PreviousBridgeCopied,
         BridgeAlreadySelected, DeleteBridgeSlot, MoveBridgeSlot, WriteCurrentVersion,
         CopyPreviousAddin, PreviousAddinCopied, DeleteAddinSlot, MoveAddinSlot, ActivateRelease,
         NothingToApply, BeginApply, StageFails, CommitFails, Abandon, NoRestart
<1>5. CASE ApplierStep \/ LeaseStep \/ Environment \/ CancelPoller \/ RecordCrash
  BY <1>1, <1>2, <1>5
     DEF ApplierStep, BeginApply, LeaseStep, DeployStep, MoveAddinOut, MoveAddinIn,
         ClearPendingAddin, DeployFails, RollbackStep, RestorePointer, RestoreState, Environment,
         CrashWindowCloses, CancelPoller, Abandon, RecordCrash, CountCrash, BeginRollback,
         RollbackPayloadMissing, NoRestart
<1> QED
  BY <1>3, <1>4, <1>5 DEF PollerStep

\* Every step preserves the invariant of the lifecycle.
LEMMA StepStop ==
    ASSUME IInv, StopInv, [Next]_vars
    PROVE  StopInv'
<1>0. IdlePoller.pc # "restarting"
  BY IdlePollerType
<1>1. CASE PollerStep \/ ApplierStep \/ LeaseStep \/ Environment \/ CancelPoller
  <2>1. UNCHANGED <<host, worker, monitor, lifecycleGate, stop>>
    BY Zenon, <1>1 DEF hostVars, PollerStep, ApplierStep, LeaseStep, Environment, CancelPoller
  <2> QED
    BY Zenon, <1>1, <2>1, StopUnchanged, UpdateNoRestart
<1>2. CASE UNCHANGED vars \/ HostStart
  BY Zenon, <1>2 DEF vars, hostVars, updateVars, HostStart, StopInv, StartPc
<1>3. CASE HostCrash \/ HostEnds
  <2>1. /\ host' = "down" /\ worker' = NoWorker /\ lifecycleGate' = "free"
        /\ poller' = IdlePoller /\ monitor' = InitialMonitor /\ stop' = "no"
    BY Zenon, <1>3 DEF HostCrash, HostEnds, Volatile
  <2>2. /\ "pc" \in DOMAIN InitialMonitor /\ InitialMonitor.pc = "start"
        /\ "state" \in DOMAIN NoWorker /\ NoWorker.state = "none"
    BY DEF InitialMonitor, NoWorker
  <2> QED
    BY <1>0, <2>1, <2>2 DEF StopInv
<1>4. CASE StopHost \/ RequestStop
  BY <1>4 DEF StopHost, RequestStop, StopInv, updateVars
<1>5. CASE WorkerExits
  BY <1>5 DEF WorkerExits, StopInv, updateVars
<1>6. CASE RequestUpdateRestart
  BY Zenon, <1>0, <1>6 DEF RequestUpdateRestart, StopInv
<1>7. CASE FinishUpdateRestart \/ StopWorker
  <2>1. /\ worker'.state # "running" /\ "state" \in DOMAIN worker'
        /\ worker.state = "none" => worker' = worker
    BY <1>7 DEF FinishUpdateRestart, StopWorker, EndWorker, StopInv
  <2> QED
    BY <1>0, <1>7, <2>1 DEF FinishUpdateRestart, StopWorker, StopInv, updateVars
<1>8. CASE BeginStart \/ BeginLaunch
  BY Zenon, <1>8 DEF BeginStart, BeginLaunch, Resolve, StopInv, StartPc, updateVars
<1>9. CASE WorkerReady
  BY <1>9 DEF WorkerReady, StopInv, InitialMonitor, StartPc, updateVars
<1>10. CASE LaunchFails
  BY <1>10 DEF LaunchFails, StopInv, StartPc, updateVars
<1>11. CASE LaunchCancelled
  BY <1>11 DEF LaunchCancelled, Return, StopInv, InitialMonitor, StartPc, updateVars
<1>12. CASE ObserveExit
  BY <1>12, MonitorMoves DEF ObserveExit, StopInv, StartPc, updateVars
<1>13. CASE RecordCrash
  <2>1. NoRestart
    BY <1>13, UpdateNoRestart
  <2> QED
    BY <1>13, <2>1 DEF RecordCrash, Recording, StopInv, StartPc, NoRestart
<1>14. CASE StartRecorded
  BY <1>14 DEF StartRecorded, Recorded, StopInv, InitialMonitor, StartPc
<1>15. CASE ExitRecorded \/ LaunchRecorded
  BY Zenon, <1>15, MonitorMoves
     DEF ExitRecorded, LaunchRecorded, Recorded, Return, Retry, StopInv, InitialMonitor, StartPc
<1>16. CASE Regate
  BY Zenon, <1>16 DEF Regate, Return, Retry, StopInv, InitialMonitor, NoWorker, StartPc, updateVars
<1>17. CASE LaunchForgone
  BY <1>17, MonitorMoves DEF LaunchForgone, Return, InitialMonitor, StartPc, updateVars
<1> QED
  BY <1>1, <1>2, <1>3, <1>4, <1>5, <1>6, <1>7, <1>8, <1>9, <1>10, <1>11, <1>12, <1>13, <1>14,
     <1>15, <1>16, <1>17 DEF Next, MonitorStep, RestartStep, StopStep

-----------------------------------------------------------------------------
\* The invariant of the update state is inductive.
LEMMA Inductive == Spec => []IInv
<1>1. Init => IInv
  BY InitInv
<1>2. IInv /\ [Next]_vars => IInv'
  BY StepInv
<1> QED
  BY <1>1, <1>2, PTL DEF Spec

\* No version the crash-loop rollback has quarantined is ever selected again, by
\* the pointer, the state file, an interrupted release or a pending add-in: for
\* any versions and releases, any number of crashes of host and worker.
THEOREM QuarantineHolds == Spec => []QuarantinedNotSelected
<1>1. IInv => QuarantinedNotSelected
  BY DEF IInv
<1> QED
  BY <1>1, Inductive, PTL

\* The highest accepted sequence never goes back, and the release it stands for
\* never changes, across resumed commits, rollbacks and restarts of the host.
THEOREM SequenceBound == Spec => OneReleasePerSequence
<1>1. IInv /\ [Next]_vars =>
        [/\ st'.highest >= st.highest
         /\ st'.highest = st.highest => BoundRelease(st') = BoundRelease(st)]_vars
  BY StepInv DEF SequenceStep
<1> QED
  BY <1>1, Inductive, PTL DEF Spec, OneReleasePerSequence

\* So it is together with the one of the directories.
LEMMA InductiveDirs == Spec => [](IInv /\ DirInv)
<1>1. Init => IInv /\ DirInv
  BY InitInv, InitDirs
<1>2. (IInv /\ DirInv) /\ [Next]_vars => (IInv /\ DirInv)'
  BY StepInv, StepDirs
<1> QED
  BY <1>1, <1>2, PTL DEF Spec

\* The pointer names a directory that is there through every interrupted commit and
\* rollback, a whole one unless the version is the installed one or was published twice,
\* and between releases the active or the previous version's.
THEOREM PointerHolds == Spec => []PointerSound
<1>1. IInv /\ DirInv => PointerSound
  BY Zenon, InstalledAssumption
     DEF IInv, Types, AnyVersion, DirInv, BridgeDirs, PointerPlace, PointerSound
<1> QED
  BY <1>1, InductiveDirs, PTL

\* Whoever deploys an add-in, poller, applier or rollback, deploys the active version's
\* and none under quarantine, for every version that is published once.
THEOREM AddinIsActive == Spec => DeploysActiveAddin
<1>1. (IInv /\ DirInv) /\ [Next]_vars =>
        [addin' # addin /\ addin' # NoVersion /\ ~Republished(st.active) =>
           addin' = "partial" \/ (addin' = st.active /\ addin' \notin st.quarantined)]_vars
  BY StepDirs DEF AddinMove
<1> QED
  BY <1>1, InductiveDirs, PTL DEF Spec, DeploysActiveAddin

\* A stop that has returned is final: it takes the lifecycle gate after every launch
\* that was under way, and no later launch passes the stop flag.
THEOREM StopHolds == Spec => []StopIsFinal
<1>1. Init => IInv /\ StopInv
  <2>1. IdlePoller.pc # "restarting"
    BY Zenon, IdlePollerType
  <2>2. ASSUME Init PROVE StopInv
    BY <2>1, <2>2 DEF Init, UpdateInit, HostInit, StopInv, InitialMonitor, NoWorker
  <2> QED
    BY <2>2, InitInv
<1>2. (IInv /\ StopInv) /\ [Next]_vars => (IInv /\ StopInv)'
  BY StepInv, StepStop
<1>3. StopInv => StopIsFinal
  BY DEF StopInv, StopIsFinal, StartPc
<1> QED
  BY <1>1, <1>2, <1>3, PTL DEF Spec
=============================================================================
