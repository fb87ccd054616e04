----------------------------- MODULE BridgeHost -----------------------------
(***************************************************************************)
(* The Bridge host process: the worker supervisor (start, monitor with its   *)
(* restart budget, stop, update restart) running beside the update poller and *)
(* the add-in applier of BridgeUpdate. The supervisor's methods exclude each  *)
(* other by the lifecycle gate; the mutation lease is taken outside it, or     *)
(* inside it during start. The host may stop or die at any point and be        *)
(* started again; the disk is what remains.                                  *)
(***************************************************************************)
EXTENDS BridgeUpdate

CONSTANTS
    MaxUnexpectedRestarts,
    MaxExits,       \* bound: worker exits and failed launches nobody asked for
    MaxHostRuns     \* bound: times the host is started

VARIABLES
    host,           \* "down", "starting", "up" or "stopping"
    worker,         \* version and state of the worker process _current refers to
    monitor,        \* StartAsync and then WaitForExitAsync: pc, counters, version launching
    lifecycleGate,  \* who holds the lifecycle gate
    planned,        \* _plannedUpdateRestart
    stop,           \* StopAsync: "no", "requested" (flag set) or "done"
    ended,          \* history: why the monitor returned
    exits, runs

hostVars == <<host, worker, monitor, lifecycleGate, planned, stop, ended, exits, runs>>
vars == <<updateVars, hostVars>>

NoWorker == [version |-> NoVersion, state |-> "none"]
InitialMonitor == [pc |-> "start", count |-> 0, limit |-> MaxUnexpectedRestarts,
                   failures |-> 0, version |-> NoVersion]

HostInit ==
    /\ host = "down"
    /\ worker = NoWorker
    /\ monitor = InitialMonitor
    /\ lifecycleGate = "free"
    /\ planned = FALSE
    /\ stop = "no"
    /\ ended = "not"
    /\ exits = 0
    /\ runs = 0

Init == UpdateInit /\ HostInit

HostStart ==
    /\ host = "down"
    /\ runs < MaxHostRuns
    /\ runs' = runs + 1
    /\ host' = "starting"
    /\ lifecycleGate' = "monitor"
    /\ ended' = "not"
    /\ UNCHANGED <<updateVars, worker, monitor, planned, stop, exits>>

Volatile ==
    /\ host' = "down"
    /\ worker' = NoWorker
    /\ lifecycleGate' = "free"
    /\ op' = NoOp
    /\ verdict' = "none"
    /\ poller' = IdlePoller
    /\ monitor' = InitialMonitor
    /\ planned' = FALSE
    /\ stop' = "no"

\* The process dies: what it held in memory, both locks and the worker go.
HostCrash ==
    /\ host # "down"
    /\ faults < MaxFaults
    /\ faults' = faults + 1
    /\ Volatile
    /\ UNCHANGED <<disk, offer, ended, exits, runs>>

-----------------------------------------------------------------------------
(* LaunchWorkerAsync: the version is resolved first, READY comes later.       *)

\* WorkerExecutableResolver.Resolve
CurrentVersion == IF pointer = NoVersion THEN Installed ELSE pointer

SlotOf(v) == IF pointer = NoVersion THEN "whole" ELSE bridgeSlot[v]

Resolve ==
    /\ monitor' = [monitor EXCEPT !.pc = IF @ = "start" THEN "starting" ELSE "launching",
                                  !.version = CurrentVersion]

BeginStart ==
    /\ host = "starting" /\ monitor.pc = "start"
    /\ Resolve
    /\ UNCHANGED <<updateVars, host, worker, lifecycleGate, planned, stop, ended, exits, runs>>

\* Mutant: the stop flag is not looked at under the gate.
BeginLaunch_IgnoresStop ==
    /\ monitor.pc = "launch"
    /\ lifecycleGate = "free"
    /\ lifecycleGate' = "monitor"
    /\ Resolve
    /\ UNCHANGED <<updateVars, host, worker, planned, stop, ended, exits, runs>>

BeginLaunch ==
    /\ monitor.pc = "launch"
    /\ stop = "no"
    /\ lifecycleGate = "free"
    /\ lifecycleGate' = "monitor"
    /\ Resolve
    /\ UNCHANGED <<updateVars, host, worker, planned, stop, ended, exits, runs>>

WorkerReady ==
    /\ monitor.pc \in {"starting", "launching"}
    /\ SlotOf(monitor.version) # "absent"
    /\ worker' = [version |-> monitor.version, state |-> "running"]
    /\ monitor' = [InitialMonitor EXCEPT !.pc = "wait", !.count = monitor.count]
    /\ host' = IF monitor.pc = "starting" THEN "up" ELSE host
    /\ lifecycleGate' = "free"
    /\ UNCHANGED <<updateVars, planned, stop, ended, exits, runs>>

\* The worker exits, or does not answer READY in time, or its file is not
\* there. The start keeps the gate while the failure is recorded.
LaunchFails ==
    /\ monitor.pc \in {"starting", "launching"}
    /\ exits < MaxExits \/ SlotOf(monitor.version) # "whole"
    /\ exits' = IF exits < MaxExits THEN exits + 1 ELSE exits
    /\ monitor' = [monitor EXCEPT !.pc = IF @ = "starting" THEN "startFailed" ELSE "launchFailed"]
    /\ lifecycleGate' = IF monitor.pc = "starting" THEN lifecycleGate ELSE "free"
    /\ UNCHANGED <<updateVars, host, worker, planned, stop, ended, runs>>

Return(why) ==
    /\ monitor' = [InitialMonitor EXCEPT !.pc = "returned"]
    /\ ended' = why

\* Mutant: a cancelled launch does not give the gate back.
LaunchCancelled_KeepsGate ==
    /\ monitor.pc = "launching"
    /\ stop = "requested"
    /\ Return("stopped")
    /\ UNCHANGED <<updateVars, host, worker, lifecycleGate, planned, stop, exits, runs>>

\* Shutdown cancels a launch in progress.
LaunchCancelled ==
    /\ monitor.pc = "launching"
    /\ stop = "requested"
    /\ Return("stopped")
    /\ lifecycleGate' = "free"
    /\ UNCHANGED <<updateVars, host, worker, planned, stop, exits, runs>>

-----------------------------------------------------------------------------
(* The worker process.                                                       *)

WorkerExits ==
    /\ worker.state = "running"
    /\ exits < MaxExits
    /\ exits' = exits + 1
    /\ \E s \in {"crashed", "exited"} : worker' = [worker EXCEPT !.state = s]
    /\ UNCHANGED <<updateVars, host, monitor, lifecycleGate, planned, stop, ended, runs>>

-----------------------------------------------------------------------------
(* WaitForExitAsync.                                                         *)

\* The flag is consumed and the limit chosen as soon as the exit is seen.
ObserveExit ==
    /\ monitor.pc = "wait"
    /\ worker.state \in {"crashed", "exited"}
    /\ planned' = FALSE
    /\ monitor' = [monitor EXCEPT
            !.limit = IF planned THEN CrashThreshold ELSE MaxUnexpectedRestarts,
            !.pc = IF planned \/ worker.state = "exited" THEN "regate" ELSE "exitSeen"]
    /\ UNCHANGED <<updateVars, host, worker, lifecycleGate, stop, ended, exits, runs>>

Recording(pc) == CASE pc = "startFailed" -> "startRecord"
                   [] pc = "launchFailed" -> "launchRecord"
                   [] pc = "exitSeen" -> "exitRecord"

\* The three places that record an abnormal exit; the two after a failed launch
\* do not once shutdown is requested.
RecordCrash ==
    /\ monitor.pc \in {"startFailed", "launchFailed", "exitSeen"}
    /\ monitor.pc = "launchFailed" => stop = "no"
    /\ CountCrash \/ BeginRollback \/ RollbackPayloadMissing
    /\ monitor' = [monitor EXCEPT !.pc = Recording(@)]
    /\ UNCHANGED <<host, worker, lifecycleGate, planned, stop, ended, exits, runs>>

\* The launch loop's next attempt, or its end.
Retry(count, limit) ==
    IF count >= limit THEN Return("budget")
    ELSE /\ monitor' = [monitor EXCEPT !.pc = "launch", !.count = count + 1, !.limit = limit]
         /\ UNCHANGED ended

\* The record's answer is there, and is taken.
Recorded(pc) ==
    /\ monitor.pc = pc
    /\ verdict # "none"
    /\ verdict' = "none"
    /\ UNCHANGED <<disk, op, poller, offer, faults>>

\* A start that fails with nothing to roll back to ends the host.
StartRecorded ==
    /\ Recorded("startRecord")
    /\ LET failures == IF verdict = "rolledBack" THEN 0 ELSE monitor.failures + 1
           giveUp == verdict \in {"notCounted", "error"} \/ failures >= CrashThreshold
       IN /\ monitor' = IF giveUp THEN InitialMonitor
                        ELSE [InitialMonitor EXCEPT !.failures = failures]
          /\ ended' = IF giveUp THEN "error" ELSE ended
          /\ host' = IF giveUp THEN "down" ELSE host
          /\ lifecycleGate' = IF giveUp THEN "free" ELSE lifecycleGate
    /\ UNCHANGED <<worker, planned, stop, exits, runs>>

ExitRecorded ==
    /\ Recorded("exitRecord")
    /\ IF verdict = "error" THEN Return("error")
       ELSE /\ monitor' = [monitor EXCEPT !.pc = "regate",
                             !.count = IF verdict = "rolledBack" THEN 0 ELSE @]
            /\ UNCHANGED ended
    /\ UNCHANGED <<host, worker, lifecycleGate, planned, stop, exits, runs>>

Regate ==
    /\ monitor.pc = "regate"
    /\ lifecycleGate = "free"
    /\ worker' = NoWorker
    /\ IF stop # "no" THEN Return("stopped") ELSE Retry(monitor.count, monitor.limit)
    /\ UNCHANGED <<updateVars, host, lifecycleGate, planned, stop, exits, runs>>

LaunchRecorded ==
    /\ Recorded("launchRecord")
    /\ CASE verdict = "error" -> Return("error")
         [] verdict = "rolledBack" -> Retry(0, MaxUnexpectedRestarts)
         [] OTHER -> Retry(monitor.count, monitor.limit)
    /\ UNCHANGED <<host, worker, lifecycleGate, planned, stop, exits, runs>>

\* The backoff delay is cancelled, or the flag is seen under the gate.
LaunchForgone ==
    /\ monitor.pc \in {"launch", "launchFailed"}
    /\ stop # "no"
    /\ Return("stopped")
    /\ UNCHANGED <<updateVars, host, worker, lifecycleGate, planned, stop, exits, runs>>

-----------------------------------------------------------------------------
(* RequestUpdateRestartAsync, called by the poller after a commit.            *)

RequestUpdateRestart ==
    /\ poller.pc = "restart"
    /\ lifecycleGate = "free"
    /\ IF worker.state = "none"
       THEN /\ poller' = IdlePoller
            /\ UNCHANGED <<planned, lifecycleGate>>
       ELSE /\ poller' = [poller EXCEPT !.pc = "restarting"]
            /\ planned' = TRUE
            /\ lifecycleGate' = "poller"
    /\ UNCHANGED <<disk, op, verdict, offer, faults,
                   host, worker, monitor, stop, ended, exits, runs>>

EndWorker ==
    \E s \in {"crashed", "exited"} :
        worker' = IF worker.state = "running" THEN [worker EXCEPT !.state = s] ELSE worker

\* The worker stops when told; one that does not is killed; one that was gone
\* already leaves the flag to the next exit.
FinishUpdateRestart ==
    /\ poller.pc = "restarting"
    /\ EndWorker
    /\ poller' = IdlePoller
    /\ lifecycleGate' = "free"
    /\ UNCHANGED <<disk, op, verdict, offer, faults,
                   host, monitor, planned, stop, ended, exits, runs>>

-----------------------------------------------------------------------------
(* The end of the host: StopApplication or the service manager. Hosted         *)
(* services stop in reverse order: poller, supervisor, applier.               *)

StopHost ==
    /\ host = "up"
    /\ monitor.pc # "returned" => faults < MaxFaults
    /\ faults' = IF monitor.pc = "returned" THEN faults ELSE faults + 1
    /\ host' = "stopping"
    /\ UNCHANGED <<disk, op, verdict, poller, offer,
                   worker, monitor, lifecycleGate, planned, stop, ended, exits, runs>>

\* The poller's token is cancelled; an update restart in progress kills the worker.
CancelPoller ==
    /\ host = "stopping"
    /\ poller.pc # "idle" /\ poller.pc # "restarting"
    /\ \/ Abandon /\ UNCHANGED faults
       \/ /\ ~HeldBy("poller")
          /\ poller' = IdlePoller
          /\ UNCHANGED <<disk, op, verdict, offer, faults>>
    /\ UNCHANGED hostVars

RequestStop ==
    /\ host = "stopping"
    /\ stop = "no"
    /\ poller.pc = "idle"
    /\ stop' = "requested"
    /\ UNCHANGED <<updateVars, host, worker, monitor, lifecycleGate, planned, ended, exits, runs>>

\* The worker acknowledges and exits, or is killed at the deadline; the monitor
\* sees that exit like any other, and records a killed worker as a crash.
StopWorker ==
    /\ stop = "requested"
    /\ lifecycleGate = "free"
    /\ EndWorker
    /\ stop' = "done"
    /\ UNCHANGED <<updateVars, host, monitor, lifecycleGate, planned, ended, exits, runs>>

HostEnds ==
    /\ host = "stopping"
    /\ stop = "done" /\ monitor.pc = "returned" /\ op = NoOp
    /\ Volatile
    /\ UNCHANGED <<disk, offer, faults, ended, exits, runs>>

-----------------------------------------------------------------------------

PollerStep ==
    /\ \/ host = "up" /\ Poll
       \/ CommitStep \/ NothingToApply \/ BeginApply("poller") \/ StageFails \/ CommitFails
    /\ UNCHANGED hostVars

ApplierStep ==
    /\ host # "down"
    /\ BeginApply("applier")
    /\ UNCHANGED hostVars

LeaseStep == (DeployStep \/ RollbackStep) /\ UNCHANGED hostVars

Environment == CrashWindowCloses /\ UNCHANGED hostVars

MonitorStep ==
    \/ BeginStart \/ BeginLaunch \/ WorkerReady \/ LaunchFails \/ LaunchCancelled
    \/ ObserveExit \/ RecordCrash \/ StartRecorded \/ ExitRecorded \/ Regate
    \/ LaunchRecorded \/ LaunchForgone

RestartStep == RequestUpdateRestart \/ FinishUpdateRestart

StopStep == CancelPoller \/ RequestStop \/ StopWorker \/ HostEnds

Next ==
    \/ HostStart \/ HostCrash \/ StopHost \/ WorkerExits
    \/ PollerStep \/ ApplierStep \/ LeaseStep \/ Environment
    \/ MonitorStep \/ RestartStep \/ StopStep

\* Every task of the host goes on; a launch ends by READY or by its time limit;
\* the poller and the applier come round by their timers; a monitor that has
\* returned stops the application. Revit is not open at every attempt to replace
\* the add-in. Nothing is assumed of the Gateway, the worker or who starts the host.
Fairness ==
    /\ WF_vars(PollerStep) /\ WF_vars(ApplierStep) /\ WF_vars(LeaseStep)
    /\ WF_vars(MonitorStep) /\ WF_vars(RestartStep) /\ WF_vars(StopStep)
    /\ SF_vars(MoveAddinOut /\ UNCHANGED hostVars)
    /\ WF_vars(StopHost /\ monitor.pc = "returned")

Spec == Init /\ [][Next]_vars /\ Fairness

-----------------------------------------------------------------------------

States == {"absent", "partial", "whole"}

TypeOK ==
    /\ st.active \in Version \cup {NoVersion} /\ st.previous \in Version \cup {NoVersion}
    /\ st.highest \in Nat /\ st.crashes \in 0..CrashThreshold - 1
    /\ st.quarantined \subseteq Version
    /\ pointer \in Version \cup {NoVersion}
    /\ bridgeSlot \in [Version -> States]
    /\ addinSlot \in [Version -> Version \cup {"absent", "partial"}]
    /\ addin \in Version \cup {"partial", NoVersion}
    /\ op = NoOp \/ op.who \in {"poller", "applier", "monitor"}
    /\ lifecycleGate \in {"free", "monitor", "poller"}
    /\ worker.state \in {"none", "running", "crashed", "exited"}
    /\ monitor.count \in 0..CrashThreshold

\* A version the device has quarantined is never selected again: not by the
\* pointer, not as active or previous, not by an interrupted release or a pending
\* add-in, whatever the host died in the middle of.
QuarantinedNotSelected ==
    st.quarantined \cap {pointer, st.active, st.previous, st.pendAddin} = {}
    /\ (st.pend # NoRelease => st.pend.version \notin st.quarantined)

\* Some release of the version has the sequence to replace a copy in use: the version
\* was installed, or an earlier release carried it. The Gateway stores a version once;
\* the device does not ask.
Republished(v) ==
    \E r \in Release :
        r.version = v /\ (v = Installed \/ \E s \in Release : s.version = v /\ s.seq < r.seq)

\* The pointer always names a directory that is there, at every point of a commit and
\* of a rollback. It can be torn only for the installed version, whose copy a later
\* commit takes as it is, and for a version that was published again, whose directory
\* kept for a rollback an interrupted commit has begun to replace. Unless a release is
\* half done, the version is the active or, after a rollback the host did not survive,
\* the previous one.
PointerSound ==
    pointer # NoVersion =>
        /\ bridgeSlot[pointer] # "absent"
        /\ bridgeSlot[pointer] = "partial" => pointer = Installed \/ Republished(pointer)
        /\ st.pend = NoRelease => pointer \in {st.active, st.previous}

\* Once StopAsync has returned no worker runs and none is being launched.
StopIsFinal == stop = "done" /\ host # "down" =>
    worker.state # "running" /\ monitor.pc \notin {"launching", "starting"}

\* A sequence number is bound to one release for good, and never goes back.
BoundRelease(s) == IF s.pend # NoRelease THEN s.pend ELSE s.accepted
OneReleasePerSequence ==
    [][/\ st'.highest >= st.highest
       /\ st'.highest = st.highest => BoundRelease(st') = BoundRelease(st)]_vars

\* Whatever becomes the add-in Revit loads is the active version's, or what was saved of
\* it when it was active before, and never one under quarantine; unless the active
\* version was published again, and what was saved of it has been deleted.
DeploysActiveAddin ==
    [][addin' # addin /\ addin' # NoVersion /\ ~Republished(st.active) =>
         addin' = "partial" \/ (addin' = st.active /\ addin' \notin st.quarantined)]_vars

\* An accepted release the Gateway still serves is finished after any interruption, by
\* the run of the host that is up: the next one owes it when this one ends first.
InterruptedReleaseFinished ==
    st.pend # NoRelease /\ offer = st.pend ~> st.pend # offer \/ host # "up"

\* A host that is asked to stop, or gives up, ends: poller, monitor, applier and
\* StopAsync do not wait for each other.
StopEnds == host = "stopping" ~> host = "down"
=============================================================================
