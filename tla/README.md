# A verification project for revAgent

revAgent connects MCP clients to running Revit sessions. A **Gateway**
(TypeScript, `packages/gateway`) takes tool calls from clients. A **Bridge**
(C#, `packages/bridge`) on each workstation holds one outbound connection to the
Gateway and calls the **Revit add-in** (`src/revit-plugin`) over loopback TCP; a
**host** service supervises and updates it. Between Gateway and Bridge runs the
protocol RBP/1 (`packages/protocol`, `docs/specs/O1-bridge-gateway-protocol.md`):
every registered Revit session has an id, the *rsid*, and both peers keep a
durable record of it, so that a call is neither lost nor executed twice when a
connection or a process goes away. Beside it, a **direct runtime**
(`installer/runtime-mcp-server`) reaches the add-in of its own workstation
without Gateway and Bridge.

These are TLA+ models of those parts, the TLC runs over them, and
machine-checked proofs. `PROJECT.json` maps every definition to the source lines
it models, and lists the parts of the system, the hazards, the runs and the
theorems.

## The system

| part | state | operations | interacts with |
|---|---|---|---|
| sequence authority (`sequenceState.ts`, `RbpSequenceReducer.cs`) | transmit and receive cursors, outbox, accepted identities | queue, acknowledge, accept, retransmit | used by both peers, inside their storage transactions |
| Gateway session authority (`bridgeSession.ts`, `rbpIngress.ts`) | durable session row; `#active`, connections | dispatch, promote, cancel, send, settle, terminal, heartbeat, document update, resume, detach, sweep, unregister | Bridge, clients, repository |
| Gateway dispatch, recovery and confirmation (`dispatch.ts`, `recoveryAuthority.ts`, `confirmationAuthority.ts`, `mutationHold.ts`) | the recovery record of a session (window, pending dispatch, holds), pending actions | preview, confirm, prepare, send, reconcile, verify, clear, redeliver | session authority, store |
| device authority and revocation (`m5EnrollmentEntitlement.ts`, `m5BridgeIdentityAuthority.ts`, `bridgeSession.ts`) | devices, credentials, event count; cached snapshot, fences, tickets | enroll, rotate, revoke; synchronize, admit, assert | session authority, Postgres |
| Bridge coordinator (`Connection/*.cs`, `RbpJournalStore.Transport.cs`) | journal rows; the current connection cycle | connect, resume, flush, accept, journal, answer, heartbeat, watch documents | Gateway, dispatcher, SQLite |
| Bridge dispatcher and journal (`Dispatch/*.cs`, `RbpJournalStore.Invocations.cs`, `RbpJournalStore.Holds.cs`) | a row per invocation, verification holds | admit, own, send, decide, redeliver | add-in, SQLite |
| Bridge host (`RevAgent.Bridge.Host`) | version pointer, update state, version directories, worker process | stage, flip, restart, roll back, apply, stop | file system |
| add-in data plane (`SocketService.cs`, command handlers) | intake gate, quarantine, active task, singleton handlers | accept, raise, wait, time out, answer | Revit, loopback |
| direct runtime (`ConnectionManager.ts`, `SocketClient.ts`) | the lock directory | lock, preflight, call, release | add-in, file system |

What is hard here: many promises, tasks and threads interleave on every side; a
socket write is not in the transaction that authorises it; every process can end
between any two writes; what is cached is asked for again only when a counter
moved; leases, drains, sweeps and locks run out by time; and the answer to "was
this call executed?" must never be guessed.

## Modules

| module | what it is | source |
|---|---|---|
| `RbpSequence` | the pure reducers over one sequence state | `sequenceState.ts` |
| `RbpChannel` | abstract specification: two peers with a sequence state each and a carrier that loses, delays, repeats and reorders | `RbpSequenceReducer.cs` |
| `RbpChannelProofs` | the theorems about `RbpChannel` | |
| `RbpWire` | frames and connections: ordered while open, gone when closed | external |
| `GatewaySession`, `BridgeSession` | the two halves of one session | `bridgeSession.ts`, `rbpIngress.ts`; `RbpConnectionCoordinator*.cs`, `RbpJournalStore.*.cs` |
| `RbpLink` | the two halves together, fairness, and the refinement of `RbpChannel` | |
| `BridgeInvocations` | the Bridge's dispatcher, invocation journal and holds for one session | `Gateway/Dispatch`, `RbpJournalStore.*.cs` |
| `BridgeInvocationsProofs` | the theorems about `BridgeInvocations` | |
| `MutationHolds` | the pure operations on the Gateway's hold ledger | `mutationHold.ts` |
| `GatewayRecovery` | requests through dispatcher, recovery record and confirmations | `dispatch.ts`, `recoveryAuthority.ts`, `confirmationAuthority.ts` |
| `GatewayRecoveryStepProofs`, `GatewayRecoveryProofs` | what each step of `GatewayRecovery` writes, and the theorems about it | |
| `DevicePlane` | enrollment, rotation and revocation of a tenant's devices | `m5EnrollmentEntitlement.ts` |
| `RevocationSync` | a Gateway process in step with `DevicePlane`: synchronization, tickets, registration | `bridgeSession.ts`, `m5BridgeIdentityAuthority.ts` |
| `RevocationSyncProofs` | the theorems about `RevocationSync` | |
| `BridgeUpdate` | the host's update state on disk and the three operations that write it | `Update/*.cs` |
| `BridgeHost` | the supervisor beside poller and applier of `BridgeUpdate` | `Hosting/*.cs` |
| `UpdateDrill` | `BridgeHost` with a history of one update whose worker only crashes | |
| `BridgeHostProofs` | the theorems about `BridgeHost` | |
| `AddinIntake` | the add-in's socket service and command handlers | `SocketService.cs`, `*EventHandler.cs` |
| `DirectRuntime` | runtime processes behind the lock directory, with `AddinIntake` | `ConnectionManager.ts`, `SocketClient.ts` |
| `DirectRuntimeProofs` | the theorems about `DirectRuntime` and `AddinIntake` | |
| `MC*` | instances for TLC | |

**RbpSequence.** A state is `[nextTx, highestTx, lastRx, lastPeerAck, outbox,
accepted]`. A body stands for everything the immutable digest covers;
`accepted` is the map of accepted digests. `MaxSeq` is `RBP_MAX_SAFE_SEQUENCE`
(2^53 - 1 in the code), and `NoSeq` the `null` cursor after it.

**GatewaySession.** `row` is the durable session record, and each action that
changes it is one repository transaction (a compare-and-swap in the code, so
transactions are atomic to each other). `active`, `gconn`, `task`, `resume` and
`draining` are memory and die in `GatewayCrash`. A *task* is one run of
`#sendWithDurableReservation` and goes through the stages of the code:

    Dispatch -> Promote -> Revalidate -> Transmit -> Complete
        \-> RequestCancel/PromoteLost -> CancelMark -> CancelSettle
                           (after Promote) FailAfterStart

Reading `#active` and the row in `#assertDispatchReservationCurrent` is one step
(`Revalidate`), and the socket write a later one (`Transmit`). The verification
after the send and the release of the lease are one step (`Complete`). Frames of
one connection are handled in order and not while its resume handler runs;
`TailFree` is the per-rsid queue. `begun` is a history variable: the sequences a
dispatch handed to a transport.

**BridgeSession.** `bseq` and `handoff` (accepted but not yet journaled) are
journal rows; the rest belongs to the connection cycle. `Frontier` is the end of
the journaled prefix, the only value the Bridge acknowledges. Each journaled
invoke is a task of its own, so `Journal` and `Answer` run in any order. The
queueing and sending of an answer is one step because the code holds the
outbound gate for both.

**RbpLink.** Adds what takes both sides: opening a connection, and noticing that
it is closed. A close with an authorization code pauses the Bridge's retries.
Abstractions of the link modules: one rsid; a resume without a route-rebind
proof; late terminal evidence is a value of `evidence` rather than a namespace;
connection ids are reused once nothing names them; the heartbeat's check that
the session is bound is made in the step that handles it.

**BridgeInvocations.** `row` and `hold` are the journal tables; `run` is the
invocation that owns the in-flight gate, `quar` the session's entry in the
decision quarantine, `online` the token of the connection cycle. A delivery goes
through the stages of `RbpInvocationDispatcher`:

    Deliver -> Admit -> TakeOwnership -> Send -> AddinAnswer -> Decide
                    (TakeOwnership ->) FailBeforeSend -> Decide

`Admit` is one SQLite transaction: the safety classification of the retained
mutations, the holds it installs, the clearances, the conflict check and the
redelivery rules of Section 12.2. `Decide` is the other: the terminal row with
its hold or its evidence. The token is observed at the points where the code
passes it on (`Cancelled`, `ProbeCancelled`); a journal write may fail committed
or not (`JournalFault`); the process may die anywhere (`Crash`). `sent` is a
history variable: how often the add-in may have got a request. A hold has one
origin, so it is indexed by it. A clearance names a hold, since evidence is
recorded once per hold. A delivery that meets a taken gate or a quarantined
session is answered with an error and changes nothing. An origin is redelivered
only while its hold is not cleared, which is when the Gateway's recovery
authority redelivers it. The journal's refusal of holds that contradict their
rows is not an action, because no reachable state has one (`StoredHoldsValid`).
Batches, cancellation requests, payload recovery, predecessors under another
rsid, late terminals, retention and inventory limits are not in it.

**GatewayRecovery.** `record` is the recovery record of one session, written by
compare-and-swap; `confirmation` holds the pending actions; `att` says where each
request is in the dispatcher; `evidence` is what the Bridge session durably knows
of an envelope. Each operation of the recovery authority is one action; the store
may fail, or commit and report a failure, at each of them. The window and the
pending dispatch are taken and released where the code does, including the paths
that return before the `try` whose `finally` releases the window. A late terminal
of an origin is evidence for a hold only when it is the hold's single origin.

**DevicePlane, RevocationSync.** `dev` is what the device and credential tables
say, `head` the count of authority events. The Gateway caches `snap`, the rows
under the head they were committed with; an unchanged head ends a
synchronization at once, any other head blocks the tenant, makes every ticket
stale (`tick`), reads the rows, revokes sessions one at a time under their own
queue, closes connections, and reads head and rows again before it unblocks. A
hello or frame goes

    Open/Receive -> Consume ... -> Admit -> UseTicket
                                       (register) -> CommitRegistration -> Activate -> Acknowledge

and asserts its ticket again after every await that follows a write. `orphan` are
sessions of earlier connections, `leftover` and `fresh` are history. The head is
read once in a step with the block, which is sound because an unchanged head has
no effect and a changed one stays changed. Registration, detach and the tenant's
forgetting are whole; what other frames do to a session is in `GatewaySession`.

**BridgeUpdate, BridgeHost.** Every file write is a step, because the host can
die between any two. `op` is the program counter of whichever operation holds the
mutation lease (release commit, pending add-in, rollback); `monitor`, `stop` and
the restart are the supervisor's tasks, which exclude each other by the lifecycle
gate. A directory may be absent, partial or whole. Replacing one is a deletion and a
move, two steps with a moment without it. `Republished` is a version that two
releases carry under different sequences, or the installed one that a release carries again. For these the
properties about directories promise less, because the code replaces a directory
that the pointer or a rollback still names: `PointerSound` allows a partial
directory and `DeploysActiveAddin` says nothing. The Gateway stores a version once
(`version text NOT NULL UNIQUE`, `packages/gateway/migrations/003_eu12_event_result_retention_parity.sql`
82), so it does not publish such a release; the Bridge itself does not check it.

**AddinIntake, DirectRuntime.** A request has a thread of its own in the add-in;
command handlers are process-wide singletons whose parameters, completion event
and result are one record per command. The handlers differ in what they leave behind,
and the constants name the kinds: most clear result and event in `SetRequest`; those of
`Keeping` keep the result, of them `LateReset` resets the event only in
`WaitForCompletion`, `Silent` stores nothing when `Execute` throws, and `Patching`
(`ExecuteCode`) may write its failure into the object of an earlier run. A `ResultInfo`
therefore records two runs: the one that made the object, and the one whose success or
failure it reports. `unfinished` (raised handlers that have not finished) and `threw`
(requests whose run threw before it had a result) are history. A runtime process takes the lock directory with `mkdir`,
judges it by its age alone, asks for the add-in's status, and calls.

## Runs

| run | instance | shows |
|---|---|---|
| `channel` | MaxSeq 3, two bodies | in-order exactly-once delivery, retention, no reuse of a sequence. Exhaustion is reached on both sides |
| `link_faults` | MaxSeq 2, two connections, two send slots, 2 faults | the link implements `RbpChannel`; an invoke is answered once; no-send receipts are true; terminals are what the Bridge reported; a started lease ends only by its own release |
| `link_features` | MaxSeq 2, two connections, one send slot, 1 fault; documents, heartbeats, unregister | an invoke is released only when journaled; a route belongs to the session's connection; nothing is sent after the tombstone and no outcome is made up |
| `link_recovery` | MaxSeq 1, 2 faults, fair | the session is regained unless an authorization close paused the Bridge or a started lease fences the session for good; a cancellation settles, also after a crash; without a fault every dispatch is answered |
| `invocations` | 3 keys, 2 documents and the session scope | a mutation reaches the add-in at most once and never over an unknown effect; a cleared hold keeps its evidence and its consumer; no retained hold is taken for corrupt |
| `gateway_recovery` | six requests in four workloads, two processes, 1 fault | the record stays decodable; one window at a time; no mutation is pending across another's hold; an indeterminate mutation is held until evidence about it; a confirmation is consumed once; outcomes stay |
| `revocation_sync` | one connection at a time, the sweep, two devices (one enrolled), two events after the start, 1 fault, fair | no hello or frame is admitted on an identity that had changed before it came; nothing of a revoked device is left registered or connected; a revocation takes effect without traffic; every request gets its answer |
| `bridge_host` | installed version and three releases, 1 fault, 3 worker exits, 2 host runs | a quarantined version is not selected; the pointer names something that starts; nothing starts after stop; a sequence number keeps its release; the add-in deployed is the active one |
| `bridge_host_live` | the same with 1 exit, fair | an interrupted release still on offer is finished by the run of the host that stays up, also after a crash; a host asked to stop ends |
| `direct_runtime` | two processes, three commands (one of each kind of handler), 1 fault, fair | a result is that of the caller's own run; a handler still to run is fenced; the lock excludes until it goes stale; every call ends |

Why the bounds are enough. Two sequence numbers give a gap, an overtaking and a
duplicate, and two faults a crash in the recovery from a first one. Two
connections are an old and a new one of a resume. Three keys are an uncertain
mutation, the read that verifies it and the mutation that clears it; two documents
and the session scope give equal, disjoint and overlapping scopes. The workloads of
`gateway_recovery` are an origin with two verifications against a competing
mutation of the whole session, an origin on two documents with its redelivery, and
two commits that present one confirmation with equal or different arguments. Two
authority events after the start are a change during the resynchronization of an
earlier change; the second device is what an unrelated change is, and the sweep
what another connection's synchronization is. Three releases,
two under one sequence number, are an update, a replayed number and a later update.
`MaxFaults` bounds drops, crashes, expired leases and failed writes together. Symmetry
is used in safety runs only. Deadlock is checked in `channel` and `invocations`;
elsewhere the system may really stop (a used-up sequence space, a paused Bridge, a
stopped host, a drained Gateway, clients with nothing more to ask).

**Fairness.** `RbpLink`: weak fairness on each send task and its unwinding (awaited
promises settle; the adapter's send timeout and teardown end a send that cannot go
on), on the frame handler of each connection, the socket's close event, the
Bridge's resume, receive loop and invocation tasks, and its reconnect loop, which
retries without limit unless paused. Clients, documents, the heartbeat timer, the
sweep and an operator owe nothing. `RevocationSync`: weak fairness on the steps of
the running synchronization, on handlers and detaches (promises settle), and on
the sweep, whose timer fires every five seconds; strong fairness on a handler's
turn at the two per-tenant queues, which are promise chains and so first come,
first served. `BridgeHost`: weak fairness on poller, applier, lease holder,
monitor, restart and stop, all hosted tasks, and strong fairness on moving the
add-in out, which waits for Revit to close now and then. `DirectRuntime`: weak
fairness on each process's call, which awaits timers, and on nothing of the add-in:
the process's own timeouts cover an add-in that never answers.

### Where text and code disagree

Each of these is a run whose one property states what the repository says and
that TLC refutes; the findings in `PROJECT.json` quote both sides.

| run | statement | what happens |
|---|---|---|
| `link_unreachable` | `addin_unreachable` only when non-execution is known | a dispatch settled as not sent stays in the outbox and is sent by the next resume |
| `update_drill` | crashing the new worker triggers the automatic revert | after one update and nothing but crashes of its worker within the window, the planned restart counts against the restart budget, and the host ends at the second crash, before the third that would roll back |

`UpdateDrill` restricts the statement to the case the text describes. Not counting the
planned restart (`WorkerSupervisor.cs` 239) is what makes it hold: with
that one change to `BridgeHost` TLC finds no violation in the whole state space.

Met while modelling, visible in the models, and without a run of their own.

*Link and invocations*

- nothing ends a pending dispatch whose answer was lost with its cycle, where O1
  section 6.2 holds pending invocations for ten minutes;
- a cancelled delivery keeps its quarantine entry like a failed decision
  (`RbpInvocationDispatcher.cs` 598), and the session is refused until a restart;
- an older unfinished row can collide with a verified hold, so that every envelope
  with its clearance is refused (`RbpJournalStore.Invocations.cs` 342);
- the document watch of a resumed session starts before the flush (`EmitUpdate` in
  phase `bound`), so an update can overtake the retained envelopes that O1 section
  6.2 has retransmitted in ascending order;
- a sweep, a stale detach or a live reserved lease makes the Gateway close with
  4403 a session that nobody unregistered (`Arrives`, `Refuse`), which pauses the
  Bridge; a started lease whose terminal is already stored is released by neither
  terminal nor recovery handling: the two exceptions in `SessionRegained`;
- a delivery cancelled with its cycle may leave its row unfinished, where a comment
  says that the outcome is durable; a mutation that failed before its first byte
  gets a hold once its claim was durable; a verification read redelivered on a later
  connection is refused, not replayed.

*Gateway recovery*

- "All pre-dispatch and terminal paths release it through the same CAS"
  (`dispatch.ts` 2340): not when the acquisition committed and was reported as
  failed, nor when the release itself fails; the window then stays;
- `docs/implementation-plan/02-gateway-core.md` 167 has a hold for every
  indeterminate mutation: only the attempt that dispatched it reconciles it, so a
  crash before leaves the dispatch pending, without holds, and blocks the session;
- the no-send of a dispatch that carries clearances leaves its holds
  `resolved_pending_bridge` for good.

*Identity*

- every counted event, also a refused exchange of a used enrollment code,
  resynchronizes the whole tenant; a registration in flight on a device that did not
  change is taken back and its connection closed with 4403, which pauses that Bridge
  (a test of the event-based authority "keeps unrelated same-tenant device B
  registration valid during device A revoke");
- a change between the two reads of a resynchronization, or one failed read, closes
  every connection of the tenant with 4403; when the sweep ran it, the ingress
  refuses new connections until the process is restarted (`Catch`);
- `#blockedTenants` is cleared only by a committed resynchronization. If one fails
  while a snapshot is cached and nothing is tracked, or a session is stuck in
  `#active` after a failed detach, later synchronizations find the head unchanged and
  the tenant stays blocked until an authority event or a restart;
- a rotation closes the connection of the rotated device at its next frame, grace or
  not; the last detach of a tenant can forget the snapshot between the
  synchronization and the admission of a hello, which is then refused with 4403;
- a cleanup that fails after a commit leaves the session registered until the next
  resynchronization (`leftover`).

*Bridge host*

- a planned update ends the host after three restarts in its lifetime; a worker
  killed at stop is recorded as a crash; a crash of the old worker after the flip is
  counted against the new version;
- a torn copy of the installed version is taken as the rollback target; an update
  interrupted after its first pointer flip has none; a re-release of the previous
  version under a higher sequence deletes it;
- an exception of the add-in deployment in `ApplyAsync` loses `BridgeApplied`, so the
  worker is not restarted into the new version
  (`docs/implementation-plan/03-bridge-addin-installer.md` 74).

*Direct runtime*

- three handlers reset their event after they were raised (`LateReset`), and lose a
  completion that came before: a timeout, not a wrong answer. Two of them answer with
  an earlier request's result when `Execute` throws (`Silent`); `ExecuteCode` then
  writes its failure into an earlier result object, whose data goes out with it, or
  answers with null. `OwnResult` names these cases and excludes every other;
- the lock stops excluding once it is stale: two processes judge and remove it in
  turn, and a release removes whatever directory is there. Only the add-in's gate
  then keeps commands apart; a failed write of `owner.json` leaves the directory;
- the preflight is check-then-send, where `README.md` 308 says a new command is
  rejected while a task is active.

## Proofs

`RbpChannelProofs` proves, for every `MaxSeq` in `Nat \ {0}` and every set `Body`,
the three invariants that `channel` checks (`ExactlyOnce`, `Retention`,
`FreshCursor`) and `TypeCorrect`, `FaultFree`, `Monotone`. The invariants are not
inductive: `NothingLost` does not survive an acknowledgement unless an
acknowledgement is known not to exceed what the peer accepted, and that in turn
needs the peer's cursor to be within what was queued. The inductive invariant `IInv`
has three parts for each peer beside the types: `Transmit` (the cursor follows the
log, and what is above the acknowledged sequence is in the outbox with its body),
`Receive` (what was accepted is a prefix of the other log) and `Acked` (acknowledged
is at most what the other accepted). `Monotone` says of every step that cursors do not
go back and that an accepted body stays as it is. Each action has a lemma that it preserves
`IInv`; the reducers have lemmas of their own. With `ImplementsChannel`,
model-checked, these say of the link what they say of the channel.

`BridgeHostProofs` proves the five properties `bridge_host` checks, for all versions,
releases and bounds: `QuarantineHolds`, `SequenceBound`, `PointerHolds`,
`AddinIsActive` and `StopHolds`. The inductive invariant `IInv` says what the holder of the mutation lease may rely on between two file
writes: a staged release is not the active version and is newer, or the one already
accepted (`StagedSafe`); a commit works on the release that the state file names and
from its active version (`CommitSafe`); a rollback restores `previous` and its
quarantined version is neither `previous` nor the pending one (`RestoreSafe`,
`RollbackSafe`). Without the last, the rollback itself could quarantine what it
restores. Each action that writes the state file or moves the lease has a lemma;
`CoreUnchanged` covers the others. `DirInv` adds what the directories hold at every
point where the host may die: that the versions in use came with an older release than
the one that is half done (`Published`), hence that a commit replaces a directory in use
only for a version published again; what the commit and the rollback know of the
directory they are about to select (`BridgeDirs`, `PointerPlace`); and what is saved of
each add-in (`AddinDirs`, `AddinSteps`). `StopInv` says who holds the lifecycle gate.
`ReleaseAssumption` (releases carry a version and a positive sequence) is what the
manifest parser enforces; `SlotAssumption` keeps the words for the state of a directory
apart from the versions.

`GatewayRecoveryProofs` proves the five invariants of `gateway_recovery` and its action
property, for any number of requests, documents, processes and faults: `WindowHolds`,
`RecordsDecode`, `NoForeignHold`, `HeldUntilVerified`, `ConfirmationsOnce` and
`OutcomesNeverChange`. `GatewayRecoveryStepProofs` prepares them: a step of any attempt
writes the record in one of thirteen ways or not at all (`RecordStep`), since a
transaction that reports a failure has committed everything or nothing. None of the six
is inductive. `DispatchInv` says that an envelope is admitted once and is then pending or
retained, never both, and that the origin of a redelivery stays retained as
indeterminate; without it a redelivery could be closed twice, or over holds that are
not its own. `HoldsInv` has what each state of a hold rests on: evidence that the Bridge
reported about that hold (`Grounded`), an authorization, an accepted envelope. `PlanInv`
says that what a plan wants to clear still has its evidence, `CoverInv` that every key of
an indeterminate dispatch has a hold in its way, `ForeignInv` that a pending dispatch was
authorized for each hold in its own, and `ConfirmInv` that a confirmation is consumed by
the write that admits the mutation. `HeldUntilVerified` follows from `CoverInv` with
`HoldsInv`, and `OutcomesNeverChange` from what a step can write under `DispatchInv`.
`NoneAssumption` keeps `None` apart from attempts, documents and evidence.

`DirectRuntimeProofs` proves the three invariants of `direct_runtime`, for any number of
processes, calls and commands: `HandlersAreFenced`, `ResultsAreOwn` and `LockExcludes`.
The add-in is safe whatever the lock does. At most one thread is inside the gate and the
intake is quarantined from the moment its wait times out (`GateInv`), so whoever still
owes a handler run is that thread, or nobody gets in any more (`Owed`); what a waiting
thread relies on of the singleton handler is `HandlerInv`: once its event is set, the
result in it is one that `Answers` allows for this very request, for the handlers that
keep signal or result as well. `LockInv` is the argument for the directory, and it speaks only
of the time before one has outlived the stale limit.

`RevocationSyncProofs` proves `FreshAdmission`, `CacheIsSound` and `NothingOfRevoked`:
the invariants of `revocation_sync` and what the first rests on, for any number of connections, devices, events and faults, so also
for the connections that the run has no room for. The first argument is that of the
cache. Every change of a row is counted and the head is read before the rows, so rows
cached under the current head are the current rows (`CacheSound`); a version never
comes back (`NotAhead`), so a frame that is stale when it comes in stays stale
(`StaleStaysStale`) and does not match what its own synchronization cached
(`StaleIsRefused`). The second is that of the fence. It is up before the sessions are
listed and stays up while the snapshot or the running synchronization remembers the
revocation (`Fenced`), and the tenant is blocked all the while (`BlockedInRun`); so
whatever is registered after the list belongs to a handler that will find its scope
gone. What remains is accounted for stage by stage (`Progress`): on the list, then
settled. In both arguments one lemma covers the steps that cannot matter (`QuietStep`,
`TameStep`), and the others have a lemma each. The proofs use `PlaneAssumption` for
the finiteness of the enrolled devices and `SyncAssumption` for `None`.

`BridgeInvocationsProofs` proves the four invariants of
`invocations` for any keys and scopes. `AtMostOneDispatch` rests on the order of the
journal's writes: a row is executing before anything is sent (`Unsent`), and what the
dispatcher holds agrees with its row (`RunBound`). `DispatchIsInformed` keeps the
result of the admission check with the run (`Checked`). That the check is right is
`AdmissionClears`: an uncertain conflicting origin that is not cleared would get a hold
of its own, share its scope with a hold that blocks, or collide with one that is being
cleared. `HoldsStayValid` needs more than it says. Rule 4 links a row to the uncleared
hold on its scope, which may be another origin's, and the link would then contradict a
hold of its own. `Alone` excludes it: of two uncertain origins on one scope, one is
cleared (`OneUncertainOrigin`). `Alone` in turn needs that only uncertain origins are
held (`HeldUncertain`), that a cleared origin is not delivered and that a mutation runs
on a scope without holds (`RunClear`). That it is not delivered is an assumption on the
Gateway, a guard of `Deliver`. `ClearanceKeepsEvidence` follows from the same invariant.

Only model-checked: liveness, which needs fairness and `ENABLED`; the refinement of the
channel by the link, and the invariants and action properties of `RbpLink`.

## What is not modelled

- batches, stream and artifact carriers, payload recovery, the TypeScript journal
  reducers, and the lifecycle reducers beyond their effect on the link;
- a disabled user: `users.status` is taken as active in `DevicePlane`, because no code of
  the repository changes it (`m5EnrollmentEntitlement.ts` 1814-1817 reads it);
- several sessions per connection cycle, hello on the Bridge's side, route-rebind
  proofs, HTTP connections, seat reassignment and licences;
- the event-sourced identity store `productionIdentityStore.ts`, which no production
  composition uses, and the resumption of a pending dispatch
  (`resumePendingDispatch`), attestation versions and evidence audit records;
- SQLite and Postgres schemas, retention, quota, history, serving ownership and
  entitlement; frame and payload validation, signatures and downloads, which are
  stateless; the update report, and a second failure while a failed add-in move is
  put back;
- the document watcher's polling, the add-in session router, the Bridge's credential
  files; the fallback to the legacy framing, in which `SocketClient.ts` (316-339) sends a
  command again after a framing error; what the add-in's commands do in Revit, and the tools of the MCP server;
- installers, dashboard, reporting, simulators and the conformance harness.

Most of the repository's lines are of these last kinds: tool schemas and commands,
validation, tests, installers and tooling without protocol state.

## Plan

1. Batches and late terminals in `BridgeInvocations`; then the TypeScript reducers of
   `journalState.ts` as its abstract specification.
2. The carriers: assembler and producer over a link that repeats chunks.
3. Two concurrent connections in `revocation_sync` with liveness (safety holds on one
   device with `Conn = {c1, c2}`, `MaxHead = 2`).
4. Serving ownership and the add-in session router.
