---------------------------- MODULE DirectRuntime ----------------------------
(***************************************************************************)
(* The direct runtime: MCP server processes on one workstation that reach    *)
(* the add-in over its loopback socket, one at a time by agreement on a lock  *)
(* directory (ConnectionManager), with a status preflight before each command *)
(* (SocketClient).  Composed with the add-in's intake.                       *)
(*                                                                         *)
(* The directory is the lock: mkdir takes it, rm frees it, and nobody looks   *)
(* at who made it.  Its age only grows, also while its maker is alive.        *)
(***************************************************************************)
EXTENDS AddinIntake

CONSTANTS Client,       \* runtime processes
          MaxCalls,     \* per process, the calls it makes
          MaxPolls,     \* LOCK_WAIT_MS / LOCK_POLL_MS
          MaxFaults     \* process crashes and Revit restarts

ASSUME BoundsAssumption == MaxCalls \in [Client -> Nat] /\ {MaxPolls, MaxFaults} \subseteq Nat

VARIABLES client,      \* per process: where withRevitConnection is, and its call
          lock,        \* the lock directory
          aged,        \* history: some lock directory has outlived LOCK_STALE_MS
          faults

vars == <<addinVars, client, lock, aged, faults>>

Holding == {"connecting", "preflight", "ready", "awaiting", "releasing"}
Phase == {"idle", "mkdir", "stat", "remove", "poll"} \cup Holding

NoLock == [exists |-> FALSE, stale |-> FALSE]
FreshLock == [exists |-> TRUE, stale |-> FALSE]

\* Request is the set of pairs of a process and the number of its call.
RequestOf(p) == <<p, client[p].call>>

TypeOK ==
    /\ AddinTypeOK
    /\ client \in [Client -> [phase : Phase, call : Nat, polls : 0 .. MaxPolls]]
    /\ \A p \in Client : client[p].call <= MaxCalls[p]
    /\ lock \in {NoLock, FreshLock, [exists |-> TRUE, stale |-> TRUE]}
    /\ aged \in BOOLEAN
    /\ faults \in 0 .. MaxFaults

Init ==
    /\ AddinInit
    /\ client = [p \in Client |-> [phase |-> "idle", call |-> 0, polls |-> 0]]
    /\ lock \in {NoLock, FreshLock}    \* an earlier process may have left it
    /\ aged = FALSE
    /\ faults = 0

Goes(p, phase) == client' = [client EXCEPT ![p].phase = phase]

-----------------------------------------------------------------------------
(* acquireRevitCommandLock and removeStaleLock                                *)

StartCall(p) ==
    /\ client[p].phase = "idle"
    /\ client[p].call < MaxCalls[p]
    /\ client' = [client EXCEPT ![p] = [phase |-> "mkdir", call |-> @.call + 1, polls |-> 0]]
    /\ UNCHANGED <<addinVars, lock, aged, faults>>

\* Mutant: an existing directory is taken over.
Mkdir_Recursive(p) ==
    /\ client[p].phase = "mkdir"
    /\ lock' = FreshLock
    /\ Goes(p, "connecting")
    /\ UNCHANGED <<addinVars, aged, faults>>

Mkdir(p) ==
    /\ client[p].phase = "mkdir"
    /\ IF lock.exists
       THEN Goes(p, "stat") /\ UNCHANGED lock
       ELSE Goes(p, "connecting") /\ lock' = FreshLock
    /\ UNCHANGED <<addinVars, aged, faults>>

\* owner.json cannot be written: the error leaves the directory behind.
OwnerNotWritten(p) ==
    /\ client[p].phase = "mkdir"
    /\ ~lock.exists
    /\ lock' = FreshLock
    /\ Goes(p, "idle")
    /\ UNCHANGED <<addinVars, aged, faults>>

StatLock(p) ==
    /\ client[p].phase = "stat"
    /\ Goes(p, IF lock.exists /\ lock.stale THEN "remove" ELSE "poll")
    /\ UNCHANGED <<addinVars, lock, aged, faults>>

\* rmSync by name: it removes whatever directory is there by now.
RemoveStaleLock(p) ==
    /\ client[p].phase = "remove"
    /\ lock' = NoLock
    /\ Goes(p, "poll")
    /\ UNCHANGED <<addinVars, aged, faults>>

\* Mutant: the wait for the lock has no end.
PollLock_Forever(p) ==
    /\ client[p].phase = "poll"
    /\ Goes(p, "mkdir")
    /\ UNCHANGED <<addinVars, lock, aged, faults>>

\* Busy after waitMs, or sleep and try again.
PollLock(p) ==
    /\ client[p].phase = "poll"
    /\ IF client[p].polls = MaxPolls THEN Goes(p, "idle")
       ELSE client' = [client EXCEPT ![p].phase = "mkdir", ![p].polls = @ + 1]
    /\ UNCHANGED <<addinVars, lock, aged, faults>>

\* More than LOCK_STALE_MS pass: no operation refreshes the directory.
LockAges ==
    /\ lock = FreshLock
    /\ lock' = [lock EXCEPT !.stale = TRUE]
    /\ aged' = TRUE
    /\ UNCHANGED <<addinVars, client, faults>>

-----------------------------------------------------------------------------
(* withRevitConnection and sendCommand                                        *)

Connect(p) ==
    /\ client[p].phase = "connecting"
    /\ \E next \in {"preflight", "releasing"} : Goes(p, next)
    /\ UNCHANGED <<addinVars, lock, aged, faults>>

\* ensureReadyForCommand: mcp_status is answered outside the gate.
Preflight(p) ==
    /\ client[p].phase = "preflight"
    /\ Goes(p, IF activeTask = NoRequest THEN "ready" ELSE "releasing")
    /\ UNCHANGED <<addinVars, lock, aged, faults>>

\* No answer to mcp_status within its timeout.
PreflightTimesOut(p) ==
    /\ client[p].phase = "preflight"
    /\ Goes(p, "releasing")
    /\ UNCHANGED <<addinVars, lock, aged, faults>>

SendCommand(p, c) ==
    /\ client[p].phase = "ready"
    /\ Arrive(RequestOf(p), c)
    /\ Goes(p, "awaiting")
    /\ UNCHANGED <<lock, aged, faults>>

ReceiveReply(p) ==
    /\ client[p].phase = "awaiting"
    /\ req[RequestOf(p)].stage = "answered"
    /\ Goes(p, "releasing")
    /\ UNCHANGED <<addinVars, lock, aged, faults>>

\* The command timer deletes the callback; the add-in goes on serving.  A
\* closed socket rejects nothing, so the timer is all that ends such a call.
CommandTimesOut(p) ==
    /\ client[p].phase = "awaiting"
    /\ req[RequestOf(p)].stage # "answered"
    /\ Goes(p, "releasing")
    /\ UNCHANGED <<addinVars, lock, aged, faults>>

Disconnect(p) ==
    /\ req' = Disconnected(RequestOf(p))
    /\ UNCHANGED <<gate, quarantined, activeTask, handler, unfinished, threw>>

\* The finally block: disconnect, then rmSync by name.
Release(p) ==
    /\ client[p].phase = "releasing"
    /\ Disconnect(p)
    /\ lock' = NoLock
    /\ Goes(p, "idle")
    /\ UNCHANGED <<aged, faults>>

CrashClient(p) ==
    /\ faults < MaxFaults
    /\ client[p].phase # "idle"
    /\ Disconnect(p)
    /\ Goes(p, "idle")
    /\ faults' = faults + 1
    /\ UNCHANGED <<lock, aged>>

Restart ==
    /\ faults < MaxFaults
    /\ RestartRevit
    /\ faults' = faults + 1
    /\ UNCHANGED <<client, lock, aged>>

-----------------------------------------------------------------------------

Call(p) ==
    \/ Mkdir(p)
    \/ StatLock(p)
    \/ RemoveStaleLock(p)
    \/ PollLock(p)
    \/ Connect(p)
    \/ Preflight(p)
    \/ PreflightTimesOut(p)
    \/ \E c \in Command : SendCommand(p, c)
    \/ ReceiveReply(p)
    \/ CommandTimesOut(p)
    \/ Release(p)

AddinStep(r) == Serve(r) /\ UNCHANGED <<client, lock, aged, faults>>
RevitStep(c) == RevitTurn(c) /\ UNCHANGED <<client, lock, aged, faults>>

Next ==
    \/ \E p \in Client : StartCall(p) \/ Call(p) \/ OwnerNotWritten(p) \/ CrashClient(p)
    \/ \E r \in Request : AddinStep(r)
    \/ \E c \in Command : RevitStep(c)
    \/ LockAges
    \/ Restart

\* Timers end every wait of a process.  Nothing is assumed of the add-in or of
\* Revit: a thread may hang, and a handler may never run.
Fairness == \A p \in Client : WF_vars(Call(p))

Spec == Init /\ [][Next]_vars /\ Fairness

-----------------------------------------------------------------------------
(* Properties                                                                *)

\* A handler that Revit has still to run, or to finish in Idling, has the
\* parameters of the one request that raised it: no later request reaches the
\* singleton, however many clients believe they hold the lock and whatever
\* timed out before (SocketService.cs:745). And either mcp_status shows its task
\* or the intake is quarantined, so a preflight that reports an idle add-in never
\* lets a second command run beside the first.
UnfinishedIsFenced ==
    \A c \in Command : unfinished[c] # {} =>
        /\ unfinished[c] = {handler[c].params}
        /\ activeTask # NoRequest \/ quarantined

\* The results that a handler may give to request r.
Answers(r, c, v) ==
    \/ v = ResultOf(r)
    \/ r \in threw /\ c \in Silent
    \/ r \in threw /\ c \in Patching /\ v.verdict \in {r, NoRequest}

\* A result that goes out is that of the request it answers, whatever timed out,
\* was signalled late or disconnected before: no handler lets a leftover signal or
\* an earlier result pass for this run's, the ones that keep both included. The
\* exception is a run that itself threw in a handler that keeps its last result:
\* a silent one then answers with that result, and a patching one answers with
\* the earlier object under its own failure, or with null.
OwnResult ==
    \A r \in Request : req[r].reply = "result" => Answers(r, req[r].cmd, req[r].value)

\* Two processes hold the lock at once only after a directory outlived the
\* stale limit: short of that, mkdir and rm by name exclude each other.
ExclusiveUntilStale ==
    (\E p, q \in Client : p # q /\ {client[p].phase, client[q].phase} \subseteq Holding)
        => aged

\* Every call ends, also when the add-in never answers and when the lock is
\* never freed.
CallsEnd ==
    \A p \in Client : client[p].phase # "idle" ~> client[p].phase = "idle"

=============================================================================
