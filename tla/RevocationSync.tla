---------------------------- MODULE RevocationSync ----------------------------
(***************************************************************************)
(* How a Gateway process keeps the connections and sessions of one tenant in   *)
(* step with the device authority: every hello and every frame first runs a   *)
(* synchronization (synchronizeIdentityRevocations), then takes a ticket that  *)
(* a later synchronization makes stale, and every write is guarded by the     *)
(* ticket.  The liveness sweep runs the same synchronization.                  *)
(*                                                                         *)
(* M5BridgeIdentityAuthority has no event log: a synchronization either finds  *)
(* the cached head unchanged, or blocks the tenant and resynchronizes all of   *)
(* it.  Seats are the devices again (seatId = deviceId, constant versions), so  *)
(* a device and its seat have one fence here.  Each action runs from one await  *)
(* to the next.                                                              *)
(***************************************************************************)
EXTENDS DevicePlane

CONSTANTS Conn,         \* slots for connections
          None,
          MaxFaults     \* bound: failed store calls, failed cleanups and crashes

ASSUME SyncAssumption == None \notin Device \cup Conn /\ MaxFaults \in Nat

VARIABLES conn,       \* per slot, the connection, its handler and its session
          orphan,     \* devices with a registered session of an earlier connection
          blocked,    \* #blockedTenants holds the tenant
          fence,      \* #deviceAuthorityFences
          snap,       \* #tenantIdentitySnapshots
          run,        \* the synchronization that holds #tenantRevocationTails
          draining,   \* the ingress admits no more connections
          leftover,   \* history: devices whose session a failed cleanup left behind
          faults

gatewayVars == <<conn, orphan, blocked, fence, snap, run, draining, leftover, faults>>
vars == <<planeVars, gatewayVars>>

\* pc: "none", "open" (no frame in hand), or where the handler of op is.  live: in #connections.  tick: the ticket is of the current
\* tenant block generation.  fresh: history, the device was active at this version when
\* the hello or frame came in.  row: the session of this connection is registered.
\* act: it is in #active.  det: a detach is under way.
Unused ==
    [pc |-> "none", op |-> "none", device |-> None, version |-> 0, live |-> FALSE,
     tick |-> FALSE, fresh |-> FALSE, row |-> FALSE, act |-> FALSE, det |-> FALSE]

NoRun == [pc |-> "none", owner |-> None, head |-> 0, rows |-> None, todo |-> {}]

Init ==
    /\ PlaneInit
    /\ conn = [c \in Conn |-> Unused]
    /\ orphan = {} /\ leftover = {}
    /\ blocked = FALSE /\ draining = FALSE
    /\ fence = [d \in Device |-> NoDevice]
    /\ snap = None
    /\ run = NoRun
    /\ faults = MaxFaults

Fault == faults > 0 /\ faults' = faults - 1

-----------------------------------------------------------------------------
(* Indices *)

Tracked(cs) == \E c \in Conn : cs[c].live \/ cs[c].act

\* #maybeForgetTenant, at the end of every #untrackConnection and #untrackSession.
Untrack(cs) ==
    /\ conn' = cs
    /\ snap' = IF Tracked(conn) /\ ~Tracked(cs) THEN None ELSE snap

\* A connection that ends leaves #connections at once; its session is detached later.
Ended(k) ==
    [k EXCEPT !.pc = "none", !.op = "none", !.version = 0, !.live = FALSE, !.tick = FALSE,
              !.fresh = FALSE, !.det = @ \/ k.live]

\* The same while a handler of the connection still runs.
Removed(k) ==
    IF k.pc = "open" THEN Ended(k) ELSE [k EXCEPT !.live = FALSE, !.det = TRUE]

\* #closeConnectionForRevocation for every connection of D.
CloseForRevocation(cs, D) ==
    [c \in Conn |-> IF cs[c].live /\ cs[c].device \in D THEN Removed(cs[c]) ELSE cs[c]]

AuthorityLocked == run.pc \in {"prepare", "commit", "commitRows"}

-----------------------------------------------------------------------------
(* synchronizeIdentityRevocations *)

\* The owner's acquire goes on when its synchronization has ended.
Returned(cs, owner) ==
    IF owner = None THEN cs ELSE [cs EXCEPT ![owner].pc = "admit"]

Unchanged == snap # None /\ snap.head = head

\* Mutant: only hellos and frames synchronize, the sweep does not.
ConsumeForFrames(owner) ==
    /\ run.pc = "none"
    /\ owner \in Conn /\ conn[owner].pc = "sync"
    /\ \/ /\ Unchanged
          /\ conn' = [conn EXCEPT ![owner].pc = "admit"]
          /\ UNCHANGED <<run, blocked>>
       \/ /\ ~Unchanged
          /\ run' = [NoRun EXCEPT !.pc = "prepare", !.owner = owner]
          /\ blocked' = TRUE
          /\ conn' = [c \in Conn |-> [conn[c] EXCEPT !.tick = FALSE]]
    /\ UNCHANGED <<planeVars, orphan, fence, snap, draining, leftover, faults>>

\* A synchronization begins when no other runs, for a hello or frame or for the sweep of a
\* known tenant.  consumeRevocationEvents reads the head; when it is not the cached one the
\* tenant is blocked and every ticket becomes stale.
Consume(owner) ==
    /\ run.pc = "none"
    /\ \/ owner \in Conn /\ conn[owner].pc = "sync"
       \/ owner = None /\ Tracked(conn)
    /\ \/ /\ Unchanged
          /\ conn' = Returned(conn, owner)
          /\ UNCHANGED <<run, blocked, faults>>
       \/ /\ ~Unchanged
          /\ run' = [NoRun EXCEPT !.pc = "prepare", !.owner = owner]
          /\ blocked' = TRUE
          /\ conn' = [c \in Conn |-> [conn[c] EXCEPT !.tick = FALSE]]
          /\ UNCHANGED faults
       \/ /\ run' = [NoRun EXCEPT !.pc = "catch", !.owner = owner]
          /\ Fault
          /\ UNCHANGED <<conn, blocked>>
    /\ UNCHANGED <<planeVars, orphan, fence, snap, draining, leftover>>

\* prepareTenantResync; the fences of all devices take its rows.
Prepare ==
    /\ run.pc = "prepare"
    /\ run' = [run EXCEPT !.pc = "list", !.rows = dev]
    /\ fence' = dev
    /\ UNCHANGED <<planeVars, conn, orphan, blocked, snap, draining, leftover, faults>>

RevokedIn(rows) == {d \in Device : rows[d].status = "revoked"}

\* The sessions #reconcileIdentitySnapshot finds in the store: one of a slot is named by
\* the slot, those of earlier connections by their device.
List ==
    /\ run.pc = "list"
    /\ run' = [run EXCEPT !.pc = "revoke",
                          !.todo = (orphan \cap RevokedIn(run.rows)) \cup
                                   {c \in Conn : conn[c].row /\ conn[c].device \in RevokedIn(run.rows)}]
    /\ leftover' = {}
    /\ UNCHANGED <<planeVars, conn, orphan, blocked, fence, snap, draining, faults>>

Unregistered(k) == [k EXCEPT !.row = FALSE, !.act = FALSE]

\* A register handler holds the tail of its session until it returns.
HoldsSessionTail(c) == conn[c].pc \in {"stored", "activated"}

\* Mutant: the session is revoked when its connection has no frame in hand.
RevokeBetweenFrames(x) ==
    /\ run.pc = "revoke" /\ x \in run.todo
    /\ run' = [run EXCEPT !.todo = @ \ {x}]
    /\ orphan' = orphan \ {x}
    /\ IF x \in Conn
       THEN conn[x].op = "none" /\ Untrack([conn EXCEPT ![x] = Unregistered(@)])
       ELSE UNCHANGED <<conn, snap>>
    /\ UNCHANGED <<planeVars, blocked, fence, draining, leftover, faults>>

\* #revokeIdentitySession, one session after another.
Revoke(x) ==
    /\ run.pc = "revoke" /\ x \in run.todo
    /\ run' = [run EXCEPT !.todo = @ \ {x}]
    /\ orphan' = orphan \ {x}
    /\ IF x \in Conn
       THEN ~HoldsSessionTail(x) /\ Untrack([conn EXCEPT ![x] = Unregistered(@)])
       ELSE UNCHANGED <<conn, snap>>
    /\ UNCHANGED <<planeVars, blocked, fence, draining, leftover, faults>>

\* Then the connections of revoked devices are closed.
CloseRevoked ==
    /\ run.pc = "revoke" /\ run.todo = {}
    /\ run' = [run EXCEPT !.pc = "commit"]
    /\ Untrack(CloseForRevocation(conn, RevokedIn(run.rows)))
    /\ UNCHANGED <<planeVars, orphan, blocked, fence, draining, leftover, faults>>

\* commitTenantResync reads the head first and the rows second, in one transaction that
\* is READ COMMITTED.
CommitHead ==
    /\ run.pc = "commit"
    /\ run' = [run EXCEPT !.pc = "commitRows", !.head = head]
    /\ UNCHANGED <<planeVars, conn, orphan, blocked, fence, snap, draining, leftover, faults>>

\* Mutant: the prepared rows are cached under the head of now, without a comparison.
CommitRowsUnchecked ==
    /\ run.pc = "commitRows"
    /\ snap' = [head |-> head, rows |-> run.rows]
    /\ blocked' = FALSE
    /\ run' = NoRun
    /\ conn' = Returned(conn, run.owner)
    /\ UNCHANGED <<planeVars, orphan, fence, draining, leftover, faults>>

\* Rows that are not the prepared ones are an authority_conflict, which is caught.
CommitRows ==
    /\ run.pc = "commitRows"
    /\ \/ /\ dev = run.rows
          /\ snap' = [head |-> run.head, rows |-> run.rows]
          /\ blocked' = FALSE
          /\ run' = NoRun
          /\ conn' = Returned(conn, run.owner)
       \/ /\ dev # run.rows
          /\ run' = [run EXCEPT !.pc = "catch"]
          /\ UNCHANGED <<conn, snap, blocked>>
    /\ UNCHANGED <<planeVars, orphan, fence, draining, leftover, faults>>

\* The authority or the session store is unavailable.
RunFails ==
    /\ run.pc \notin {"none", "catch"}
    /\ run' = [run EXCEPT !.pc = "catch"]
    /\ Fault
    /\ UNCHANGED <<planeVars, conn, orphan, blocked, fence, snap, draining, leftover>>

\* The tenant stays blocked, all its connections are closed with 4403, the owner gets the
\* error; when that is the sweep, the ingress drains for good.
Catch ==
    LET closed == [c \in Conn |-> [CloseForRevocation(conn, Device)[c] EXCEPT !.tick = FALSE]]
    IN  /\ run.pc = "catch"
        /\ blocked' = TRUE
        /\ run' = NoRun
        /\ Untrack(IF run.owner = None THEN closed ELSE [closed EXCEPT ![run.owner] = Ended(@)])
        /\ draining' = (draining \/ run.owner = None)
        /\ UNCHANGED <<planeVars, orphan, fence, leftover, faults>>

-----------------------------------------------------------------------------
(* Hellos and frames *)

\* openConnection authenticates the token; what an earlier connection of the slot left
\* registered is from then on an orphan.
Open(c, d) ==
    /\ conn[c].pc = "none" /\ ~conn[c].act /\ ~conn[c].det
    /\ conn[c].row => run.pc # "revoke"          \* the list names this session by its slot
    /\ ~draining
    /\ dev[d].status = "active"
    /\ conn' = [conn EXCEPT ![c] = [Unused EXCEPT !.pc = "sync", !.op = "hello", !.device = d,
                                                  !.version = dev[d].version, !.fresh = TRUE]]
    /\ orphan' = IF conn[c].row THEN orphan \cup {conn[c].device} ELSE orphan
    /\ UNCHANGED <<planeVars, blocked, fence, snap, run, draining, leftover, faults>>

\* receive: one frame of a connection at a time.
Receive(c, op) ==
    /\ conn[c].pc = "open"
    /\ op = "register" => ~conn[c].row          \* bound: one session per connection
    /\ conn' = [conn EXCEPT ![c].pc = "sync", ![c].op = op,
                            ![c].fresh = (dev[conn[c].device] = ActiveAt(conn[c].version))]
    /\ UNCHANGED <<planeVars, orphan, blocked, fence, snap, run, draining, leftover, faults>>

MatchesSnapshot(k) == snap # None /\ snap.rows[k.device] = ActiveAt(k.version)

\* #admitAuthenticatedScope for a device whose seat has not moved.
ScopeAdmits(k) ==
    \/ fence[k.device] = NoDevice
    \/ fence[k.device].status = "active" /\ k.version >= fence[k.device].version
    \/ fence[k.device].status = "revoked" /\ k.version > fence[k.device].version

\* #acquireConnectionAuthorityTicket after the synchronization.
Admit(c) ==
    LET k == conn[c]
        admitted == /\ ~blocked
                    /\ k.live \/ k.op = "hello"
                    /\ MatchesSnapshot(k) /\ ScopeAdmits(k)
    IN  /\ k.pc = "admit" /\ ~AuthorityLocked
        /\ \/ /\ admitted
              /\ Untrack([conn EXCEPT ![c].pc = "ticket", ![c].tick = TRUE])
              /\ fence' = [fence EXCEPT ![k.device] = ActiveAt(k.version)]
           \/ /\ ~admitted
              /\ Untrack([conn EXCEPT ![c] = Ended(k)])
              /\ UNCHANGED fence
        /\ UNCHANGED <<planeVars, orphan, blocked, run, draining, leftover, faults>>

\* #ticketScopeIsRevokedOrBlocked
ScopeGone(k) == blocked \/ fence[k.device].status # "active"

\* #assertAuthorityTicket
TicketHolds(k) == k.tick /\ ~ScopeGone(k) /\ (k.live \/ k.op = "hello")

\* The ticket is used: a hello enters #connections, a frame is handled (what it does to its
\* session is in GatewaySession), a registration is staged.
UseTicket(c) ==
    LET k == conn[c]
    IN  /\ k.pc = "ticket"
        /\ Untrack([conn EXCEPT ![c] =
               IF ~TicketHolds(k) THEN Ended(k)
               ELSE IF k.op = "register" THEN [k EXCEPT !.pc = "commit"]
               ELSE [k EXCEPT !.pc = "open", !.op = "none", !.live = TRUE, !.tick = FALSE,
                              !.fresh = FALSE]])
        /\ UNCHANGED <<planeVars, orphan, blocked, fence, run, draining, leftover, faults>>

\* The transaction of #register commits, or reports a failure and may have committed.
CommitRegistration(c) ==
    /\ conn[c].pc = "commit"
    /\ \/ /\ conn' = [conn EXCEPT ![c].pc = "stored", ![c].row = TRUE]
          /\ UNCHANGED <<snap, leftover, faults>>
       \/ \E kept \in BOOLEAN :
              /\ Untrack([conn EXCEPT ![c] = [Ended(@) EXCEPT !.row = kept]])
              /\ leftover' = leftover \cup {d \in {conn[c].device} : kept}
              /\ Fault
    /\ UNCHANGED <<planeVars, orphan, blocked, fence, run, draining>>

\* The cleanup of a registration whose ticket did not last: #unregisterNow, which may
\* fail, and the close.
CleanUp(c) ==
    \/ /\ Untrack([conn EXCEPT ![c] = Ended(Unregistered(@))])
       /\ UNCHANGED <<leftover, faults>>
    \/ /\ Untrack([conn EXCEPT ![c] = Ended(@)])
       /\ leftover' = leftover \cup {conn[c].device}
       /\ Fault

\* Mutant: a registration whose ticket did not last is refused and left in the store.
AssertAgainOnly(c, from, to) ==
    /\ conn[c].pc = from
    /\ IF TicketHolds(conn[c]) THEN conn' = [conn EXCEPT ![c] = to] /\ UNCHANGED snap
       ELSE Untrack([conn EXCEPT ![c] = Ended(@)])
    /\ UNCHANGED <<planeVars, orphan, blocked, fence, run, draining, leftover, faults>>

\* #register after the commit (then it enters #active), and again after #activate.
AssertAgain(c, from, to) ==
    LET k == conn[c]
    IN  /\ k.pc = from
        /\ \/ /\ TicketHolds(k)
              /\ conn' = [conn EXCEPT ![c] = to]
              /\ UNCHANGED <<snap, leftover, faults>>
           \/ /\ ~TicketHolds(k) /\ ScopeGone(k)
              /\ CleanUp(c)
           \/ /\ ~TicketHolds(k) /\ ~ScopeGone(k)
              /\ Untrack([conn EXCEPT ![c] = Ended(k)])
              /\ UNCHANGED <<leftover, faults>>
        /\ UNCHANGED <<planeVars, orphan, blocked, fence, run, draining>>

Activate(c) == AssertAgain(c, "stored", [conn[c] EXCEPT !.pc = "activated", !.act = TRUE])

Acknowledge(c) ==
    AssertAgain(c, "activated", [conn[c] EXCEPT !.pc = "open", !.op = "none", !.tick = FALSE,
                                                !.fresh = FALSE])

-----------------------------------------------------------------------------
(* Ends of connections *)

Disconnect(c) ==
    /\ conn[c].live
    /\ Untrack([conn EXCEPT ![c] = Removed(@)])
    /\ UNCHANGED <<planeVars, orphan, blocked, fence, run, draining, leftover, faults>>

\* detach: #markConnectionLost keeps the session registered; when it fails, the session
\* stays in #active.
Detach(c) ==
    /\ conn[c].det
    /\ \/ /\ Untrack([conn EXCEPT ![c].det = FALSE, ![c].act = FALSE])
          /\ UNCHANGED faults
       \/ /\ conn[c].act
          /\ Untrack([conn EXCEPT ![c].det = FALSE])
          /\ Fault
    /\ UNCHANGED <<planeVars, orphan, blocked, fence, run, draining, leftover>>

\* The Gateway process is started again: only the store remains.
Restart ==
    /\ Fault
    /\ conn' = [c \in Conn |-> Unused]
    /\ orphan' = orphan \cup {conn[c].device : c \in {x \in Conn : conn[x].row}}
    /\ blocked' = FALSE /\ draining' = FALSE
    /\ fence' = [d \in Device |-> NoDevice]
    /\ snap' = None
    /\ run' = NoRun
    /\ UNCHANGED <<planeVars, leftover>>

-----------------------------------------------------------------------------
Synchronize ==
    \/ Prepare \/ List \/ (\E x \in run.todo : Revoke(x)) \/ CloseRevoked
    \/ CommitHead \/ CommitRows \/ Catch

Handle(c) ==
    Admit(c) \/ UseTicket(c) \/ CommitRegistration(c) \/ Activate(c) \/ Acknowledge(c)

Next ==
    \/ PlaneNext /\ UNCHANGED gatewayVars
    \/ Synchronize \/ RunFails \/ Restart
    \/ \E o \in Conn \cup {None} : Consume(o)
    \/ \E c \in Conn :
           \/ \E d \in Device : Open(c, d)
           \/ \E op \in {"message", "register"} : Receive(c, op)
           \/ Handle(c) \/ Disconnect(c) \/ Detach(c)

Spec == Init /\ [][Next]_vars

\* The store answers, handlers and detaches go on, the sweep's timer fires, and the tail
\* of synchronizations is first come, first served.
Fairness ==
    /\ WF_vars(Synchronize)
    /\ WF_vars(Consume(None))
    /\ \A c \in Conn : SF_vars(Consume(c)) /\ SF_vars(Admit(c))
    /\ \A c \in Conn : WF_vars(Handle(c)) /\ WF_vars(Detach(c))

FairSpec == Spec /\ Fairness

-----------------------------------------------------------------------------
(* Properties *)

\* A hello or frame gets a ticket only when its device was active at the version of the
\* connection when it came in: a revocation or rotation that was committed before is never
\* missed, although the authority is asked for a count and its rows are cached.
NoStaleAdmission ==
    \A c \in Conn : conn[c].pc \in {"ticket", "commit", "stored", "activated"} => conn[c].fresh

\* When a synchronization has taken in that a device is revoked, no connection of the device
\* is left and no session stays registered, not even one whose registration was committed
\* after the synchronization had listed the sessions: its handler takes it back.
RevokedLeavesNothing ==
    run.pc = "none" /\ ~blocked /\ snap # None =>
        \A d \in RevokedIn(snap.rows) \ leftover :
            /\ d \notin orphan
            /\ \A c \in Conn : conn[c].device = d =>
                   ~conn[c].live /\ (conn[c].row => HoldsSessionTail(c))

\* A connection whose device is revoked is closed, also when nothing is ever sent on it and
\* whatever fails meanwhile.
RevocationTakesEffect ==
    \A c \in Conn :
        conn[c].live /\ dev[conn[c].device].status = "revoked" ~> ~conn[c].live

\* Every hello and frame gets its answer: a synchronization waits for the handlers that hold
\* a session, handlers wait for synchronizations, and they never wait for each other.
AcquireEnds == \A c \in Conn : conn[c].pc = "sync" ~> conn[c].pc \notin {"sync", "admit"}
=============================================================================
