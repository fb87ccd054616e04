--------------------------- MODULE GatewaySession ---------------------------
(***************************************************************************)
(* The Gateway's half of one routed session: GatewayBridgeSessionAuthority  *)
(* of packages/gateway/src/bridgeSession.ts behind the WSS adapter of       *)
(* rbpIngress.ts.                                                          *)
(*                                                                         *)
(* row is the durable session record; every action that changes it is one   *)
(* repository transaction.  Everything else dies with the process.  A task  *)
(* is one run of #sendWithDurableReservation.  Frames of a connection are   *)
(* handled one after the other, and none while its resume handler runs.     *)
(***************************************************************************)
EXTENDS RbpWire

CONSTANTS Slot,        \* bounds the sends that can be under way at once
          Unregisters  \* session_unregister is called in the behaviours considered

ASSUME UnregistersAssumption == Unregisters \in BOOLEAN

VARIABLES row,       \* the durable session record
          active,    \* connectionId of the #active entry, or NoConn
          gconn,     \* [Conn -> stage of the connection at the Gateway]
          code,      \* [Conn -> what the Bridge can read from its close code]
          task,      \* [Slot -> a send and how far it has come]
          resume,    \* [Conn -> how far the connection's resume handler is]
          draining,  \* an unregister call is waiting for the lease to drain
          begun      \* sequences a dispatch handed to a transport (history)

gatewayVars == <<row, active, gconn, code, task, resume, draining, begun>>

Op        == {"dispatch", "resume_ack", "resume_retransmit"}
Evidence  == {"accepted", "no_send", "terminal", "unresolved", "late"}
ConnStage == {"free", "open", "closing", "closed", "detaching"}

Lease   == [phase : {"reserved", "started"}, op : Op, slot : Slot, seq : AckNo,
            expired : BOOLEAN]
NoLease == [phase |-> "none"]

Row ==
    [sequence : SequenceState,
     pending  : AckNo,                       \* 0: record.pending === null
     lease    : Lease \cup {NoLease},
     fence    : {"open", "cancellation_pending", "revocation_pending", "tombstoned"},
     conn     : Conn,
     attached : BOOLEAN,                     \* sessionLifecycle.dispatchAllowed
     route    : Conn \cup {NoConn},          \* liveDocumentRoute.observedConnectionId
     evidence : [SeqNo -> SUBSET Evidence]]

Stage == {"held", "queued", "promoted", "cleared", "sent",
          "refused", "cancelling", "marked"}
Task  == [stage : Stage, op : Op, conn : Conn, frame : Frame,
          route : {"none", "live", "changed"}]
Idle  == [stage |-> "idle"]

Handler   == [stage : {"activate", "send", "next"}, left : SUBSET Retained, ack : AckNo]
NoHandler == [stage |-> "none"]

GatewayTypeOK ==
    /\ row \in Row
    /\ active \in Conn \cup {NoConn}
    /\ gconn \in [Conn -> ConnStage]
    /\ code \in [Conn -> {"transient", "auth"}]
    /\ task \in [Slot -> Task \cup {Idle}]
    /\ resume \in [Conn -> Handler \cup {NoHandler}]
    /\ draining \in BOOLEAN
    /\ begun \subseteq SeqNo

\* Registered on its first connection, nothing exchanged yet.
GatewayInit(first) ==
    /\ row = [sequence |-> CreateSequenceState, pending |-> 0, lease |-> NoLease,
              fence |-> "open", conn |-> first, attached |-> TRUE, route |-> NoConn,
              evidence |-> [s \in SeqNo |-> {}]]
    /\ active = first
    /\ gconn = [c \in Conn |-> IF c = first THEN "open" ELSE "free"]
    /\ code = [c \in Conn |-> "transient"]
    /\ task = [t \in Slot |-> Idle]
    /\ resume = [c \in Conn |-> NoHandler]
    /\ draining = FALSE
    /\ begun = {}

-----------------------------------------------------------------------------
(* Reservation of the one egress lease *)

\* A reserved lease blocks until its five seconds are over, a started one for
\* as long as it is there.
LeaseBlocks(r) ==
    \/ r.lease.phase = "started"
    \/ r.lease.phase = "reserved" /\ ~r.lease.expired

Reserved(op, t, seq) ==
    [phase |-> "reserved", op |-> op, slot |-> t, seq |-> seq, expired |-> FALSE]

\* A slot is not reused while the lease still names its last send.
FreeSlot(t) == task[t] = Idle /\ (row.lease # NoLease => row.lease.slot # t)

RouteSeen(r) == IF r.route = NoConn THEN "none" ELSE "live"

\* The adapter of a connection that is going away refuses the frame at once.
Entry(c) == IF gconn[c] = "open" THEN "queued" ELSE "refused"

NewTask(stage, op, c, frame, r) ==
    [stage |-> stage, op |-> op, conn |-> c, frame |-> frame, route |-> RouteSeen(r)]

\* The task's exact lease is still the one in the record, in this phase.
HoldsLease(t, phase) == row.lease.phase = phase /\ row.lease.slot = t

\* The route a send was reserved with is gone once another one is recorded.
RouteChanged ==
    [t \in Slot |-> IF task[t] # Idle /\ task[t].route = "live"
                    THEN [task[t] EXCEPT !.route = "changed"]
                    ELSE task[t]]

\* A handler threw: fail() claims the egress and schedules the teardown.
Closing(c, reason) ==
    /\ gconn' = IF gconn[c] = "open" THEN [gconn EXCEPT ![c] = "closing"] ELSE gconn
    /\ code'  = IF gconn[c] = "open" THEN [code EXCEPT ![c] = reason] ELSE code

-----------------------------------------------------------------------------
(* #executeDispatch: select the active connection, then reserve. *)

Dispatch(t) ==
    /\ active # NoConn
    /\ gconn[active] \in {"open", "closing", "closed"}
    /\ FreeSlot(t)
    /\ row.fence = "open"
    /\ ~LeaseBlocks(row)
    /\ row.conn = active
    /\ row.attached
    /\ DocContext => row.route = active
    /\ row.pending = 0
    /\ MayQueue(row.sequence, row.sequence.lastRx)
    /\ LET seq  == row.sequence.nextTx
           body == [type |-> "invoke", of |-> seq]
           env  == DataEnvelope(seq, body, row.sequence.lastRx)
       IN /\ row' = [row EXCEPT !.sequence = QueueOutboundData(@, body),
                                !.pending  = seq,
                                !.lease    = Reserved("dispatch", t, seq)]
          /\ task' = [task EXCEPT ![t] = NewTask(Entry(active), "dispatch", active, Data(env), row)]
    /\ UNCHANGED <<active, gconn, code, resume, draining, begun, wireVars, faults>>

-----------------------------------------------------------------------------
(* #sendWithDurableReservation, from the egress queue to the released lease *)

\* The reservation still authorizes its route: #assertDispatchReservationCurrent.
Current(t) ==
    LET c == task[t].conn
    IN /\ active = c
       /\ row.conn = c
       /\ row.attached
       /\ HoldsLease(t, "started")
       /\ task[t].route # "none" => task[t].route = "live" /\ row.route = c

\* ... or was revoked only after its bytes were handed to the transport.
RevokedAfterStart(t) ==
    LET c == task[t].conn
    IN /\ active = c
       /\ row.conn = c
       /\ row.fence = "revocation_pending"
       /\ HoldsLease(t, "started")

\* The send is over.  A failed resume send ends its handler and its connection.
Failed(t) ==
    /\ task' = [task EXCEPT ![t] = Idle]
    /\ IF task[t].op = "dispatch"
       THEN UNCHANGED <<resume, gconn, code>>
       ELSE /\ resume' = [resume EXCEPT ![task[t].conn] = NoHandler]
            /\ Closing(task[t].conn, "transient")

\* A failed resume_ack takes its own #active entry with it.
ActiveAfterFailure(t) ==
    IF task[t].op = "resume_ack" /\ active = task[t].conn THEN NoConn ELSE active

\* #promoteEgressReservation, run by the adapter when the frame's turn comes.
Promotable(t) ==
    /\ row.fence = "open"
    /\ HoldsLease(t, "reserved")
    /\ ~row.lease.expired

Promote(t) ==
    /\ task[t] # Idle
    /\ task[t].stage = "queued"
    /\ gconn[task[t].conn] = "open"
    /\ Promotable(t)
    /\ row' = [row EXCEPT !.lease.phase = "started"]
    /\ task' = [task EXCEPT ![t].stage = "promoted"]
    /\ UNCHANGED <<active, gconn, code, resume, draining, begun, wireVars, faults>>

\* PreStartCancellationCoordinator.requestCancel: the frame is refused, its
\* connection is going away, or the five-second start timer fires.
RequestCancel(t) ==
    /\ task[t] # Idle
    /\ task[t].stage = "queued"
    /\ task' = [task EXCEPT ![t].stage = "cancelling"]
    /\ FaultUnless(gconn[task[t].conn] # "open" \/ ~Promotable(t))
    /\ UNCHANGED <<row, active, gconn, code, resume, draining, begun, wireVars>>

\* A promotion already in the repository when the cancellation was requested
\* commits; its frame is never sent.
PromoteLost(t) ==
    /\ task[t] # Idle
    /\ task[t].stage = "cancelling"
    /\ Promotable(t)
    /\ row' = [row EXCEPT !.lease.phase = "started"]
    /\ UNCHANGED <<active, gconn, code, task, resume, draining, begun, wireVars, faults>>

\* Phase one, #markReservedEgressCancellationPending: fence the promotion off.
\* Only a dispatch has this phase.
CancelMark(t) ==
    /\ task[t] # Idle
    /\ task[t].stage \in {"refused", "cancelling"}
    /\ task[t].op = "dispatch"
    /\ IF /\ HoldsLease(t, "reserved")
          /\ row.pending = row.lease.seq
          /\ row.fence = "open"
       THEN /\ row' = [row EXCEPT !.fence = "cancellation_pending"]
            /\ task' = [task EXCEPT ![t].stage = "marked"]
            /\ UNCHANGED <<resume, gconn, code>>
       ELSE /\ Failed(t)
            /\ UNCHANGED row
    /\ UNCHANGED <<active, draining, begun, wireVars, faults>>

\* Mutant: the settled envelope is taken out of the outbox as well.
SettleNoSend_DropsEnvelope(r) ==
    [r EXCEPT !.pending  = 0,
              !.lease    = NoLease,
              !.fence    = "open",
              !.sequence.outbox = {e \in @ : e.seq # r.lease.seq},
              !.evidence[r.lease.seq] = (@ \ {"accepted"}) \cup {"no_send"}]

\* Phase two, #settleReservedEgressCancellation: only the pending record of
\* this very lease is cleared, and its no-send receipt written.
SettleNoSend(r) ==
    [r EXCEPT !.pending  = 0,
              !.lease    = NoLease,
              !.fence    = "open",
              !.evidence[r.lease.seq] = (@ \ {"accepted"}) \cup {"no_send"}]

CancelSettle(t) ==
    /\ task[t] # Idle
    /\ IF task[t].op = "dispatch"
       THEN /\ task[t].stage = "marked"
            /\ row' = IF HoldsLease(t, "reserved") /\ row.fence = "cancellation_pending"
                      THEN SettleNoSend(row) ELSE row
       ELSE /\ task[t].stage \in {"refused", "cancelling"}
            /\ row' = IF HoldsLease(t, "reserved") /\ row.fence = "open"
                      THEN [row EXCEPT !.lease = NoLease] ELSE row
    /\ Failed(t)
    /\ active' = ActiveAfterFailure(t)
    /\ UNCHANGED <<draining, begun, wireVars, faults>>

\* The reservation is read back once more.  What it says may be out of date
\* when the adapter goes on ...
Revalidate(t) ==
    /\ task[t] # Idle
    /\ task[t].stage = "promoted"
    /\ Current(t)
    /\ task' = [task EXCEPT ![t].stage = "cleared"]
    /\ UNCHANGED <<row, active, gconn, code, resume, draining, begun, wireVars, faults>>

\* ... with websocket.send, as long as the socket is open.
Transmit(t) ==
    /\ task[t] # Idle
    /\ task[t].stage = "cleared"
    /\ gconn[task[t].conn] \in {"open", "closing"}
    /\ toBridge' = [toBridge EXCEPT ![task[t].conn] = Append(@, task[t].frame)]
    /\ task' = [task EXCEPT ![t].stage = "sent"]
    /\ begun' = IF task[t].op = "dispatch"
                THEN begun \cup {task[t].frame.env.seq} ELSE begun
    /\ UNCHANGED <<row, active, gconn, code, resume, draining, toGateway, faults>>

\* #resume's loop over the retained envelopes.
Continue(h) == IF h.left = {} THEN NoHandler ELSE [h EXCEPT !.stage = "next"]

\* The send completed and its route is verified again: release the lease.
Complete(t) ==
    /\ task[t] # Idle
    /\ task[t].stage = "sent"
    /\ Current(t) \/ RevokedAfterStart(t)
    /\ row' = [row EXCEPT !.lease = NoLease]
    /\ IF task[t].op # "dispatch" /\ ~RevokedAfterStart(t)
       THEN /\ task' = [task EXCEPT ![t] = Idle]
            /\ resume' = [resume EXCEPT ![task[t].conn] = Continue(@)]
            /\ UNCHANGED <<gconn, code, active>>
       ELSE /\ Failed(t)
            /\ active' = IF task[t].op = "dispatch" THEN active ELSE ActiveAfterFailure(t)
    /\ UNCHANGED <<draining, begun, wireVars, faults>>

\* Mutant: a send that fails after its start gets the receipt of one that fails before.
FailAfterStart_GivesReceipt(t) ==
    /\ task[t] # Idle
    /\ task[t].stage \in {"promoted", "cleared", "sent"}
    /\ FaultUnless(gconn[task[t].conn] # "open")
    /\ Failed(t)
    /\ active' = ActiveAfterFailure(t)
    /\ row' = IF HoldsLease(t, "started") /\ task[t].op = "dispatch"
              THEN [row EXCEPT !.evidence[row.lease.seq] = @ \cup {"no_send"}] ELSE row
    /\ UNCHANGED <<draining, begun, wireVars>>

\* A started send that cannot be finished or verified keeps its lease.
FailAfterStart(t) ==
    /\ task[t] # Idle
    /\ task[t].stage \in {"promoted", "cleared", "sent"}
    /\ FaultUnless(\/ gconn[task[t].conn] # "open"
                   \/ task[t].stage = "promoted" /\ ~Current(t)
                   \/ task[t].stage = "sent" /\ ~(Current(t) \/ RevokedAfterStart(t)))
    /\ Failed(t)
    /\ active' = ActiveAfterFailure(t)
    /\ UNCHANGED <<row, draining, begun, wireVars>>

\* reserveExpiresAtMs passes.
LeaseExpire ==
    /\ row.lease.phase = "reserved"
    /\ ~row.lease.expired
    /\ row' = [row EXCEPT !.lease.expired = TRUE]
    /\ Fault
    /\ UNCHANGED <<active, gconn, code, task, resume, draining, begun, wireVars>>

-----------------------------------------------------------------------------
(* session_resume: #resume and the sends it makes *)

\* The frames of a connection are handled one at a time.
Ready(c) == gconn[c] = "open" /\ resume[c] = NoHandler

\* #withSessionAuthorization: a resume keeps the session's tail from its
\* transaction until the new connection is active.
TailFree == \A c \in Conn : resume[c].stage # "activate"

Consume(c) == toGateway' = [toGateway EXCEPT ![c] = Tail(@)]

\* The handler throws and changes nothing else.
Refuse(c, reason) ==
    /\ Consume(c)
    /\ Closing(c, reason)
    /\ UNCHANGED <<row, active, task, resume, draining, begun, toBridge, faults>>

\* Mutant: a started dispatch is taken for one that was only reserved.
Recovered_IgnoresPhase ==
    IF row.lease # NoLease /\ row.lease.op = "dispatch"
    THEN SettleNoSend(row) ELSE row

\* Mutant: a cancellation that a crash interrupted is not taken up.
Recovered_SkipsMarked ==
    IF row.lease.phase = "reserved" /\ row.lease.op = "dispatch" /\ row.fence = "open"
    THEN SettleNoSend(row) ELSE row

\* #reserveResumeAck settles what the last connection left behind: a dispatch
\* that was only reserved is proved unsent.
Recovered ==
    IF row.lease.phase = "reserved" /\ row.lease.op = "dispatch"
    THEN SettleNoSend(row) ELSE row

\* One that was started stays fenced, its outcome recorded as unresolved.
ResumeBlocked(c) ==
    /\ row.lease.phase = "started"
    /\ row.lease.op = "dispatch"
    /\ row' = IF row.pending = row.lease.seq
              THEN [row EXCEPT !.evidence[row.pending] =
                                   (@ \cap {"accepted"}) \cup {"unresolved"}]
              ELSE row
    /\ Consume(c)
    /\ Closing(c, "transient")
    /\ UNCHANGED <<active, task, resume, draining, begun, toBridge, faults>>

\* Mutant: the route seen on the last connection is kept.
Resumed_KeepsRoute(r, c, ack, t) ==
    [r EXCEPT !.conn     = c,
              !.sequence = ApplyCumulativeAck(@, ack),
              !.attached = TRUE,
              !.lease    = Reserved("resume_ack", t, 0)]

Resumed(r, c, ack, t) ==
    [r EXCEPT !.conn     = c,
              !.sequence = ApplyCumulativeAck(@, ack),
              !.attached = TRUE,
              !.route    = NoConn,
              !.lease    = Reserved("resume_ack", t, 0)]

ReceiveResume(c) ==
    /\ Ready(c)
    /\ TailFree
    /\ Arriving(toGateway[c], "session_resume")
    /\ LET ack == Head(toGateway[c]).ack
           r   == Recovered
       IN \/ row.fence = "tombstoned" /\ Refuse(c, "auth")
          \/ row.fence # "tombstoned" /\ ResumeBlocked(c)
          \/ /\ row.fence # "tombstoned"
             /\ ~(row.lease.phase = "started" /\ row.lease.op = "dispatch")
             /\ r.fence # "open" \/ LeaseBlocks(r)
             /\ Refuse(c, "auth")
          \/ /\ r.fence = "open"
             /\ ~LeaseBlocks(r)
             /\ AckFault(r.sequence, ack)
             /\ Refuse(c, "transient")
          \/ /\ r.fence = "open"
             /\ ~LeaseBlocks(r)
             /\ ~AckFault(r.sequence, ack)
             /\ \E t \in Slot :
                   LET next == Resumed(r, c, ack, t)
                       rx   == next.sequence.lastRx
                   IN /\ FreeSlot(t)
                      /\ row' = next
                      /\ task' = [task EXCEPT ![t] =
                             NewTask("held", "resume_ack", c, Ctrl("resume_ack", rx), next)]
                      /\ resume' = [resume EXCEPT ![c] =
                             [stage |-> "activate", left |-> next.sequence.outbox, ack |-> rx]]
             /\ Consume(c)
             /\ UNCHANGED <<active, gconn, code, draining, begun, toBridge, faults>>

\* #activate closes the connection the session was active on ...
ReplacePrior(c) ==
    /\ resume[c].stage = "activate"
    /\ active \notin {NoConn, c}
    /\ gconn[active] = "open"
    /\ Closing(active, "transient")
    /\ UNCHANGED <<row, active, task, resume, draining, begun, wireVars, faults>>

\* ... and goes on once that one is out of #connections; its detach may still
\* be waiting for the repository.
Activate(c) ==
    /\ resume[c].stage = "activate"
    /\ active \notin {NoConn, c} => gconn[active] \in {"detaching", "free"}
    /\ active' = c
    /\ resume' = [resume EXCEPT ![c].stage = "send"]
    /\ task' = [t \in Slot |-> IF /\ task[t] # Idle
                                  /\ task[t].stage = "held"
                                  /\ task[t].conn = c
                               THEN [task[t] EXCEPT !.stage = Entry(c)]
                               ELSE task[t]]
    /\ UNCHANGED <<row, gconn, code, draining, begun, wireVars, faults>>

\* #reserveResumeRetransmit, for the lowest of the envelopes still to go.
RetransmitNext(c) ==
    /\ resume[c].stage = "next"
    /\ TailFree
    /\ LET e       == NextRetained([outbox |-> resume[c].left], 0)
           env     == DataEnvelope(e.seq, e.body, resume[c].ack)
           blocked == \/ row.fence # "open"
                      \/ LeaseBlocks(row)
                      \/ row.conn # c
                      \/ ~row.attached
       IN \/ /\ blocked
             /\ resume' = [resume EXCEPT ![c] = NoHandler]
             /\ Closing(c, "auth")
             /\ UNCHANGED <<row, task>>
          \/ /\ ~blocked
             /\ \E t \in Slot :
                   /\ FreeSlot(t)
                   /\ row' = [row EXCEPT !.lease = Reserved("resume_retransmit", t, e.seq)]
                   /\ task' = [task EXCEPT ![t] =
                          NewTask(Entry(c), "resume_retransmit", c, Data(env), row)]
             /\ resume' = [resume EXCEPT ![c].stage = "send", ![c].left = @ \ {e}]
             /\ UNCHANGED <<gconn, code>>
    /\ UNCHANGED <<active, draining, begun, wireVars, faults>>

-----------------------------------------------------------------------------
(* Inbound data and heartbeats *)

Arrives(c, type) ==
    /\ Ready(c)
    /\ TailFree
    /\ Arriving(toGateway[c], "data")
    /\ Head(toGateway[c]).env.body.type = type

\* An accepted envelope that covers the pending dispatch proves it arrived.
Acceptance(env) == IF row.pending # 0 /\ env.ack >= row.pending THEN {"accepted"} ELSE {}

\* The answer to a dispatch: #commitTerminalWithRevocationCas.
TerminalReplay(env) ==
    /\ InboundDuplicate(row.sequence, env)
    /\ "terminal" \in row.evidence[env.body.of]

\* Mutant: the outcome is stored without the sequence it arrived under.
Committed_WithoutSequence(env) ==
    [row EXCEPT !.pending  = 0,
                !.evidence[env.body.of] = @ \cup {"terminal"} \cup Acceptance(env)]

Committed(env) ==
    [row EXCEPT !.sequence = AcceptInboundData(@, env),
                !.pending  = 0,
                !.evidence[env.body.of] = @ \cup {"terminal"} \cup Acceptance(env)]

ReceiveResult(c) ==
    /\ Arrives(c, "result")
    /\ LET env   == Head(toGateway[c]).env
           bound == active = c
           exact == bound /\ row.pending = env.body.of /\ row.conn = c
           took  == exact /\ row.fence = "open" /\ InboundAccepted(row.sequence, env)
           late  == exact /\ row.fence = "revocation_pending"
           again == bound /\ row.pending = 0 /\ TerminalReplay(env)
       IN \/ bound /\ row.pending # 0 /\ ~exact /\ Refuse(c, "transient")
          \/ /\ ~bound \/ row.pending = 0 \/ exact
             /\ ~(took \/ late \/ again)
             /\ Refuse(c, "auth")
          \/ /\ took \/ late \/ again
             /\ row' = IF took THEN Committed(env)
                       ELSE IF late THEN [row EXCEPT !.evidence[env.body.of] = @ \cup {"late"}]
                       ELSE row
             /\ Consume(c)
             /\ UNCHANGED <<active, gconn, code, task, resume, draining, begun, toBridge, faults>>

\* doc_context_update: #acceptData.  The route it carries is bound to the
\* connection it was observed on, or says that no document is open.
ReceiveUpdate(c) ==
    /\ Arrives(c, "update")
    /\ LET env  == Head(toGateway[c]).env
           took == row.fence = "open" /\ InboundAccepted(row.sequence, env)
           dup  == row.fence = "open" /\ InboundDuplicate(row.sequence, env)
       IN \/ active # c /\ Refuse(c, "auth")
          \/ active = c /\ ~(took \/ dup) /\ Refuse(c, "transient")
          \/ /\ active = c
             /\ \/ /\ took
                   /\ \E route \in {c, NoConn} :
                         row' = [row EXCEPT
                                   !.sequence = AcceptInboundData(@, env),
                                   !.route    = route,
                                   !.evidence = [q \in SeqNo |->
                                       @[q] \cup IF q = row.pending THEN Acceptance(env) ELSE {}]]
                   /\ task' = RouteChanged
                \/ /\ dup
                   /\ row' = [row EXCEPT !.sequence = ApplyCumulativeAck(@, env.ack)]
                   /\ UNCHANGED task
             /\ Consume(c)
             /\ UNCHANGED <<active, gconn, code, resume, draining, begun, toBridge, faults>>

ReceiveHeartbeat(c) ==
    /\ Ready(c)
    /\ TailFree
    /\ Arriving(toGateway[c], "heartbeat")
    /\ LET ack   == Head(toGateway[c]).ack
           fault == row.fence # "open" \/ AckFault(row.sequence, ack)
       IN \/ active # c /\ Refuse(c, "auth")
          \/ active = c /\ fault /\ Refuse(c, "transient")
          \/ /\ active = c
             /\ ~fault
             /\ row' = [row EXCEPT !.sequence = ApplyCumulativeAck(@, ack)]
             /\ toBridge' = [toBridge EXCEPT ![c] =
                                Append(@, Ctrl("heartbeat_ack", row.sequence.lastRx))]
             /\ Consume(c)
             /\ UNCHANGED <<active, gconn, code, task, resume, draining, begun, faults>>

-----------------------------------------------------------------------------
(* Teardown, unregister and restart *)

\* finalizeTransportOnce: nothing more is read or written.
CloseTransport(c) ==
    /\ gconn[c] = "closing"
    /\ gconn' = [gconn EXCEPT ![c] = "closed"]
    /\ toGateway' = [toGateway EXCEPT ![c] = << >>]
    /\ UNCHANGED <<row, active, code, task, resume, draining, begun, toBridge, faults>>

\* detach: out of #connections, then mark the session lost if it is still
\* this connection's ...
DetachStart(c) ==
    /\ gconn[c] = "closed"
    /\ gconn' = [gconn EXCEPT ![c] = IF active = c THEN "detaching" ELSE "free"]
    /\ row' = IF active = c /\ row.conn = c /\ row.fence = "open"
              THEN [row EXCEPT !.attached = FALSE] ELSE row
    /\ UNCHANGED <<active, code, task, resume, draining, begun, wireVars, faults>>

\* ... and, that stored, delete the session's #active entry, whichever it is.
DetachEnd(c) ==
    /\ gconn[c] = "detaching"
    /\ gconn' = [gconn EXCEPT ![c] = "free"]
    /\ active' = NoConn
    /\ UNCHANGED <<row, code, task, resume, draining, begun, wireVars, faults>>

\* sweepLiveness: 65 seconds of silence on the active connection.
SweepSilent ==
    /\ active # NoConn
    /\ gconn[active] \in {"open", "closing", "closed"}
    /\ Fault
    /\ active' = NoConn
    /\ UNCHANGED <<row, gconn, code, task, resume, draining, begun, wireVars>>

\* #unregisterNow, phase one.  A call after one whose drain timed out finds
\* the revocation already there.
Revoked(r) ==
    [r EXCEPT !.fence    = "revocation_pending",
              !.attached = FALSE,
              !.lease    = IF r.lease.phase = "started" THEN r.lease ELSE NoLease]

UnregisterBegin ==
    /\ Unregisters
    /\ ~draining
    /\ row.fence # "tombstoned"
    /\ row' = IF row.fence = "revocation_pending" THEN row ELSE Revoked(Recovered)
    /\ draining' = TRUE
    /\ UNCHANGED <<active, gconn, code, task, resume, begun, wireVars, faults>>

\* Mutant: the tombstone does not wait for a started send.
UnregisterFinish_NoDrain ==
    /\ draining
    /\ row' = [row EXCEPT !.fence = "tombstoned", !.pending = 0, !.lease = NoLease]
    /\ active' = NoConn
    /\ draining' = FALSE
    /\ UNCHANGED <<gconn, code, task, resume, begun, wireVars, faults>>

\* Mutant: the pending dispatch is cleared without a trace.
UnregisterFinish_ForgetsPending ==
    /\ draining
    /\ row.lease = NoLease
    /\ row' = [row EXCEPT !.fence = "tombstoned", !.pending = 0]
    /\ active' = NoConn
    /\ draining' = FALSE
    /\ UNCHANGED <<gconn, code, task, resume, begun, wireVars, faults>>

\* The lease has drained: what is still pending stays unresolved for good.
UnregisterFinish ==
    /\ draining
    /\ row.lease = NoLease
    /\ row' = [row EXCEPT !.fence    = "tombstoned",
                          !.pending  = 0,
                          !.evidence = [q \in SeqNo |->
                              IF q = row.pending
                              THEN (@[q] \cap {"accepted", "late"}) \cup {"unresolved"}
                              ELSE @[q]]]
    /\ active' = NoConn
    /\ draining' = FALSE
    /\ UNCHANGED <<gconn, code, task, resume, begun, wireVars, faults>>

UnregisterTimeout ==
    /\ draining
    /\ row.lease # NoLease
    /\ draining' = FALSE
    /\ Fault
    /\ UNCHANGED <<row, active, gconn, code, task, resume, begun, wireVars>>

\* The process dies; the record stays.
GatewayCrash ==
    /\ Fault
    /\ active' = NoConn
    /\ gconn' = [c \in Conn |-> "free"]
    /\ code' = [c \in Conn |-> "transient"]
    /\ task' = [t \in Slot |-> Idle]
    /\ resume' = [c \in Conn |-> NoHandler]
    /\ draining' = FALSE
    /\ toGateway' = [c \in Conn |-> << >>]
    /\ UNCHANGED <<row, begun, toBridge>>
=============================================================================
