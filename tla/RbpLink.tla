------------------------------ MODULE RbpLink ------------------------------
(***************************************************************************)
(* One routed session end to end: the Gateway's half and the Bridge's half   *)
(* over connections that drop, with both processes crashing and restarting.  *)
(***************************************************************************)
EXTENDS GatewaySession, BridgeSession

vars == <<gatewayVars, bridgeVars, wireVars, faults>>

Init ==
    /\ \E first \in Conn : GatewayInit(first) /\ BridgeInit(first)
    /\ toGateway = [c \in Conn |-> << >>]
    /\ toBridge = [c \in Conn |-> << >>]
    /\ faults = MaxFaults

-----------------------------------------------------------------------------
(* Steps both sides take part in *)

\* Nothing on either side names the connection any more.
Fresh(c) ==
    /\ gconn[c] = "free"
    /\ c \notin {active, row.conn, row.route, bconn}
    /\ resume[c] = NoHandler
    /\ \A t \in Slot : task[t] # Idle => task[t].conn # c

\* A new connection is opened and its hello accepted.
Open(c) ==
    /\ phase = "offline"
    /\ Fresh(c)
    /\ gconn' = [gconn EXCEPT ![c] = "open"]
    /\ code' = [code EXCEPT ![c] = "transient"]
    /\ bconn' = c
    /\ phase' = "opened"
    /\ toGateway' = [toGateway EXCEPT ![c] = << >>]
    /\ toBridge' = [toBridge EXCEPT ![c] = << >>]
    /\ UNCHANGED <<row, active, task, resume, draining, begun,
                   bseq, handoff, retx, work, flight, faults>>

\* The Bridge has read what was sent and sees the close; an authorization
\* close pauses its retries.
ObserveClose ==
    /\ bconn # NoConn
    /\ gconn[bconn] \in {"closed", "detaching", "free"}
    /\ toBridge[bconn] = << >>
    /\ EndCycle(IF code[bconn] = "auth" THEN "paused" ELSE "offline")
    /\ UNCHANGED <<bseq, handoff, gatewayVars, toGateway, faults>>

\* The Gateway's socket reports that the Bridge has left.
PeerGone(c) ==
    /\ gconn[c] = "open"
    /\ bconn # c
    /\ gconn' = [gconn EXCEPT ![c] = "closed"]
    /\ toGateway' = [toGateway EXCEPT ![c] = << >>]
    /\ UNCHANGED <<row, active, code, task, resume, draining, begun,
                   bridgeVars, toBridge, faults>>

-----------------------------------------------------------------------------
Send(t) ==
    \/ Promote(t)
    \/ CancelMark(t)
    \/ CancelSettle(t)
    \/ Revalidate(t)
    \/ Transmit(t)
    \/ Complete(t)

Handle(c) ==
    \/ ReceiveResume(c)
    \/ ReplacePrior(c)
    \/ Activate(c)
    \/ RetransmitNext(c)
    \/ ReceiveResult(c)
    \/ ReceiveUpdate(c)
    \/ ReceiveHeartbeat(c)
    \/ CloseTransport(c)
    \/ DetachStart(c)
    \/ DetachEnd(c)

GatewayNext ==
    \/ \E t \in Slot : Dispatch(t) \/ Send(t) \/ RequestCancel(t)
                         \/ PromoteLost(t) \/ FailAfterStart(t)
    \/ \E c \in Conn : Handle(c)
    \/ LeaseExpire
    \/ SweepSilent
    \/ UnregisterBegin
    \/ UnregisterFinish
    \/ UnregisterTimeout
    \/ GatewayCrash

BridgeStep ==
    \/ SendResume
    \/ ReceiveResumeAck
    \/ FlushPendingRetransmit
    \/ ReceiveInvoke
    \/ \E s \in SeqNo : Journal(s) \/ Answer(s)
    \/ ReceiveHeartbeatAck

BridgeNext ==
    \/ BridgeStep
    \/ EmitUpdate
    \/ SendHeartbeat
    \/ Drop
    \/ RetryConditionChanged

Next ==
    \/ GatewayNext /\ UNCHANGED bridgeVars
    \/ BridgeNext /\ UNCHANGED gatewayVars
    \/ \E c \in Conn : Open(c) \/ PeerGone(c)
    \/ ObserveClose

Spec == Init /\ [][Next]_vars

-----------------------------------------------------------------------------
(* Safety *)

TypeOK == WireTypeOK /\ GatewayTypeOK /\ BridgeTypeOK

\* Every body a peer ever queued: what the other one took, then what is still
\* retained.
Queued(mine, other) ==
    [s \in 1 .. mine.highestTx |->
        IF s <= Len(other.accepted) THEN other.accepted[s]
        ELSE IF s \in RetainedSeqs(mine) THEN NextRetained(mine, s - 1).body
        ELSE [type |-> "lost", of |-> s]]

Channel == INSTANCE RbpChannel WITH
    st  <- [p \in {"gateway", "bridge"} |->
               IF p = "gateway" THEN row.sequence ELSE bseq],
    log <- [p \in {"gateway", "bridge"} |->
               IF p = "gateway" THEN Queued(row.sequence, bseq) ELSE Queued(bseq, row.sequence)]

\* Through drops, crashes, cancelled sends, resumes and retransmissions, the
\* durable sequence rows of the two peers only ever take steps of RbpChannel:
\* the link delivers exactly once and in order and loses nothing.
ImplementsChannel == Channel!Spec

\* A dispatch with a no-send receipt was never handed to a transport, nor is it
\* later by the send that was cancelled.  Clients are told it may be retried.
NoSendReceiptIsTrue ==
    \A s \in SeqNo : "no_send" \in row.evidence[s] => s \notin begun

\* A started lease ends only by the release of the very send that started it:
\* not by time, a restart, a resume, a cancellation or an unregister
\* (#releaseStartedEgressLease is the only writer that clears it).
StartedLeaseEndsByRelease ==
    [][row.lease.phase = "started" /\ row'.lease # row.lease =>
           /\ row'.lease = NoLease
           /\ task[row.lease.slot].stage = "sent"
           /\ task'[row.lease.slot] = Idle]_vars

\* The Gateway lets go of an invoke only when the Bridge has it in its journal:
\* an accepted invoke whose hand-off a crash interrupts is not acknowledged.
ReleasedOnlyIfJournaled == row.sequence.lastPeerAck <= Frontier

\* An invoke is answered at most once, however often it was sent, journaled
\* and recovered: no two envelopes the Bridge ever queued answer the same one.
AnsweredAtMostOnce ==
    LET sent == Queued(bseq, row.sequence)
    IN \A i, j \in DOMAIN sent :
           sent[i] = sent[j] /\ sent[i].type = "result" => i = j

\* A terminal outcome is one the Bridge reported for that invoke, and it is
\* never contradicted by a receipt that the invoke was not sent.
TerminalIsReported ==
    \A s \in SeqNo : "terminal" \in row.evidence[s] =>
        /\ s <= bseq.lastRx
        /\ "no_send" \notin row.evidence[s]
        /\ \E i \in 1 .. row.sequence.lastRx :
               row.sequence.accepted[i] = [type |-> "result", of |-> s]

\* The document route in the record is one observed on the connection the
\* session is on: no route outlives the connection it was seen on.
RouteIsOfThisConnection == row.route \in {NoConn, row.conn}

\* Once the final tombstone is committed no dispatch, resume_ack or retransmit
\* is handed to a transport any more, and the tombstone stays.
NothingSentAfterTombstone ==
    [][row.fence = "tombstoned" =>
           /\ row'.fence = "tombstoned"
           /\ \A c \in Conn : Len(toBridge'[c]) <= Len(toBridge[c])]_vars

\* A revoked session keeps the outcome of every dispatch that reached a
\* transport open: unless the Bridge reported it, it ends unresolved, never as
\* not sent.
UnregisterNeverGuesses ==
    row.fence = "tombstoned" =>
        \A s \in begun : row.evidence[s] \cap {"terminal", "unresolved"} # {}

-----------------------------------------------------------------------------
(* Liveness *)

\* What teardown and the send timeouts do with a send that cannot go on.
Unwind(t) == (RequestCancel(t) \/ FailAfterStart(t)) /\ UNCHANGED faults

\* Every promise the Gateway awaits and every task the Bridge has started goes
\* on, the Bridge reconnects, and each side notices that the other has left.
\* Clients, documents, timers and the operator owe nothing.
Fairness ==
    /\ \A t \in Slot : WF_vars((Send(t) \/ Unwind(t)) /\ UNCHANGED bridgeVars)
    /\ \A c \in Conn : WF_vars(Handle(c) /\ UNCHANGED bridgeVars)
    /\ \A c \in Conn : WF_vars(PeerGone(c))
    /\ WF_vars((SendResume \/ FlushPendingRetransmit) /\ UNCHANGED gatewayVars)
    /\ WF_vars((ReceiveResumeAck \/ ReceiveInvoke \/ ReceiveHeartbeatAck) /\ UNCHANGED gatewayVars)
    /\ \A s \in SeqNo : WF_vars((Journal(s) \/ Answer(s)) /\ UNCHANGED gatewayVars)
    /\ WF_vars(\E c \in Conn : Open(c))
    /\ WF_vars(ObserveClose)

FairSpec == Spec /\ Fairness

\* As long as no fault happens, every dispatch gets its terminal outcome, whatever
\* the order in which the answer, its acknowledgement and the end of the send come.
DispatchAnswered ==
    \A s \in SeqNo :
        row.pending = s ~> "terminal" \in row.evidence[s] \/ faults < MaxFaults

\* A Bridge that lost its connection gets the session back, unless an
\* authorization close paused it or a started lease fences the session for good.
SessionRegained ==
    phase = "offline" ~> phase \in {"steady", "paused"} \/ [](row.lease.phase = "started")

\* A cancellation that was begun is finished: by the send itself or, after a
\* crash, by the next resume.  The fence never blocks the session for good.
CancellationSettles ==
    row.fence = "cancellation_pending" ~> row.fence # "cancellation_pending"

-----------------------------------------------------------------------------
(* Statements of the repository that the code does not keep *)

\* "Pending invocations end with `addin_unreachable` only when non-execution is
\* known" (O1 section 6.1): the no-send receipt, which reports that failure,
\* belongs to an invoke the Bridge never works on.
UnreachableIsNotExecuted ==
    \A s \in SeqNo : "no_send" \in row.evidence[s] => s \notin work
=============================================================================
