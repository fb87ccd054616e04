---------------------------- MODULE BridgeSession ----------------------------
(***************************************************************************)
(* The Bridge's half of one routed session: RbpConnectionCoordinator over    *)
(* the SQLite journal store of packages/bridge.                             *)
(*                                                                         *)
(* bseq and handoff are rows of the journal and survive a restart; the rest  *)
(* belongs to the current connection cycle and ends with it.                *)
(***************************************************************************)
EXTENDS RbpWire

CONSTANT Heartbeats   \* the heartbeat timer fires in the behaviours considered

ASSUME HeartbeatsAssumption == Heartbeats \in BOOLEAN

VARIABLES bseq,     \* rbp_sequence_state and the outbox
          handoff,  \* accepted inbound sequences not yet in the journal
          bconn,    \* the connection of the current cycle, or NoConn
          phase,    \* how far the cycle has come
          retx,     \* the retransmissions queued by the resume
          work,     \* journaled invokes this cycle is executing
          flight    \* a heartbeat is waiting for its acknowledgement

bridgeVars == <<bseq, handoff, bconn, phase, retx, work, flight>>

Phase == {"offline", "paused", "opened", "resuming", "bound", "steady"}

NoRetx == [left |-> {}, ack |-> 0]

BridgeTypeOK ==
    /\ bseq \in SequenceState
    /\ handoff \subseteq SeqNo
    /\ bconn \in Conn \cup {NoConn}
    /\ phase \in Phase
    /\ retx \in [left : SUBSET Retained, ack : AckNo]
    /\ work \subseteq SeqNo
    /\ flight \in BOOLEAN

BridgeInit(first) ==
    /\ bseq = CreateSequenceState
    /\ handoff = {}
    /\ bconn = first
    /\ phase = "steady"
    /\ retx = NoRetx
    /\ work = {}
    /\ flight = FALSE

\* LastJournaledReceivedSequence: the end of the journaled prefix.
Frontier ==
    IF handoff = {} THEN bseq.lastRx
    ELSE (CHOOSE s \in handoff : \A q \in handoff : s <= q) - 1

\* The session may carry data: AddBoundSession has run on this cycle.
Bound == phase \in {"bound", "steady"}

BConsume == toBridge' = [toBridge EXCEPT ![bconn] = Tail(@)]

Emit(frames) == toGateway' = [toGateway EXCEPT ![bconn] = @ \o frames]

\* The cycle is over: its tasks are cancelled and its socket is gone.
EndCycle(next) ==
    /\ toBridge' = [toBridge EXCEPT ![bconn] = << >>]
    /\ bconn' = NoConn
    /\ phase' = next
    /\ retx' = NoRetx
    /\ work' = {}
    /\ flight' = FALSE

-----------------------------------------------------------------------------
(* Resume *)

\* The recovery plan is read, then the handoffs left by the last cycle are
\* journaled, then the resume is sent with what the plan said.
SendResume ==
    /\ phase = "opened"
    /\ Emit(<<Ctrl("session_resume", Frontier)>>)
    /\ handoff' = {}
    /\ phase' = "resuming"
    /\ UNCHANGED <<bseq, bconn, retx, work, flight, toBridge, faults>>

\* Mutant: an acknowledgement that brings nothing new is refused.
AckRefused_NoProgress(ack) == ack <= bseq.lastPeerAck \/ AckFault(bseq, ack)

\* ApplyResumeAcknowledgementAsync refuses one that goes back or too far.
AckRefused(ack) == AckStale(bseq, ack) \/ AckFault(bseq, ack)

ReceiveResumeAck ==
    /\ phase = "resuming"
    /\ Arriving(toBridge[bconn], "resume_ack")
    /\ LET ack  == Head(toBridge[bconn]).ack
           next == ApplyCumulativeAck(bseq, ack)
       IN \/ /\ AckRefused(ack)
             /\ EndCycle("offline")
             /\ UNCHANGED bseq
          \/ /\ ~AckRefused(ack)
             /\ bseq' = next
             /\ retx' = [left |-> next.outbox, ack |-> Frontier]
             /\ phase' = "bound"
             /\ BConsume
             /\ UNCHANGED <<bconn, work, flight>>
    /\ UNCHANGED <<handoff, toGateway, faults>>

\* The retained envelopes in the order FlushPendingRetransmitAsync sends them:
\* all of them, in ascending sequence order.
RetxOrders ==
    {order \in UNION {[1 .. n -> retx.left] : n \in AckNo} :
        /\ \A i, j \in DOMAIN order : i < j => order[i].seq < order[j].seq
        /\ retx.left = {order[i] : i \in DOMAIN order}}

RetxFrames(order) ==
    [i \in DOMAIN order |->
        Data(DataEnvelope(order[i].seq, order[i].body, retx.ack))]

\* It starts after the session is bound and holds the outbound gate throughout.
FlushPendingRetransmit ==
    /\ phase = "bound"
    /\ \E order \in RetxOrders : Emit(RetxFrames(order))
    /\ retx' = NoRetx
    /\ phase' = "steady"
    /\ UNCHANGED <<bseq, handoff, bconn, work, flight, toBridge, faults>>

-----------------------------------------------------------------------------
(* Inbound invokes *)

\* HandleDataEnvelopeAsync: accept durably and hand the invoke on.
ReceiveInvoke ==
    /\ bconn # NoConn
    /\ Arriving(toBridge[bconn], "data")
    /\ LET env == Head(toBridge[bconn]).env
       IN \/ /\ Bound
             /\ InboundAccepted(bseq, env)
             /\ bseq' = AcceptInboundData(bseq, env)
             /\ handoff' = handoff \cup {env.seq}
             /\ BConsume
             /\ UNCHANGED <<bconn, phase, retx, work, flight>>
          \/ /\ Bound
             /\ InboundDuplicate(bseq, env)
             /\ bseq' = ApplyCumulativeAck(bseq, env.ack)
             /\ BConsume
             /\ UNCHANGED <<handoff, bconn, phase, retx, work, flight>>
          \/ /\ ~Bound \/ InboundGap(bseq, env) \/ InboundFault(bseq, env)
             /\ EndCycle("offline")
             /\ UNCHANGED <<bseq, handoff>>
    /\ UNCHANGED <<toGateway, faults>>

\* RunJournaledInvocationWorkAsync: one task per invoke, in any order.
Journal(s) ==
    /\ Bound
    /\ s \in handoff
    /\ handoff' = handoff \ {s}
    /\ work' = work \cup {s}
    /\ UNCHANGED <<bseq, bconn, phase, retx, flight, wireVars, faults>>

\* Mutant: the frontier must be past the invoke it answers.
Answer_OffByOne(s) ==
    /\ Bound
    /\ s \in work
    /\ IF Frontier <= s
       THEN EndCycle("offline") /\ UNCHANGED <<bseq, toGateway>>
       ELSE /\ bseq' = QueueOutboundData(bseq, [type |-> "result", of |-> s])
            /\ Emit(<<Data(DataEnvelope(bseq.nextTx, [type |-> "result", of |-> s], Frontier))>>)
            /\ work' = work \ {s}
            /\ UNCHANGED <<bconn, phase, retx, flight, toBridge>>
    /\ UNCHANGED <<handoff, faults>>

\* Mutant: an answered invoke stays in the work of the cycle.
Answer_KeepsWork(s) ==
    /\ Bound
    /\ s \in work
    /\ Frontier >= s
    /\ ~RenewalRequired(bseq)
    /\ bseq' = QueueOutboundData(bseq, [type |-> "result", of |-> s])
    /\ Emit(<<Data(DataEnvelope(bseq.nextTx, [type |-> "result", of |-> s], Frontier))>>)
    /\ UNCHANGED <<handoff, bconn, phase, retx, work, flight, toBridge, faults>>

\* QueueAndSendDataAsync, under the outbound gate.
Answer(s) ==
    /\ Bound
    /\ s \in work
    /\ LET body == [type |-> "result", of |-> s]
       IN \/ /\ Frontier < s
             /\ EndCycle("offline")
             /\ UNCHANGED <<bseq, toGateway>>
          \/ /\ Frontier >= s
             /\ IF RenewalRequired(bseq)
                THEN UNCHANGED <<bseq, toGateway>>
                ELSE /\ bseq' = QueueOutboundData(bseq, body)
                     /\ Emit(<<Data(DataEnvelope(bseq.nextTx, body, Frontier))>>)
             /\ work' = work \ {s}
             /\ UNCHANGED <<bconn, phase, retx, flight, toBridge>>
    /\ UNCHANGED <<handoff, faults>>

\* TryEmitDocContextUpdateAsync: the active document changed.
EmitUpdate ==
    /\ DocContext
    /\ Bound
    /\ ~RenewalRequired(bseq)
    /\ LET body == [type |-> "update", of |-> bseq.nextTx]
       IN /\ bseq' = QueueOutboundData(bseq, body)
          /\ Emit(<<Data(DataEnvelope(bseq.nextTx, body, 0))>>)
    /\ UNCHANGED <<handoff, bconn, phase, retx, work, flight, toBridge, faults>>

-----------------------------------------------------------------------------
(* Heartbeats and the end of a cycle *)

\* Mutant: what was received is acknowledged, journaled or not.
SendHeartbeat_AcksReceived ==
    /\ Heartbeats
    /\ Bound
    /\ ~flight
    /\ Emit(<<Ctrl("heartbeat", bseq.lastRx)>>)
    /\ flight' = TRUE
    /\ UNCHANGED <<bseq, handoff, bconn, phase, retx, work, toBridge, faults>>

SendHeartbeat ==
    /\ Heartbeats
    /\ Bound
    /\ ~flight
    /\ Emit(<<Ctrl("heartbeat", Frontier)>>)
    /\ flight' = TRUE
    /\ UNCHANGED <<bseq, handoff, bconn, phase, retx, work, toBridge, faults>>

ReceiveHeartbeatAck ==
    /\ bconn # NoConn
    /\ Arriving(toBridge[bconn], "heartbeat_ack")
    /\ LET ack == Head(toBridge[bconn]).ack
       IN \/ /\ ~flight \/ AckRefused(ack)
             /\ EndCycle("offline")
             /\ UNCHANGED bseq
          \/ /\ flight /\ ~AckRefused(ack)
             /\ bseq' = ApplyCumulativeAck(bseq, ack)
             /\ flight' = FALSE
             /\ BConsume
             /\ UNCHANGED <<bconn, phase, retx, work>>
    /\ UNCHANGED <<handoff, toGateway, faults>>

\* The socket is lost, or the Bridge process dies: what only the cycle knew
\* is gone either way.
Drop ==
    /\ bconn # NoConn
    /\ Fault
    /\ EndCycle("offline")
    /\ UNCHANGED <<bseq, handoff, toGateway>>

\* NotifyRetryConditionChanged ends a pause.
RetryConditionChanged ==
    /\ phase = "paused"
    /\ phase' = "offline"
    /\ UNCHANGED <<bseq, handoff, bconn, retx, work, flight, wireVars, faults>>
=============================================================================
