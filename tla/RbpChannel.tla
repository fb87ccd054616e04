----------------------------- MODULE RbpChannel -----------------------------
(***************************************************************************)
(* What one routed session (rsid) of RBP/1 promises, whatever carries it:   *)
(* two peers, the Gateway and the Bridge, each holding one durable sequence *)
(* state, and a carrier that may lose, delay, duplicate and reorder.        *)
(*                                                                         *)
(* The carrier has no variable of its own.  Whatever a peer queued it may   *)
(* have sent any number of times, with any acknowledgement it was entitled  *)
(* to give by then, so everything of that shape may arrive now.             *)
(***************************************************************************)
EXTENDS RbpSequence

VARIABLES st,    \* st[p]: the sequence state peer p holds durably
          log    \* log[p]: every body p ever queued, in order (history)

chanVars == <<st, log>>

Peer == {"gateway", "bridge"}

Other(p) == IF p = "gateway" THEN "bridge" ELSE "gateway"

Init ==
    /\ st  = [p \in Peer |-> CreateSequenceState]
    /\ log = [p \in Peer |-> << >>]

\* What q may have on the carrier: a queued body under the sequence it was
\* queued with, and an acknowledgement of something q has received.
InFlight(q) ==
    {DataEnvelope(s, log[q][s], a) :
        s \in 1 .. Len(log[q]), a \in 0 .. st[q].lastRx}

Queue(p) ==
    \E body \in Body :
        /\ MayQueue(st[p], st[p].lastRx)
        /\ st'  = [st EXCEPT ![p] = QueueOutboundData(@, body)]
        /\ log' = [log EXCEPT ![p] = Append(@, body)]

\* An acknowledgement alone: session_resume, resume_ack, heartbeat,
\* heartbeat_ack.  A fault or a stale value changes nothing.
ReceiveAck(p) ==
    \E ack \in 0 .. st[Other(p)].lastRx :
        /\ st' = [st EXCEPT ![p] = ApplyCumulativeAck(@, ack)]
        /\ UNCHANGED log

ReceiveData(p) ==
    \E env \in InFlight(Other(p)) :
        /\ \/ /\ InboundAccepted(st[p], env)
              /\ st' = [st EXCEPT ![p] = AcceptInboundData(@, env)]
           \/ /\ InboundDuplicate(st[p], env)
              /\ st' = [st EXCEPT ![p] = ApplyCumulativeAck(@, env.ack)]
        /\ UNCHANGED log

Next == \E p \in Peer : Queue(p) \/ ReceiveAck(p) \/ ReceiveData(p)

Spec == Init /\ [][Next]_chanVars

-----------------------------------------------------------------------------
TypeOK ==
    /\ st \in [Peer -> SequenceState]
    /\ log \in [Peer -> Seq(Body)]

\* Each peer has accepted exactly a prefix of what the other queued: no body
\* is skipped, reordered, accepted twice or made up (O1 section 5.2).
InOrderExactlyOnce ==
    \A p \in Peer :
        /\ Len(st[p].accepted) = st[p].lastRx
        /\ st[p].lastRx <= Len(log[Other(p)])
        /\ \A s \in 1 .. st[p].lastRx : st[p].accepted[s] = log[Other(p)][s]

\* Whatever the other peer has not accepted is still retained, with the body
\* it was queued with: an acknowledgement never outruns durable acceptance.
NothingLost ==
    \A p \in Peer : \A s \in 1 .. Len(log[p]) :
        s > st[Other(p)].lastRx => [seq |-> s, body |-> log[p][s]] \in st[p].outbox

\* No envelope either peer could have sent is a protocol fault to the other:
\* between correct peers only a forward gap can refuse an envelope.
NoProtocolFault ==
    \A p \in Peer : \A env \in InFlight(Other(p)) : ~InboundFault(st[p], env)

\* The sequence of a queued envelope is never reused, and the last one is
\* RBP_MAX_SAFE_SEQUENCE: the transmit cursor never wraps to an earlier value.
CursorNeverReused ==
    \A p \in Peer :
        /\ st[p].highestTx = Len(log[p])
        /\ st[p].nextTx = IF Len(log[p]) = MaxSeq THEN NoSeq ELSE Len(log[p]) + 1

\* Cumulative progress is never taken back by a late or duplicated message, and
\* no body that was accepted is replaced by another.
NeverRegresses ==
    [][\A p \in Peer :
          /\ st'[p].lastRx >= st[p].lastRx
          /\ st'[p].lastPeerAck >= st[p].lastPeerAck
          /\ st'[p].highestTx >= st[p].highestTx
          /\ \A s \in 1 .. st[p].lastRx : st'[p].accepted[s] = st[p].accepted[s]]_chanVars
=============================================================================
