---------------------------- MODULE RbpSequence ----------------------------
(***************************************************************************)
(* The per-session sequence authority of RBP/1: the pure reducers of        *)
(* packages/protocol/src/sequenceState.ts, which the Gateway runs, and of   *)
(* Gateway/Protocol/RbpSequenceReducer.cs, the Bridge's copy of them.       *)
(*                                                                         *)
(* A data envelope is [seq, body, ack].  Its body stands for every field    *)
(* the immutable digest covers (id, type, payload, version); ack is the     *)
(* piggybacked cumulative acknowledgement, which a retransmission refreshes.*)
(***************************************************************************)
EXTENDS Integers, Sequences

CONSTANTS MaxSeq,   \* RBP_MAX_SAFE_SEQUENCE, the last usable sequence number
          Body      \* the immutable identities a data envelope can have

ASSUME MaxSeqAssumption == MaxSeq \in Nat \ {0}

SeqNo == 1 .. MaxSeq
AckNo == 0 .. MaxSeq

\* nextTxSeq === null: the session has used its last transmit sequence.
NoSeq == 0

Retained == [seq : SeqNo, body : Body]

Envelope == [seq : SeqNo, body : Body, ack : AckNo]

SequenceState ==
    [nextTx : AckNo, highestTx : AckNo, lastRx : AckNo, lastPeerAck : AckNo,
     outbox : SUBSET Retained, accepted : Seq(Body)]

CreateSequenceState ==
    [nextTx |-> 1, highestTx |-> 0, lastRx |-> 0, lastPeerAck |-> 0,
     outbox |-> {}, accepted |-> << >>]

-----------------------------------------------------------------------------
(* Sending *)

RenewalRequired(st) == st.nextTx = NoSeq

\* sequenceRenewalStatus: a spent rsid is replaced only once it has drained.
ReadyForNewRsid(st) == RenewalRequired(st) /\ st.outbox = {}

\* queueOutboundData refuses an acknowledgement of what was not received.
MayQueue(st, ack) == ~RenewalRequired(st) /\ ack <= st.lastRx

\* Mutant: the cursor wraps to 1 after the last safe sequence.
QueueOutboundData_Wraps(st, body) ==
    [st EXCEPT !.nextTx = IF @ = MaxSeq THEN 1 ELSE @ + 1,
               !.highestTx = st.nextTx,
               !.outbox = @ \cup {[seq |-> st.nextTx, body |-> body]}]

\* The state after queueOutboundData answers "queued".
QueueOutboundData(st, body) ==
    [st EXCEPT !.nextTx = IF @ = MaxSeq THEN NoSeq ELSE @ + 1,
               !.highestTx = st.nextTx,
               !.outbox = @ \cup {[seq |-> st.nextTx, body |-> body]}]

\* The envelope queueOutboundData returns, and the one retransmitOutbox makes
\* of a retained envelope when it refreshes its acknowledgement.
DataEnvelope(seq, body, ack) == [seq |-> seq, body |-> body, ack |-> ack]

-----------------------------------------------------------------------------
(* Acknowledgement *)

AckFault(st, ack)    == ack \notin 0 .. st.highestTx
AckStale(st, ack)    == ack < st.lastPeerAck
AckAdvances(st, ack) == ack \in st.lastPeerAck + 1 .. st.highestTx

\* Mutant: the first unacknowledged envelope is released too.
ApplyCumulativeAck_OffByOne(st, ack) ==
    IF AckAdvances(st, ack)
    THEN [st EXCEPT !.lastPeerAck = ack,
                    !.outbox = {e \in @ : e.seq > ack + 1}]
    ELSE st

ApplyCumulativeAck(st, ack) ==
    IF AckAdvances(st, ack)
    THEN [st EXCEPT !.lastPeerAck = ack,
                    !.outbox = {e \in @ : e.seq > ack}]
    ELSE st

-----------------------------------------------------------------------------
(* Receiving: the results of acceptInboundData.  Anything else (a bad        *)
(* acknowledgement, a sequence out of range, a known sequence with another   *)
(* identity) is a protocol fault.                                            *)

InboundDuplicate(st, env) ==
    /\ ~AckFault(st, env.ack)
    /\ env.seq \in 1 .. st.lastRx
    /\ st.accepted[env.seq] = env.body

\* Mutant: a forward gap is guessed across.
InboundAccepted_AcrossGap(st, env) ==
    /\ ~AckFault(st, env.ack)
    /\ env.seq \in SeqNo
    /\ env.seq > st.lastRx

InboundAccepted(st, env) ==
    /\ ~AckFault(st, env.ack)
    /\ env.seq \in SeqNo
    /\ env.seq = st.lastRx + 1

InboundGap(st, env) ==
    /\ ~AckFault(st, env.ack)
    /\ env.seq \in SeqNo
    /\ env.seq > st.lastRx + 1

InboundFault(st, env) ==
    ~(InboundDuplicate(st, env) \/ InboundAccepted(st, env) \/ InboundGap(st, env))

\* The state after "accepted"; after "duplicate" it is ApplyCumulativeAck's.
AcceptInboundData(st, env) ==
    [ApplyCumulativeAck(st, env.ack) EXCEPT
        !.lastRx = env.seq,
        !.accepted = Append(@, env.body)]

-----------------------------------------------------------------------------
(* Retransmission, in ascending sequence order *)

RetainedSeqs(st) == {e.seq : e \in st.outbox}

\* The retained envelope with the smallest sequence number above floor.
NextRetained(st, floor) ==
    CHOOSE e \in st.outbox :
        /\ e.seq > floor
        /\ \A f \in st.outbox : f.seq > floor => e.seq <= f.seq
=============================================================================
