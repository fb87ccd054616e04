-------------------------- MODULE RbpChannelProofs --------------------------
(***************************************************************************)
(* The promises of RbpChannel, for every MaxSeq and every set of bodies.    *)
(***************************************************************************)
EXTENDS RbpChannel, TLAPS

\* A peer's transmit side, in terms of what it has queued.
Transmit(p) ==
    /\ Len(log[p]) <= MaxSeq
    /\ st[p].highestTx = Len(log[p])
    /\ st[p].nextTx = IF Len(log[p]) = MaxSeq THEN NoSeq ELSE Len(log[p]) + 1
    /\ \A s \in 1 .. Len(log[p]) :
          s > st[p].lastPeerAck => [seq |-> s, body |-> log[p][s]] \in st[p].outbox

\* A peer's receive side, in terms of what the other has queued.
Receive(p) ==
    /\ Len(st[p].accepted) = st[p].lastRx
    /\ st[p].lastRx <= Len(log[Other(p)])
    /\ \A s \in 1 .. st[p].lastRx : st[p].accepted[s] = log[Other(p)][s]

\* An acknowledgement never outruns what the other peer accepted.
Acked(p) == st[p].lastPeerAck <= st[Other(p)].lastRx

\* The inductive invariant: NothingLost alone is not inductive, because it
\* does not say that everything below the acknowledged frontier was accepted.
IInv ==
    /\ TypeOK
    /\ \A p \in Peer : Transmit(p) /\ Receive(p) /\ Acked(p)

-----------------------------------------------------------------------------
\* Other is an involution without fixed point on the two peers.
LEMMA OtherPeer ==
    ASSUME NEW p \in Peer
    PROVE  Other(p) \in Peer /\ Other(p) # p /\ Other(Other(p)) = p
BY DEF Other, Peer

\* A peer different from p is the other peer.
LEMMA TwoPeers ==
    ASSUME NEW p \in Peer, NEW q \in Peer, q # p
    PROVE  q = Other(p) /\ p = Other(q)
BY DEF Other, Peer

\* queueOutboundData keeps the state well-typed and leaves the receive side
\* and the acknowledged frontier alone.
LEMMA QueueFacts ==
    ASSUME NEW s \in SequenceState, NEW body \in Body, s.nextTx # NoSeq
    PROVE  /\ QueueOutboundData(s, body) \in SequenceState
           /\ QueueOutboundData(s, body).nextTx =
                 IF s.nextTx = MaxSeq THEN NoSeq ELSE s.nextTx + 1
           /\ QueueOutboundData(s, body).highestTx = s.nextTx
           /\ QueueOutboundData(s, body).lastRx = s.lastRx
           /\ QueueOutboundData(s, body).lastPeerAck = s.lastPeerAck
           /\ QueueOutboundData(s, body).accepted = s.accepted
           /\ QueueOutboundData(s, body).outbox =
                 s.outbox \cup {[seq |-> s.nextTx, body |-> body]}
<1> DEFINE next == IF s.nextTx = MaxSeq THEN NoSeq ELSE s.nextTx + 1
           kept == s.outbox \cup {[seq |-> s.nextTx, body |-> body]}
<1>1. next \in AckNo /\ s.nextTx \in SeqNo
  BY MaxSeqAssumption DEF SequenceState, SeqNo, AckNo, NoSeq
<1>2. [seq |-> s.nextTx, body |-> body] \in Retained
  BY <1>1 DEF Retained
<1>3. kept \in SUBSET Retained
  BY <1>2 DEF SequenceState
<1>4. QueueOutboundData(s, body)
        = [s EXCEPT !.nextTx = next, !.highestTx = s.nextTx, !.outbox = kept]
  BY DEF QueueOutboundData
<1> HIDE DEF next, kept
<1>5. QueueOutboundData(s, body)
        = [nextTx |-> next, highestTx |-> s.nextTx, lastRx |-> s.lastRx,
           lastPeerAck |-> s.lastPeerAck, outbox |-> kept, accepted |-> s.accepted]
  BY <1>4 DEF SequenceState
<1>6. QueueOutboundData(s, body) \in SequenceState
  BY <1>1, <1>3, <1>5 DEF SequenceState
<1> QED
  BY <1>5, <1>6 DEF next, kept

\* applyCumulativeAck keeps the state well-typed, raises the acknowledged
\* frontier at most to ack, and drops only what the frontier covers.
LEMMA AckFacts ==
    ASSUME NEW s \in SequenceState, NEW ack \in Nat
    PROVE  /\ ApplyCumulativeAck(s, ack) \in SequenceState
           /\ ApplyCumulativeAck(s, ack).nextTx = s.nextTx
           /\ ApplyCumulativeAck(s, ack).highestTx = s.highestTx
           /\ ApplyCumulativeAck(s, ack).lastRx = s.lastRx
           /\ ApplyCumulativeAck(s, ack).accepted = s.accepted
           /\ ApplyCumulativeAck(s, ack).lastPeerAck >= s.lastPeerAck
           /\ \/ ApplyCumulativeAck(s, ack).lastPeerAck = s.lastPeerAck
              \/ ApplyCumulativeAck(s, ack).lastPeerAck = ack
           /\ \A e \in s.outbox :
                 e.seq > ApplyCumulativeAck(s, ack).lastPeerAck
                    => e \in ApplyCumulativeAck(s, ack).outbox
<1> DEFINE kept == {e \in s.outbox : e.seq > ack}
<1>1. kept \in SUBSET Retained
  BY DEF SequenceState
<1>2. \A e \in s.outbox : e.seq > ack => e \in kept
  OBVIOUS
<1>3. CASE AckAdvances(s, ack)
  <2>1. ApplyCumulativeAck(s, ack) = [s EXCEPT !.lastPeerAck = ack, !.outbox = kept]
    BY <1>3 DEF ApplyCumulativeAck
  <2>2. ack \in AckNo /\ ack >= s.lastPeerAck
    BY <1>3, MaxSeqAssumption DEF AckAdvances, SequenceState, AckNo
  <2> HIDE DEF kept
  <2>3. ApplyCumulativeAck(s, ack)
          = [nextTx |-> s.nextTx, highestTx |-> s.highestTx, lastRx |-> s.lastRx,
             lastPeerAck |-> ack, outbox |-> kept, accepted |-> s.accepted]
    BY <2>1 DEF SequenceState
  <2>4. ApplyCumulativeAck(s, ack) \in SequenceState
    BY <1>1, <2>2, <2>3 DEF SequenceState
  <2> QED
    BY <1>2, <2>2, <2>3, <2>4
<1>4. CASE ~AckAdvances(s, ack)
  BY <1>4, MaxSeqAssumption DEF ApplyCumulativeAck, SequenceState, AckNo
<1> QED
  BY <1>3, <1>4

\* acceptInboundData, when it accepts, is the acknowledgement followed by one
\* step of the receive cursor.
LEMMA AcceptFacts ==
    ASSUME NEW s \in SequenceState, NEW env \in Envelope
    PROVE  LET a == ApplyCumulativeAck(s, env.ack)
               r == AcceptInboundData(s, env)
           IN  /\ r \in SequenceState
               /\ r.nextTx = a.nextTx /\ r.highestTx = a.highestTx
               /\ r.lastPeerAck = a.lastPeerAck /\ r.outbox = a.outbox
               /\ r.lastRx = env.seq
               /\ r.accepted = Append(s.accepted, env.body)
<1>1. env.ack \in Nat /\ env.seq \in AckNo /\ env.body \in Body
  BY MaxSeqAssumption DEF Envelope, SeqNo, AckNo
<1>2. /\ ApplyCumulativeAck(s, env.ack) \in SequenceState
      /\ ApplyCumulativeAck(s, env.ack).accepted = s.accepted
  BY <1>1, AckFacts
<1> DEFINE a == ApplyCumulativeAck(s, env.ack)
           got == Append(s.accepted, env.body)
<1>3. got \in Seq(Body)
  BY <1>1 DEF SequenceState
<1>4. AcceptInboundData(s, env) = [a EXCEPT !.lastRx = env.seq, !.accepted = got]
  BY <1>2 DEF AcceptInboundData
<1>5. a \in SequenceState
  BY <1>2
<1> HIDE DEF a, got
<1>6. AcceptInboundData(s, env)
        = [nextTx |-> a.nextTx, highestTx |-> a.highestTx, lastRx |-> env.seq,
           lastPeerAck |-> a.lastPeerAck, outbox |-> a.outbox, accepted |-> got]
  BY <1>4, <1>5 DEF SequenceState
<1>7. AcceptInboundData(s, env) \in SequenceState
  BY <1>1, <1>3, <1>5, <1>6 DEF SequenceState
<1> QED
  BY <1>6, <1>7 DEF a, got

-----------------------------------------------------------------------------
\* Under the invariant, an envelope in flight is well-typed, carries the body
\* queued under its sequence, and acknowledges only what its sender accepted.
LEMMA InFlightFacts ==
    ASSUME IInv, NEW q \in Peer, NEW env \in InFlight(q)
    PROVE  /\ env \in Envelope
           /\ env.seq \in 1 .. Len(log[q])
           /\ env.body = log[q][env.seq]
           /\ env.ack \in 0 .. st[q].lastRx
<1>1. PICK s \in 1 .. Len(log[q]), a \in 0 .. st[q].lastRx :
         env = [seq |-> s, body |-> log[q][s], ack |-> a]
  BY DEF InFlight, DataEnvelope
<1>2. Len(log[q]) <= MaxSeq /\ log[q] \in Seq(Body) /\ st[q].lastRx \in AckNo
  BY DEF IInv, Transmit, TypeOK, SequenceState
<1>3. s \in SeqNo /\ a \in AckNo /\ log[q][s] \in Body
  BY <1>2, MaxSeqAssumption DEF SeqNo, AckNo
<1> QED
  BY <1>1, <1>3 DEF Envelope

\* Applying an acknowledgement the other peer was entitled to give keeps the
\* acknowledged frontier below what it accepted and everything above retained.
LEMMA AckPreserves ==
    ASSUME IInv, NEW p \in Peer, NEW ack \in 0 .. st[Other(p)].lastRx
    PROVE  LET a == ApplyCumulativeAck(st[p], ack)
           IN  /\ a \in SequenceState
               /\ a.nextTx = st[p].nextTx /\ a.highestTx = st[p].highestTx
               /\ a.lastRx = st[p].lastRx /\ a.accepted = st[p].accepted
               /\ a.lastPeerAck <= st[Other(p)].lastRx
               /\ \A s \in 1 .. Len(log[p]) : s > a.lastPeerAck
                     => [seq |-> s, body |-> log[p][s]] \in a.outbox
<1>1. Other(p) \in Peer
  BY OtherPeer
<1>2. /\ st[p] \in SequenceState /\ log[p] \in Seq(Body)
      /\ st[Other(p)].lastRx \in Nat /\ st[p].lastPeerAck \in Nat
  BY <1>1, MaxSeqAssumption DEF IInv, TypeOK, SequenceState, AckNo
<1>3. ack \in Nat /\ ack <= st[Other(p)].lastRx
  BY <1>2
<1> DEFINE a == ApplyCumulativeAck(st[p], ack)
<1>4. /\ a \in SequenceState
      /\ a.nextTx = st[p].nextTx /\ a.highestTx = st[p].highestTx
      /\ a.lastRx = st[p].lastRx /\ a.accepted = st[p].accepted
      /\ a.lastPeerAck >= st[p].lastPeerAck
      /\ a.lastPeerAck = st[p].lastPeerAck \/ a.lastPeerAck = ack
      /\ \A e \in st[p].outbox : e.seq > a.lastPeerAck => e \in a.outbox
  BY <1>2, <1>3, AckFacts
<1> HIDE DEF a
<1>5. a.lastPeerAck <= st[Other(p)].lastRx
  BY <1>3, <1>4 DEF IInv, Acked
<1>6. ASSUME NEW s \in 1 .. Len(log[p]), s > a.lastPeerAck
      PROVE  [seq |-> s, body |-> log[p][s]] \in a.outbox
  <2>1. a.lastPeerAck \in Nat
    BY <1>4, MaxSeqAssumption DEF SequenceState, AckNo
  <2>2. s > st[p].lastPeerAck
    BY <1>2, <1>4, <1>6, <2>1
  <2>3. [seq |-> s, body |-> log[p][s]] \in st[p].outbox
    BY <2>2 DEF IInv, Transmit
  <2> QED
    BY <1>4, <1>6, <2>3
<1> QED
  BY <1>4, <1>5, <1>6 DEF a

\* Init establishes the invariant.
LEMMA InitInv == Init => IInv
<1> SUFFICES ASSUME Init PROVE IInv
  OBVIOUS
<1>1. CreateSequenceState \in SequenceState
  <2>1. 0 \in AckNo /\ 1 \in AckNo /\ << >> \in Seq(Body)
    BY MaxSeqAssumption DEF AckNo
  <2> QED
    BY <2>1 DEF CreateSequenceState, SequenceState
<1>2. TypeOK
  BY <1>1 DEF Init, TypeOK
<1>3. ASSUME NEW p \in Peer PROVE Transmit(p) /\ Receive(p) /\ Acked(p)
  <2>1. /\ st[p] = CreateSequenceState /\ st[Other(p)] = CreateSequenceState
        /\ log[p] = << >> /\ log[Other(p)] = << >>
    BY OtherPeer DEF Init
  <2> QED
    BY <2>1, MaxSeqAssumption
    DEF Transmit, Receive, Acked, CreateSequenceState, NoSeq
<1> QED
  BY <1>2, <1>3 DEF IInv

\* Every step of either peer preserves the invariant.
LEMMA NextInv == IInv /\ [Next]_chanVars => IInv'
<1> SUFFICES ASSUME IInv, [Next]_chanVars PROVE IInv'
  OBVIOUS
<1>1. ASSUME NEW p \in Peer, Queue(p) PROVE IInv'
  <2> DEFINE q == Other(p)
  <2>0. q \in Peer /\ q # p /\ Other(q) = p /\ \A r \in Peer : r # p => r = q
    BY OtherPeer, TwoPeers
  <2>1. PICK body \in Body :
          /\ st[p].nextTx # NoSeq
          /\ st' = [st EXCEPT ![p] = QueueOutboundData(st[p], body)]
          /\ log' = [log EXCEPT ![p] = Append(log[p], body)]
    BY <1>1 DEF Queue, MayQueue, RenewalRequired
  <2>2. st[p] \in SequenceState /\ log[p] \in Seq(Body) /\ log[q] \in Seq(Body)
        /\ st[q] \in SequenceState
    BY <2>0 DEF IInv, TypeOK
  <2>3. st'[p] = QueueOutboundData(st[p], body) /\ log'[p] = Append(log[p], body)
        /\ st'[q] = st[q] /\ log'[q] = log[q]
    BY <2>0, <2>1 DEF IInv, TypeOK
  <2>4. /\ st'[p] \in SequenceState
        /\ st'[p].nextTx = IF st[p].nextTx = MaxSeq THEN NoSeq ELSE st[p].nextTx + 1
        /\ st'[p].highestTx = st[p].nextTx
        /\ st'[p].lastRx = st[p].lastRx
        /\ st'[p].lastPeerAck = st[p].lastPeerAck
        /\ st'[p].accepted = st[p].accepted
        /\ st'[p].outbox = st[p].outbox \cup {[seq |-> st[p].nextTx, body |-> body]}
    BY <2>1, <2>2, <2>3, QueueFacts
  <2>5. TypeOK'
    <3>1. Append(log[p], body) \in Seq(Body)
      BY <2>2
    <3> QED
      BY <2>1, <2>3, <2>4, <3>1 DEF IInv, TypeOK
  <2>6. st[p].nextTx = Len(log[p]) + 1 /\ Len(log[p]) < MaxSeq
    BY <2>1, <2>2, MaxSeqAssumption DEF IInv, Transmit
  <2>7. Len(log'[p]) = Len(log[p]) + 1 /\ log'[p][Len(log[p]) + 1] = body
        /\ \A s \in 1 .. Len(log[p]) : log'[p][s] = log[p][s]
    BY <2>2, <2>3
  <2>8. Transmit(p)'
    <3>1. ASSUME NEW s \in 1 .. Len(log'[p]), s > st'[p].lastPeerAck
          PROVE  [seq |-> s, body |-> log'[p][s]] \in st'[p].outbox
      <4>1. CASE s = Len(log[p]) + 1
        BY <4>1, <2>4, <2>6, <2>7
      <4>2. CASE s # Len(log[p]) + 1
        <5>1. s \in 1 .. Len(log[p])
          BY <4>2, <2>2, <2>7
        <5> QED
          BY <5>1, <3>1, <2>4, <2>7 DEF IInv, Transmit
      <4> QED
        BY <4>1, <4>2
    <3>2. /\ Len(log'[p]) <= MaxSeq
          /\ st'[p].highestTx = Len(log'[p])
          /\ st'[p].nextTx = IF Len(log'[p]) = MaxSeq THEN NoSeq ELSE Len(log'[p]) + 1
      BY <2>2, <2>4, <2>6, <2>7, MaxSeqAssumption
    <3> QED
      BY <3>1, <3>2 DEF Transmit
  <2>9. Receive(p)' /\ Acked(p)'
    BY <2>0, <2>3, <2>4 DEF IInv, Receive, Acked
  <2>10. Transmit(q)' /\ Acked(q)'
    BY <2>0, <2>3, <2>4 DEF IInv, Transmit, Acked
  <2>11. Receive(q)'
    <3>1. /\ Len(st[q].accepted) = st[q].lastRx
          /\ st[q].lastRx <= Len(log[p])
          /\ \A s \in 1 .. st[q].lastRx : st[q].accepted[s] = log[p][s]
      BY <2>0 DEF IInv, Receive
    <3>2. st[q].lastRx \in Nat /\ Len(log[p]) \in Nat
      BY <2>2, MaxSeqAssumption DEF SequenceState, AckNo
    <3>3. \A s \in 1 .. st[q].lastRx : s \in 1 .. Len(log[p])
      BY <3>1, <3>2
    <3> QED
      BY <2>0, <2>3, <2>7, <3>1, <3>2, <3>3 DEF Receive
  <2> QED
    BY <2>0, <2>5, <2>8, <2>9, <2>10, <2>11 DEF IInv
<1>2. ASSUME NEW p \in Peer, NEW ack \in 0 .. st[Other(p)].lastRx,
             st' = [st EXCEPT ![p] = ApplyCumulativeAck(st[p], ack)], UNCHANGED log
      PROVE  IInv'
  <2> DEFINE q == Other(p)
             a == ApplyCumulativeAck(st[p], ack)
  <2>0. q \in Peer /\ q # p /\ Other(q) = p /\ \A r \in Peer : r # p => r = q
    BY OtherPeer, TwoPeers
  <2>1. /\ a \in SequenceState
        /\ a.nextTx = st[p].nextTx /\ a.highestTx = st[p].highestTx
        /\ a.lastRx = st[p].lastRx /\ a.accepted = st[p].accepted
        /\ a.lastPeerAck <= st[q].lastRx
        /\ \A s \in 1 .. Len(log[p]) : s > a.lastPeerAck
              => [seq |-> s, body |-> log[p][s]] \in a.outbox
    BY AckPreserves
  <2>2. st'[p] = a /\ st'[q] = st[q] /\ log' = log
    BY <1>2, <2>0 DEF IInv, TypeOK
  <2> HIDE DEF a
  <2>3. TypeOK'
    BY <1>2, <2>1 DEF IInv, TypeOK, a
  <2>4. Transmit(p)' /\ Receive(p)' /\ Acked(p)'
    BY <2>0, <2>1, <2>2 DEF IInv, Transmit, Receive, Acked
  <2>5. Transmit(q)' /\ Receive(q)' /\ Acked(q)'
    BY <2>0, <2>1, <2>2 DEF IInv, Transmit, Receive, Acked
  <2> QED
    BY <2>0, <2>3, <2>4, <2>5 DEF IInv
<1>3. ASSUME NEW p \in Peer, NEW env \in InFlight(Other(p)),
             InboundAccepted(st[p], env),
             st' = [st EXCEPT ![p] = AcceptInboundData(st[p], env)], UNCHANGED log
      PROVE  IInv'
  <2> DEFINE q == Other(p)
             a == ApplyCumulativeAck(st[p], env.ack)
             r == AcceptInboundData(st[p], env)
  <2>0. q \in Peer /\ q # p /\ Other(q) = p /\ \A x \in Peer : x # p => x = q
    BY OtherPeer, TwoPeers
  <2>1. /\ env \in Envelope /\ env.seq \in 1 .. Len(log[q])
        /\ env.body = log[q][env.seq] /\ env.ack \in 0 .. st[q].lastRx
    BY <2>0, InFlightFacts
  <2>2. /\ st[p] \in SequenceState /\ st[q] \in SequenceState
        /\ log[p] \in Seq(Body) /\ log[q] \in Seq(Body)
        /\ st[p].lastRx \in Nat /\ st[q].lastPeerAck \in Nat
        /\ st[p].accepted \in Seq(Body)
    BY <2>0, MaxSeqAssumption DEF IInv, TypeOK, SequenceState, AckNo
  <2>3. /\ a.nextTx = st[p].nextTx /\ a.highestTx = st[p].highestTx
        /\ a.lastPeerAck <= st[q].lastRx
        /\ \A s \in 1 .. Len(log[p]) : s > a.lastPeerAck
              => [seq |-> s, body |-> log[p][s]] \in a.outbox
    BY <2>1, AckPreserves
  <2>4. /\ r \in SequenceState
        /\ r.nextTx = a.nextTx /\ r.highestTx = a.highestTx
        /\ r.lastPeerAck = a.lastPeerAck /\ r.outbox = a.outbox
        /\ r.lastRx = env.seq /\ r.accepted = Append(st[p].accepted, env.body)
    BY <2>1, <2>2, AcceptFacts
  <2>5. env.seq = st[p].lastRx + 1
    BY <1>3 DEF InboundAccepted
  <2>6. st'[p] = r /\ st'[q] = st[q] /\ log' = log
    BY <1>3, <2>0 DEF IInv, TypeOK
  <2> HIDE DEF a, r
  <2>7. TypeOK'
    BY <1>3, <2>4 DEF IInv, TypeOK, r
  <2>8. Transmit(p)' /\ Acked(p)'
    BY <2>0, <2>3, <2>4, <2>6 DEF IInv, Transmit, Acked
  <2>9. Receive(p)'
    <3>1. /\ Len(st[p].accepted) = st[p].lastRx
          /\ \A s \in 1 .. st[p].lastRx : st[p].accepted[s] = log[q][s]
      BY <2>0 DEF IInv, Receive
    <3>2. Len(r.accepted) = r.lastRx /\ r.lastRx <= Len(log[q])
      BY <2>1, <2>2, <2>4, <2>5, <3>1
    <3>3. ASSUME NEW s \in 1 .. r.lastRx PROVE r.accepted[s] = log[q][s]
      <4>1. CASE s = env.seq
        BY <4>1, <2>1, <2>2, <2>4, <2>5, <3>1
      <4>2. CASE s # env.seq
        <5>1. s \in 1 .. st[p].lastRx
          BY <4>2, <2>2, <2>4, <2>5
        <5> QED
          BY <5>1, <2>2, <2>4, <3>1
      <4> QED
        BY <4>1, <4>2
    <3> QED
      BY <2>0, <2>6, <3>2, <3>3 DEF Receive
  <2>10. Transmit(q)' /\ Receive(q)'
    BY <2>0, <2>6 DEF IInv, Transmit, Receive
  <2>11. Acked(q)'
    BY <2>0, <2>2, <2>4, <2>5, <2>6 DEF IInv, Acked
  <2> QED
    BY <2>0, <2>7, <2>8, <2>9, <2>10, <2>11 DEF IInv
<1>4. CASE UNCHANGED chanVars
  BY <1>4 DEF chanVars, IInv, TypeOK, Transmit, Receive, Acked
<1>5. ASSUME NEW p \in Peer, ReceiveAck(p) PROVE IInv'
  BY <1>2, <1>5 DEF ReceiveAck
<1>6. ASSUME NEW p \in Peer, ReceiveData(p) PROVE IInv'
  <2>1. PICK env \in InFlight(Other(p)) :
          /\ \/ /\ InboundAccepted(st[p], env)
                /\ st' = [st EXCEPT ![p] = AcceptInboundData(st[p], env)]
             \/ st' = [st EXCEPT ![p] = ApplyCumulativeAck(st[p], env.ack)]
          /\ UNCHANGED log
    BY <1>6 DEF ReceiveData
  <2>2. env.ack \in 0 .. st[Other(p)].lastRx
    BY OtherPeer, InFlightFacts
  <2> QED
    BY <1>2, <1>3, <2>1, <2>2
<1> QED
  BY <1>1, <1>4, <1>5, <1>6 DEF Next

\* The invariant holds of every behaviour.
LEMMA InductiveInvariant == Spec => []IInv
BY InitInv, NextInv, PTL DEF Spec

-----------------------------------------------------------------------------
\* Both peers' durable sequence states stay well-typed, the cursors within
\* RBP_MAX_SAFE_SEQUENCE.
THEOREM TypeCorrect == Spec => []TypeOK
<1>1. IInv => TypeOK
  BY DEF IInv
<1> QED
  BY <1>1, InductiveInvariant, PTL

\* acceptInboundData over any carrier: each peer has accepted exactly a prefix
\* of what the other queued.
THEOREM ExactlyOnce == Spec => []InOrderExactlyOnce
<1>1. IInv => InOrderExactlyOnce
  BY DEF IInv, Receive, InOrderExactlyOnce
<1> QED
  BY <1>1, InductiveInvariant, PTL

\* applyCumulativeAck over any carrier: what the other peer has not accepted
\* is still in the outbox, whatever acknowledgements were lost or repeated.
THEOREM Retention == Spec => []NothingLost
<1>1. IInv => NothingLost
  <2> SUFFICES ASSUME IInv, NEW p \in Peer, NEW s \in 1 .. Len(log[p]),
                      s > st[Other(p)].lastRx
               PROVE  [seq |-> s, body |-> log[p][s]] \in st[p].outbox
    BY DEF NothingLost
  <2>1. st[p].lastPeerAck <= st[Other(p)].lastRx
    BY DEF IInv, Acked
  <2>2. st[p].lastPeerAck \in Nat /\ st[Other(p)].lastRx \in Nat
    BY OtherPeer, MaxSeqAssumption DEF IInv, TypeOK, SequenceState, AckNo
  <2>3. s > st[p].lastPeerAck
    BY <2>1, <2>2
  <2> QED
    BY <2>3 DEF IInv, Transmit
<1> QED
  BY <1>1, InductiveInvariant, PTL

\* Between correct peers acceptInboundData never answers protocol_fault.
THEOREM FaultFree == Spec => []NoProtocolFault
<1>1. IInv => NoProtocolFault
  <2> SUFFICES ASSUME IInv, NEW p \in Peer, NEW env \in InFlight(Other(p))
               PROVE  ~InboundFault(st[p], env)
    BY DEF NoProtocolFault
  <2> DEFINE q == Other(p)
  <2>0. q \in Peer /\ Other(q) = p
    BY OtherPeer
  <2>1. /\ env \in Envelope /\ env.seq \in 1 .. Len(log[q])
        /\ env.body = log[q][env.seq] /\ env.ack \in 0 .. st[q].lastRx
    BY <2>0, InFlightFacts
  <2>2. st[p].lastRx \in Nat /\ st[q].lastRx \in Nat /\ Len(log[q]) \in Nat
    BY <2>0, MaxSeqAssumption DEF IInv, TypeOK, SequenceState, AckNo
  <2>3. ~AckFault(st[p], env.ack)
    <3>1. st[q].lastRx <= Len(log[p]) /\ st[p].highestTx = Len(log[p])
      BY <2>0 DEF IInv, Receive, Transmit
    <3>2. Len(log[p]) \in Nat
      BY DEF IInv, TypeOK
    <3> QED
      BY <2>1, <2>2, <3>1, <3>2 DEF AckFault
  <2>4. env.seq \in SeqNo /\ env.seq \in Nat
    BY <2>1, MaxSeqAssumption DEF Envelope, SeqNo
  <2>5. env.seq \in 1 .. st[p].lastRx => st[p].accepted[env.seq] = env.body
    BY <2>0, <2>1 DEF IInv, Receive
  <2> QED
    BY <2>2, <2>3, <2>4, <2>5
    DEF InboundFault, InboundDuplicate, InboundAccepted, InboundGap, SeqNo
<1> QED
  BY <1>1, InductiveInvariant, PTL

\* queueOutboundData never reuses a sequence and stops at the last one.
THEOREM FreshCursor == Spec => []CursorNeverReused
<1>1. IInv => CursorNeverReused
  BY DEF IInv, Transmit, CursorNeverReused
<1> QED
  BY <1>1, InductiveInvariant, PTL

\* The receive, acknowledgement and transmit cursors never move back, and what was
\* accepted stays a prefix of what is accepted.
THEOREM Monotone == Spec => NeverRegresses
<1> DEFINE Forward == \A p \in Peer :
              /\ st'[p].lastRx >= st[p].lastRx
              /\ st'[p].lastPeerAck >= st[p].lastPeerAck
              /\ st'[p].highestTx >= st[p].highestTx
<1>0. ASSUME IInv, NEW r \in Peer
      PROVE  /\ st[r] \in SequenceState /\ log[r] \in Seq(Body)
             /\ st[r].lastRx \in Nat /\ st[r].lastPeerAck \in Nat
             /\ st[r].highestTx \in Nat
  BY <1>0, MaxSeqAssumption DEF IInv, TypeOK, SequenceState, AckNo
<1>1. ASSUME IInv, NEW p \in Peer, Queue(p) PROVE Forward
  <2>1. PICK body \in Body : st[p].nextTx # NoSeq
          /\ st' = [st EXCEPT ![p] = QueueOutboundData(st[p], body)]
    BY <1>1 DEF Queue, MayQueue, RenewalRequired
  <2>2. \A r \in Peer : st'[r] = IF r = p THEN QueueOutboundData(st[p], body) ELSE st[r]
    BY <1>1, <2>1 DEF IInv, TypeOK
  <2>3. st[p].nextTx >= st[p].highestTx
    BY <1>0, <1>1, <2>1 DEF IInv, Transmit
  <2>4. \A r \in Peer : st[r].lastRx \in Nat /\ st[r].lastPeerAck \in Nat
                         /\ st[r].highestTx \in Nat
    BY <1>0, <1>1
  <2>5. /\ QueueOutboundData(st[p], body).highestTx = st[p].nextTx
        /\ QueueOutboundData(st[p], body).lastRx = st[p].lastRx
        /\ QueueOutboundData(st[p], body).lastPeerAck = st[p].lastPeerAck
    BY <1>0, <1>1, <2>1, QueueFacts
  <2> QED
    BY <2>2, <2>3, <2>4, <2>5
<1>2. ASSUME IInv, NEW p \in Peer, NEW ack \in Nat,
             st' = [st EXCEPT ![p] = ApplyCumulativeAck(st[p], ack)]
      PROVE  Forward
  <2>1. \A r \in Peer : st'[r] = IF r = p THEN ApplyCumulativeAck(st[p], ack) ELSE st[r]
    BY <1>2 DEF IInv, TypeOK
  <2>2. \A r \in Peer : st[r].lastRx \in Nat /\ st[r].lastPeerAck \in Nat
                         /\ st[r].highestTx \in Nat
    BY <1>0, <1>2
  <2>3. /\ ApplyCumulativeAck(st[p], ack).highestTx = st[p].highestTx
        /\ ApplyCumulativeAck(st[p], ack).lastRx = st[p].lastRx
        /\ ApplyCumulativeAck(st[p], ack).lastPeerAck >= st[p].lastPeerAck
    BY <1>0, <1>2, AckFacts
  <2> QED
    BY <2>1, <2>2, <2>3
<1>3. ASSUME IInv, NEW p \in Peer, NEW env \in InFlight(Other(p)),
             InboundAccepted(st[p], env),
             st' = [st EXCEPT ![p] = AcceptInboundData(st[p], env)]
      PROVE  Forward
  <2>1. \A r \in Peer : st'[r] = IF r = p THEN AcceptInboundData(st[p], env) ELSE st[r]
    BY <1>3 DEF IInv, TypeOK
  <2>2. \A r \in Peer : st[r].lastRx \in Nat /\ st[r].lastPeerAck \in Nat
                         /\ st[r].highestTx \in Nat
    BY <1>0, <1>3
  <2>3. env \in Envelope /\ env.ack \in Nat /\ env.seq = st[p].lastRx + 1
    <3>1. env \in Envelope
      BY <1>3, OtherPeer, InFlightFacts
    <3> QED
      BY <1>3, <3>1, MaxSeqAssumption DEF Envelope, AckNo, InboundAccepted
  <2>4. /\ AcceptInboundData(st[p], env).highestTx = st[p].highestTx
        /\ AcceptInboundData(st[p], env).lastRx = env.seq
        /\ AcceptInboundData(st[p], env).lastPeerAck >= st[p].lastPeerAck
    <3>1. st[p] \in SequenceState
      BY <1>0, <1>3
    <3>2. /\ ApplyCumulativeAck(st[p], env.ack).highestTx = st[p].highestTx
          /\ ApplyCumulativeAck(st[p], env.ack).lastPeerAck >= st[p].lastPeerAck
      BY <2>3, <3>1, AckFacts
    <3>3. LET a == ApplyCumulativeAck(st[p], env.ack)
              r == AcceptInboundData(st[p], env)
          IN  /\ r.highestTx = a.highestTx
              /\ r.lastPeerAck = a.lastPeerAck
              /\ r.lastRx = env.seq
      BY <2>3, <3>1, AcceptFacts
    <3> QED
      BY <3>2, <3>3
  <2> QED
    BY <2>1, <2>2, <2>3, <2>4
<1>4. IInv /\ [Next]_chanVars => [Forward]_chanVars
  <2> SUFFICES ASSUME IInv, Next PROVE Forward
    OBVIOUS
  <2>1. ASSUME NEW p \in Peer, ReceiveAck(p) PROVE Forward
    <3>1. st[Other(p)].lastRx \in Nat
      BY <1>0, OtherPeer
    <3>2. PICK ack \in 0 .. st[Other(p)].lastRx :
            st' = [st EXCEPT ![p] = ApplyCumulativeAck(st[p], ack)]
      BY <2>1 DEF ReceiveAck
    <3>3. ack \in Nat
      BY <3>1
    <3> QED
      BY <1>2, <3>2, <3>3
  <2>2. ASSUME NEW p \in Peer, ReceiveData(p) PROVE Forward
    <3>1. PICK env \in InFlight(Other(p)) :
            \/ /\ InboundAccepted(st[p], env)
               /\ st' = [st EXCEPT ![p] = AcceptInboundData(st[p], env)]
            \/ st' = [st EXCEPT ![p] = ApplyCumulativeAck(st[p], env.ack)]
      BY <2>2 DEF ReceiveData
    <3>2. env.ack \in Nat
      <4>1. env \in Envelope
        BY OtherPeer, InFlightFacts
      <4> QED
        BY <4>1, MaxSeqAssumption DEF Envelope, AckNo
    <3> QED
      BY <1>2, <1>3, <3>1, <3>2
  <2> QED
    BY <1>1, <2>1, <2>2 DEF Next
<1> DEFINE Advance == \A p \in Peer :
              /\ st'[p].lastRx >= st[p].lastRx
              /\ st'[p].lastPeerAck >= st[p].lastPeerAck
              /\ st'[p].highestTx >= st[p].highestTx
              /\ \A s \in 1 .. st[p].lastRx : st'[p].accepted[s] = st[p].accepted[s]
<1>5. IInv /\ IInv' /\ [Next]_chanVars => [Advance]_chanVars
  <2> SUFFICES ASSUME IInv, IInv', Next, ~UNCHANGED chanVars PROVE Advance
    OBVIOUS
  <2>1. Forward
    BY <1>4
  <2>2. ASSUME NEW q \in Peer, NEW s \in 1 .. Len(log[q]) PROVE log'[q][s] = log[q][s]
    <3>1. CASE UNCHANGED log
      BY <3>1
    <3>2. ASSUME NEW p \in Peer, Queue(p) PROVE log'[q][s] = log[q][s]
      <4>1. PICK body \in Body : log' = [log EXCEPT ![p] = Append(log[p], body)]
        BY <3>2 DEF Queue
      <4>2. log \in [Peer -> Seq(Body)]
        BY DEF IInv, TypeOK
      <4> QED
        BY <2>2, <3>2, <4>1, <4>2
    <3> QED
      BY <3>1, <3>2 DEF Next, ReceiveAck, ReceiveData
  <2>3. ASSUME NEW p \in Peer, NEW s \in 1 .. st[p].lastRx
        PROVE  st'[p].accepted[s] = st[p].accepted[s]
    <3>1. /\ st[p].lastRx \in Nat /\ st'[p].lastRx \in Nat
          /\ st[p].lastRx <= Len(log[Other(p)]) /\ Len(log[Other(p)]) \in Nat
          /\ st[p].accepted[s] = log[Other(p)][s]
      <4>1. st[p].lastRx <= Len(log[Other(p)]) /\ st[p].accepted[s] = log[Other(p)][s]
        BY <2>3 DEF IInv, Receive
      <4>2. st[p].lastRx \in Nat /\ Len(log[Other(p)]) \in Nat
        BY <1>0, OtherPeer
      <4>3. st'[p] \in SequenceState
        BY DEF IInv, TypeOK
      <4> QED
        BY <4>1, <4>2, <4>3, MaxSeqAssumption DEF SequenceState, AckNo
    <3>2. s \in 1 .. st'[p].lastRx /\ s \in 1 .. Len(log[Other(p)])
      BY <2>1, <2>3, <3>1
    <3>3. st'[p].accepted[s] = log'[Other(p)][s]
      BY <3>2 DEF IInv, Receive
    <3> QED
      BY <2>2, <3>1, <3>2, <3>3, OtherPeer
  <2> QED
    BY <2>1, <2>3
<1> QED
  BY <1>5, InductiveInvariant, PTL DEF Spec, NeverRegresses
=============================================================================
