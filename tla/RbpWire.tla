------------------------------ MODULE RbpWire ------------------------------
(***************************************************************************)
(* The frames one routed session puts on a Gateway connection, and the      *)
(* connections themselves: each carries frames in order in both directions  *)
(* until it is closed, and whatever is still on it then is gone.            *)
(***************************************************************************)
EXTENDS RbpSequence

CONSTANTS Conn,        \* connection ids; an id is reused once nothing names it
          NoConn,
          DocContext,  \* document_context_v1 was granted on the connections
          MaxFaults    \* bounds drops, crashes and expired timers in a behaviour

ASSUME NoConnAssumption == NoConn \notin Conn
ASSUME DocContextAssumption == DocContext \in BOOLEAN
ASSUME MaxFaultsAssumption == MaxFaults \in Nat

\* An invoke and a doc_context_update are told apart by their own sequence, a
\* result by the invoke it answers.
WireBody == [type : {"invoke", "result", "update"}, of : SeqNo]

ASSUME BodyAssumption == WireBody \subseteq Body

VARIABLES toGateway, toBridge,   \* [Conn -> Seq(Frame)]
          faults                 \* drops, crashes and expired timers still to come

wireVars == <<toGateway, toBridge>>

Control == {"session_resume", "resume_ack", "heartbeat", "heartbeat_ack"}

Frame == [kind : {"data"}, env : [seq : SeqNo, body : WireBody, ack : AckNo]]
            \cup [kind : Control, ack : AckNo]

Data(env)          == [kind |-> "data", env |-> env]
Ctrl(kind, ack)    == [kind |-> kind, ack |-> ack]

\* The next frame of a connection is of this kind.
Arriving(queue, kind) == queue # << >> /\ Head(queue).kind = kind

Fault == faults > 0 /\ faults' = faults - 1

\* Free for a connection that is going away, a fault on one that is not.
FaultUnless(excused) == IF excused THEN UNCHANGED faults ELSE Fault

WireTypeOK ==
    /\ faults \in 0 .. MaxFaults
    /\ toGateway \in [Conn -> Seq(Frame)]
    /\ toBridge \in [Conn -> Seq(Frame)]
=============================================================================
