SPECIFICATION Spec
CONSTANTS
    MaxSeq = 1
    Body <- WireBody
    Conn = {c1, c2}
    NoConn = NoConn
    DocContext = FALSE
    Heartbeats = FALSE
    Unregisters = FALSE
    MaxFaults = 1
    Slot = {s1, s2}
INVARIANTS UnreachableIsNotExecuted
CHECK_DEADLOCK FALSE
