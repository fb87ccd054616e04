SPECIFICATION Spec
CONSTANTS
    MaxSeq = 2
    Body <- WireBody
    Conn = {c1, c2}
    NoConn = NoConn
    DocContext = FALSE
    Heartbeats = FALSE
    Unregisters = FALSE
    MaxFaults = 2
    Slot = {s1, s2}
SYMMETRY Symmetry
INVARIANTS NoSendReceiptIsTrue AnsweredAtMostOnce TerminalIsReported
PROPERTIES ImplementsChannel StartedLeaseEndsByRelease
CHECK_DEADLOCK FALSE
