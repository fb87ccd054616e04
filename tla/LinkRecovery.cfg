SPECIFICATION FairSpec
CONSTANTS
    MaxSeq = 1
    Body <- WireBody
    Conn = {c1, c2}
    NoConn = NoConn
    DocContext = FALSE
    Heartbeats = FALSE
    Unregisters = FALSE
    MaxFaults = 2
    Slot = {s1, s2}
PROPERTIES SessionRegained CancellationSettles DispatchAnswered
CHECK_DEADLOCK FALSE
