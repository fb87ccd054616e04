SPECIFICATION Spec
CONSTANTS
    MaxSeq = 2
    Body <- WireBody
    Conn = {c1, c2}
    NoConn = NoConn
    DocContext = TRUE
    Heartbeats = TRUE
    Unregisters = TRUE
    MaxFaults = 1
    Slot = {s1}
SYMMETRY Symmetry
INVARIANTS UnregisterNeverGuesses ReleasedOnlyIfJournaled RouteIsOfThisConnection
PROPERTIES NothingSentAfterTombstone
CHECK_DEADLOCK FALSE
