SPECIFICATION FairSpec
CONSTANTS
    c1 = c1
    d1 = d1
    d2 = d2
    None = None
    Conn <- MCConn
    Device <- MCDevice
    Enrolled <- MCEnrolled
    MaxHead = 3
    MaxVersion = 2
    MaxFaults = 1
INVARIANTS NoStaleAdmission RevokedLeavesNothing
PROPERTIES RevocationTakesEffect AcquireEnds
CHECK_DEADLOCK FALSE
