SPECIFICATION Spec
CONSTANTS
    a1 = a1
    a2 = a2
    a3 = a3
    a4 = a4
    a5 = a5
    a6 = a6
    d1 = d1
    d2 = d2
    None = None
    Attempt <- MCAttempt
    Documents <- MCDocuments
    Workload <- MCWorkload
    MaxRunning = 2
    MaxFaults = 1
INVARIANTS
    RecordDecodable
    WindowExclusive
    PendingAcrossNoForeignHold
    IndeterminateHeldUntilVerified
    ConfirmedOnce
PROPERTIES
    OutcomesStay
CHECK_DEADLOCK FALSE
