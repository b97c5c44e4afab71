SPECIFICATION FairSpec
CONSTANTS
    Conn = {c1, c2}
    Tx = {t1}
    Request = {"plain", "upgrade"}
    Valid <- MCValid
    NoReq = NoReq
    NoTx = NoTx
    Role = {0, 1}
    MinRole <- MCMinRole
    RebootRequired <- MCRebootRequired
    RollbackAvailable <- MCRollbackAvailable
    HasRollbackSpec <- MCHasRollbackSpec
    Backend = "sqlite"
    TTL = 1
    DayLength = 1
    Minute = 1
    MaxTime = 0
    Faults = {"disconnect", "deaf", "store", "bad_output"}
INVARIANTS
    OutcomeTrue
    NoSilentGap
PROPERTIES
    StoreRefinement
    EverythingEnds
CHECK_DEADLOCK FALSE
