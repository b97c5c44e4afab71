SPECIFICATION Spec
CONSTANTS
    Conn = {c1, c2}
    Tx = {t1, t2}
    Request = {"upgrade"}
    Valid <- MCValid
    NoReq = NoReq
    NoTx = NoTx
    Role = {0, 1}
    MinRole <- MCMinRole
    RebootRequired <- MCRebootRequired
    RollbackAvailable <- MCRollbackAvailable
    HasRollbackSpec <- MCHasRollbackSpec
    Backend = "postgres"
    TTL = 1
    DayLength = 1
    Minute = 1
    MaxTime = 1
    Faults = {"disconnect", "store", "lost_ack", "crash", "power"}
SYMMETRY Symmetry
INVARIANTS
    ExecutedNeverFound
    AtMostOnce
    ReportedIsRecorded
CHECK_DEADLOCK FALSE
