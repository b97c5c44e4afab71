SPECIFICATION Spec
CONSTANTS
    Conn = {c1, c2}
    Tx = {t1, t2}
    Request = {"kargs", "plain"}
    Valid <- MCValid
    NoReq = NoReq
    NoTx = NoTx
    Role = {0, 1}
    MinRole <- MCMinRole
    RebootRequired <- MCRebootRequired
    RollbackAvailable <- MCRollbackAvailable
    HasRollbackSpec <- MCHasRollbackSpec
    Backend = "sqlite"
    TTL = 1
    DayLength = 1
    Minute = 1
    MaxTime = 0
    Faults = {"power"}
SYMMETRY Symmetry
INVARIANTS
    ExecutionAuthorised
CHECK_DEADLOCK FALSE
