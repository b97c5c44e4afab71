SPECIFICATION MCSpec
CONSTANTS
    Tx = {t1, t2}
    Request = {r1, r2}
    NoReq = NoReq
    Backend = "sqlite"
    TTL = 2
    DayLength = 4
    Minute = 2
    MaxTime = 9
    Hour = 2
    HISTORY_CAP = 2
    U32 = 4
    Limits = {1, 7}
    StatusFilters = {"Queued"}
    ActionFilters = {r1}
    NoFilter = NoFilter
    Anchors <- MCAnchors
    Span = 800
SYMMETRY Symmetry
INVARIANTS
    ApprovalWindow
    HistoryWindow
    CalendarAgrees
    PostgresWindows
PROPERTIES
    GoneForGood
    JobSpec
CHECK_DEADLOCK FALSE
