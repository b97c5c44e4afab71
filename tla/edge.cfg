SPECIFICATION MCSpec
CONSTANTS
    Conn = {c1, c2}
    Client = c1
    MAX_CONNECTIONS = 1
    Token = {"token"}
    Empty = Empty
    Absent = Absent
    Peers <- MCPeers
    TokenRole = 1
    Tx = {t1, t2}
    Executed = {t1}
    Event <- MCEvent
    FORWARDER_QUEUE_DEPTH = 1
    DROP_WARN_THRESHOLD = 1
    MAX_BACKOFF_SECS = 3
INVARIANTS
    AdmittedAsGranted
    ForwardingIsSound
PROPERTIES
    NothingHangs
    ForwardsAsPromised
CHECK_DEADLOCK FALSE
