SPECIFICATION MCSpec
CONSTANTS
    Writer = {w1, w2}
    Alone = w1
    Tx = {t1, t2, t3}
    NoTx = NoTx
    Backends = {"sqlite", "postgres"}
    MaxTamper = 2
    Faults = {"abort", "power", "tamper"}
    Daemon = {d1, d2}
    Verifier = {v1}
    MaxTrouble = 2
INVARIANTS
    HealthyChainIntact
    CheckedIsAuthentic
    CheckedIsGapless
    KeyIsSound
PROPERTIES
    AppendOnly
    WritersGoOn
CHECK_DEADLOCK FALSE
