SPECIFICATION MCSpec
CONSTANTS
    Call = {a, b, p1, p2, p3, p4}
    p1 = p1
    p2 = p2
    p3 = p3
    p4 = p4
    Request = {a, b}
    Talk = {p1, p2}
    Process = {"shell", "cli"}
    Caller <- MCCaller
    NoCall = NoCall
    WINDOW = 2
    max_per_minute <- MCLimits
    Horizon = 3
    max_turns = 2
    Batches <- MCBatches
    Fact = {"x", "y"}
    PREFS_MAX = 2
    Environments <- MCEnvironments
    OtherFiles <- MCOtherFiles
    Clicked = {"gemma4:2b", "qwen3:8b", "anthropic"}
    Vrams = {0, 12282}
    MaxEntries = 2
    Lowercase <- MCLowercase
    Bridged = FALSE
PROPERTY ExecutingEnds
CHECK_DEADLOCK FALSE
