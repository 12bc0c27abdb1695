SPECIFICATION Spec
CONSTANTS
    None = None
    i1 = i1
    i2 = i2
    k1 = k1
    k2 = k2
    t1 = t1
    t2 = t2
    MAX_ACU_LIMIT = 2
    TERMINAL_ON_PR = TRUE
    Keys <- OneKey
    Issues = {i1}
    Tasks = {t1, t2}
    Poller = Poller
    Payloads <- FewPayloads
    Body <- SameFinding
    DryRun = FALSE
    Undecodable = FALSE
    MaxIssueEvents = 3
    MaxPullEvents = 1
    MaxCrashes = 1
    CreateOutlivesClaim = FALSE
SYMMETRY Racers
PROPERTY SnapshotIsFinal
CHECK_DEADLOCK FALSE
