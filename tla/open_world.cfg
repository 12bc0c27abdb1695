SPECIFICATION Spec
CONSTANTS
    None = None
    i1 = i1
    i2 = i2
    k1 = k1
    k2 = k2
    t1 = t1
    t2 = t2
    MAX_ACU_LIMIT = 2
    TERMINAL_ON_PR = FALSE
    Keys <- TwoKeys
    Issues = {i1, i2}
    Tasks = {t1, t2}
    Poller = Poller
    Payloads <- TwoPayloads
    Body <- EditedIssue
    DryRun = FALSE
    Undecodable = FALSE
    MaxIssueEvents = 3
    MaxPullEvents = 1
    MaxCrashes = 1
    CreateOutlivesClaim = TRUE
SYMMETRY Racers
INVARIANTS TypeOK SkipsMatchEvents
PROPERTIES OnlySettledReplaced ClaimKeepsCreator
CHECK_DEADLOCK FALSE
