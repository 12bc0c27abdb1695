SPECIFICATION IntakeSpec
CONSTANTS
    None = None
    i1 = i1
    i2 = i2
    i3 = i3
    i4 = i4
    k1 = k1
    k2 = k2
    t1 = t1
    t2 = t2
    MAX_ACU_LIMIT = 2
    TERMINAL_ON_PR = TRUE
    Keys <- ParsedKeys
    Issues = {i1, i2, i3, i4}
    Tasks = {t1, t2}
    Poller = Poller
    Payloads <- TwoPayloads
    Body <- ParsedBody
    DryRun = TRUE
    Undecodable = FALSE
    MaxIssueEvents = 4
    MaxPullEvents = 4
    MaxCrashes = 1
    CreateOutlivesClaim = FALSE
    Empty = Empty
    Texts <- SomeTexts
    Unmarked <- UnmarkedTexts
    Unticked <- UntickedTexts
    Deliveries <- FilingDeliveries
    Defect <- DefectOf
    MaxDeliveries = 4
SYMMETRY Racers
INVARIANTS DryRunSpendsNothing WorkIsDelivered OneLiveAttemptPerDefect DuplicatesShareDefect
CHECK_DEADLOCK FALSE
