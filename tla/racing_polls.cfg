SPECIFICATION IntakeSpec
CONSTANTS
    None = None
    i1 = i1
    i2 = i2
    i3 = i3
    i4 = i4
    k1 = k1
    k2 = k2
    t1 = t1
    t2 = t2
    MAX_ACU_LIMIT = 2
    TERMINAL_ON_PR = TRUE
    Keys <- ParsedKeys
    Issues = {i1}
    Tasks = {t1, t2}
    Poller = Poller
    Payloads <- ManyPayloads
    Body <- ParsedBody
    DryRun = FALSE
    Undecodable = TRUE
    MaxIssueEvents = 4
    MaxPullEvents = 4
    MaxCrashes = 1
    CreateOutlivesClaim = FALSE
    Empty = Empty
    Texts <- SomeTexts
    Unmarked <- UnmarkedTexts
    Unticked <- UntickedTexts
    Deliveries <- SessionDeliveries
    Defect <- DefectOf
    MaxDeliveries = 3
SYMMETRY Racers
INVARIANTS ReportedOnce RecordedHappened OutcomeEvidenced
PROPERTIES OutcomeIsFinal ImplementsService
CHECK_DEADLOCK FALSE
