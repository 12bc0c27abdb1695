SPECIFICATION SimulationSpec
CONSTANTS
    None = None
    f1 = f1
    f2 = f2
    Poller = Poller
    MAX_ACU_LIMIT = 3
    TERMINAL_ON_PR = FALSE
    Callers <- TheCallers
    Findings <- TheFindings
    Ids <- TheFindings
    Scripts <- TheScripts
    MaxPolls = 4
    Answers <- TheAnswers
    max_retries = 2
    Timeout = 1
    backoff_base = 1
    backoff_cap = 1
    MaxDelay = 1
    RetryAfters = {0}
    interval_seconds = 1
    backoff_base_seconds = 1
    backoff_cap_seconds = 2
    max_wait_seconds = 4
    Trials <- TheTrials
    LastClaim = 1
    Horizon = 18
INVARIANTS SimulationTypeOK SettledInTime FewPolls EndsAsScripted CallEnds
PROPERTIES FollowsAPI
