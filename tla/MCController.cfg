SPECIFICATION FairSpec
CONSTANTS
    MinHz = 100
    MaxHz = 140
    MinBandwidth = 10
    MaxBandwidth = 30
    MinRate = 10
    MaxRate = 20
    Limits <- MCLimits
    Tolerance = 1
    Threshold = 1
    MAX_POINTS = 5
    MAX_CANDIDATES = 1
    MAX_DURATION_MS = 30
    MAX_SETTLE_MS = 3
    MAX_DWELL_MS = 10
    MAX_POINT_TIMEOUT_MS = 10
    SURVEY_POINT_TIMEOUT_MS = 2
    SURVEY_FRAME_BYTES = 4
    MAX_PLANNER_CANDIDATE_BANDWIDTH_HZ = 12
    Observations <- MCObservations
    Healths <- MCHealths
    Proposals <- MCProposals
    Orders <- MCOrders
    InitialStep = 8
    Powers = {0, 1, 2}
    Drifts <- MCDrifts
    Elapsed = 1
    sweep_point_timeout_ms = 8
    MAX_BUSY_RETRIES = 3
CHECK_DEADLOCK FALSE
INVARIANTS
    AuditBeforeAction
    OutcomeTrue
    DatasetMatches
    PolicyWithinEngine
    SurveyCovers
    CandidatesRight
    ReportUsable
PROPERTIES
    RadioAsPromised
    EndsReleased
