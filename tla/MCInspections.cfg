SPECIFICATION Spec
CONSTANTS
    MinHz = 100
    MaxHz = 140
    MinBandwidth = 10
    MaxBandwidth = 30
    MinRate = 10
    MaxRate = 20
    Limits <- MCLimits
    Tolerance = 1
    Threshold = 1
    MAX_POINTS = 5
    MAX_CANDIDATES = 2
    MAX_DURATION_MS = 30
    MAX_SETTLE_MS = 2
    MAX_DWELL_MS = 120
    MAX_POINT_TIMEOUT_MS = 5
    SURVEY_POINT_TIMEOUT_MS = 1
    SURVEY_FRAME_BYTES = 4
    MAX_PLANNER_CANDIDATE_BANDWIDTH_HZ = 12
    Reports <- MCReports
    Elapsed = {1, 2}
    MaxTurns = 6
CHECK_DEADLOCK FALSE
INVARIANT ObservationUsable
