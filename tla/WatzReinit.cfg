CONSTANTS
    Builds = {"2.4.1"}
    MaxRuns = 4
SPECIFICATION TaSpec
INVARIANTS ReportedInitIsReal
CHECK_DEADLOCK FALSE
