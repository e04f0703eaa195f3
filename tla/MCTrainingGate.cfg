\* One run, its orchestrator dies once.
CONSTANTS
    NULL = NULL
    r1 = r1  r2 = r2  c1 = c1  c2 = c2
    Runs = {r1}
    Containers = {c1, c2}
    Items <- MCItems
    Ingested = {1, 2, 3}
    Labelers = {"label"}
    HoldoutRows = 2
    Share = 2
    MinRows = 2
    Overruns = FALSE
    MaxDeaths = 1
    MaxFailures = 0
SPECIFICATION Spec
INVARIANT GateScoresUnseen
CHECK_DEADLOCK FALSE
