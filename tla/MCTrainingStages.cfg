\* Two runs over a corpus that grows, one death and one failure, in two containers.
CONSTANTS
    NULL = NULL
    r1 = r1  r2 = r2  c1 = c1  c2 = c2
    Runs = {r1, r2}
    Containers = {c1, c2}
    Items <- MCItems
    Ingested = {3}
    Labelers = {"label", "label_aspects"}
    HoldoutRows = 2
    Share = 2
    MinRows = 2
    Overruns = FALSE
    MaxDeaths = 1
    MaxFailures = 1
SPECIFICATION Spec
SYMMETRY Swapped
INVARIANTS StagesTypeOK GateScoresUnseenUnlessLost StagesInTurnLoseNothing LabelsAreUnique StudentsAreNotLost
PROPERTY TrainsOnAllOfIt
CHECK_DEADLOCK FALSE
