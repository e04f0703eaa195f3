\* A run, its retry and a rival.
CONSTANTS
    NULL = NULL
    e1 = e1  e2 = e2  e3 = e3  inA = inA  inB = inB
    Execs = {e1, e2, e3}
    InputOf <- MCInputOf
    BeatEvery = 1
    Late = 1
    BeatStale = 5
    LockStale = 7
    MaxTime = 7
SPECIFICATION Spec
INVARIANTS OneAtWork CapIsAbsolute
PROPERTIES TakeoversAreOfTheDead RefusedOnlyByTheLiving
CHECK_DEADLOCK FALSE
