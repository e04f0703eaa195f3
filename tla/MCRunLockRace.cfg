\* Two invocations whose first calls overlap.
CONSTANTS
    NULL = NULL
    e1 = e1  e2 = e2  e3 = e3  inA = inA  inB = inB
    Execs = {e1, e3}
    InputOf <- Rivals
    BeatEvery = 1
    Late = 1
    BeatStale = 5
    LockStale = 7
    MaxTime = 4
SPECIFICATION Spec
INVARIANT DoubleFiresAreStopped
CHECK_DEADLOCK FALSE
