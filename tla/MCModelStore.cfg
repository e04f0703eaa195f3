\* Two runs promoted back and forth, one fault and one restart.
CONSTANTS
    NULL = NULL
    poller = poller  caller = caller  r1 = r1  r2 = r2  b1 = b1  b2 = b2
    Runs = {r1, r2}
    Builds = {b1, b2}
    Loadable = {b1}
    Threads = {poller, caller}
    Poller = poller
    MaxWrites = 5
    MaxFaults = 1
    MaxRestarts = 1
SPECIFICATION FairSpec
INVARIANTS NamedOnlyOnceServed NameIsTheBackends
PROPERTIES ImplementsServedModel PromotionsArrive
CHECK_DEADLOCK FALSE
