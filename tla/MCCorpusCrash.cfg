\* The same harvester, killed once or more.
CONSTANTS
    NULL = NULL
    d1 = d1  d2 = d2  alice = alice  bob = bob
    Docs = {d1, d2}
    AuthorOf <- TwoDocs
    Row <- MCRow
    Firehose <- PostsAndRevocations
    Faults = {}
    MaxDay = 1
    Rewind = 0
    MaxEvents = 3
    MaxBreaks = 1
    Crashes = TRUE
SPECIFICATION CorpusSpec
PROPERTY DeletesAreHonored
