\* One failing MkdirAll or OpenFile at a rotation, then a healthy disk.
CONSTANTS
    d1 = d1  d2 = d2  alice = alice  bob = bob
    Docs = {d1}
    AuthorOf <- OneDoc
    Row <- MCRow
    Firehose <- PostsDeletesOthers
    Faults = {"open"}
    MaxDay = 2
    Rewind = 0
    MaxEvents = 2
    MaxBreaks = 1
    Crashes = FALSE
SPECIFICATION HarvestSpec
PROPERTY RotatesOnDateChange
