\* Connections, feeds, disk and process break in every order.
CONSTANTS
    d1 = d1  d2 = d2  alice = alice  bob = bob
    Docs = {d1}
    AuthorOf <- OneDoc
    Row <- MCRow
    Firehose <- PostsDeletesOthers
    Faults = {"write", "open"}
    MaxDay = 2
    Rewind = 1
    MaxEvents = 3
    MaxBreaks = 1
    Crashes = TRUE
    Listed <- MCListed
    Curated <- MCCurated
    Answers <- MCAnswers
SPECIFICATION HarvestersSpec
INVARIANTS HarvestTypeOK ResumeNeverSkips PassIsAccountedFor
PROPERTY LossIsReported
