\* Two callers with five questions and a cache of one entry; two requests of
\* two addresses; three searches of GDELT; three of Reddit.  Connectors have
\* less time than GDELT asks between requests, HTTP requests more than a drain.
CONSTANTS
    NULL = NULL  ERROR = ERROR  NONE = NONE  NOTHING = NOTHING  NEVER = NEVER
    c1 = c1  c2 = c2  rss = rss  reddit = reddit  youtube = youtube  none = none  alice = alice
    Callers = {c1, c2}
    Platforms = {rss, reddit, youtube}
    Enabled = {rss, reddit}
    FanIn = {rss}
    Locking = {reddit}
    Unlocks <- MCUnlocks
    Folded <- MCFolded
    Joined <- MCJoined
    Plain = {"fee", "ui"}
    Requests <- MCRequests
    Size = 1
    Ttl = 1
    Budget = 1
    Infer = 1
    Handler = 3
    Requesters = {q1, q2}
    Clients = {a1, a2}
    PerIP = 2
    Global = 3
    Search = 1
    Score = 2
    Ready = 1
    RequestTime = 3
    Drain = 2
    Searches = {s1, s2, s3}
    MinInterval = 3
    SearchTime = 2
    MaxAhead = 4
    Readers = {r1, r2, r3}
    ReaderTime = 1
    Early = 1
    Lives = {2, 3}
SPECIFICATION MCServingSpec
SYMMETRY Swapped
INVARIANTS ServingTypeOK AnswersTheCaller AnswersAreFresh AnsweredInTime
INVARIANTS OneBudget StopsInTime LockWaitIsBounded TokensOutliveTheirUse
PROPERTIES WarningsStayPrivate OnlySlowHttpIsCut SlotsAreSpaced
