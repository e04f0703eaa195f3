\* One caller asking rss again and again while its feeds come and go.
CONSTANTS
    NULL = NULL  ERROR = ERROR
    c1 = c1  c2 = c2  rss = rss  reddit = reddit  youtube = youtube  none = none  alice = alice
    Callers = {c1}
    Platforms = {rss, reddit, youtube}
    Enabled = {rss, reddit}
    FanIn = {rss}
    Locking = {reddit}
    Unlocks <- MCUnlocks
    Folded <- MCFolded
    Joined <- MCJoined
    Plain = {"fee", "ui"}
    Requests <- JustRest
    Size = 1
    Ttl = 2
    Budget = 1
    Infer = 2
    Handler = 3
SPECIFICATION TopicSpec
INVARIANT CachedIsComplete
