------------------------------ MODULE Searches ------------------------------
(***************************************************************************)
(* What the connectors ask of their platforms for a query, and which of    *)
(* the posts they get become documents (api/internal/connectors), under    *)
(* the server's configuration (api/internal/config).  Seconds are numbers; *)
(* a post is [platform, owner, key, title, body, age, about]: key is unique  *)
(* only per owner (author or feed), age is -1 when the post has no date,    *)
(* about is whether it names the topic and the location.                    *)
(***************************************************************************)
EXTENDS Orderings, FiniteSetsExt

CONSTANTS
    Forever,        \* a window that reaches back to the beginning
    MaxDuration,    \* one more than the seconds of the longest time.Duration
    fipsCountry     \* country names and ISO codes to FIPS 10-4 codes

ASSUME DurationAssumption == MaxDuration \in Nat \ {0}

(* A variable of the environment: "" or GARBAGE when it is unset, GARBAGE    *)
(* also when it should be a number and is none.                              *)
GARBAGE == -1000
getenv(value, fallback) == IF value = "" THEN fallback ELSE value
getenvAtLeast(least, value, fallback) ==
    IF value = GARBAGE \/ value < least THEN fallback ELSE value
getenvInt(value, fallback) == getenvAtLeast(1, value, fallback)
getenvIntNonNeg(value, fallback) == getenvAtLeast(0, value, fallback)

(* strconv.ParseBool (external); whatever it does not know is the fallback.  *)
Truths == {"1", "t", "T", "true", "TRUE", "True"}
Falsehoods == {"0", "f", "F", "false", "FALSE", "False"}
getenvBool(value, fallback) == value \in Truths \/ (fallback /\ value \notin Falsehoods)

Load(env) ==
    [MLMaxBatch |-> getenvInt(env.batch, 32),
     RateIPPerMin |-> getenvIntNonNeg(env.perIP, 120),
     RateGlobalPerMin |-> getenvIntNonNeg(env.global, 1200),
     UseMock |-> getenvBool(env.mock, FALSE),
     Reddit |-> env.reddit, Twitter |-> env.twitter, YouTube |-> env.youtube,
     Mastodon |-> [Instance |-> getenv(env.instance, "mastodon.social"),
                   AccessToken |-> env.mastodon]]

BuildRegistry(cfg) ==
    {"hackernews", "rss", "bluesky", "gdelt", "stocktwits", "reddit", "twitter",
     "mastodon", "youtube"} \cup (IF cfg.UseMock THEN {"mock"} ELSE {})

Keyless == {"hackernews", "rss", "bluesky", "gdelt", "stocktwits", "mock"}

EnabledOn(p, cfg) ==
    \/ p \in Keyless
    \/ p = "reddit" /\ cfg.Reddit # ""
    \/ p = "twitter" /\ cfg.Twitter # ""
    \/ p = "mastodon" /\ cfg.Mastodon.AccessToken # ""
    \/ p = "youtube" /\ cfg.YouTube # ""

EnabledWith(p, cfg, creds) ==
    \/ EnabledOn(p, cfg)
    \/ p = "mastodon" /\ creds.MastodonToken # ""
    \/ p = "youtube" /\ creds.YouTubeAPIKey # ""

(* ListPlatforms: every registered platform, enabled or not. *)
Info(cfg) == [p \in BuildRegistry(cfg) |-> EnabledOn(p, cfg)]

-----------------------------------------------------------------------------
Clamped(wanted, default, cap) == Min({IF wanted <= 0 THEN default ELSE wanted, cap})

Minute == 60
Hour == 60 * Minute
Day == 24 * Hour

Rounded(secs, unit) == ((secs + unit - 1) \div unit) * unit

(* Seeded bug: hours and days are cut off instead of rounded up. *)
gdeltTimespanDown(secs) ==
    CASE secs < 2 * Hour                    -> Max({15 * Minute, Rounded(secs, Minute)})
      [] secs >= 2 * Hour /\ secs < 72 * Hour -> (secs \div Hour) * Hour
      [] secs >= 72 * Hour                  -> (secs \div Day) * Day

(* GDELT takes minutes, at least 15, or hours, or days. *)
gdeltTimespan(secs) ==
    CASE secs < 2 * Hour                    -> Max({15 * Minute, Rounded(secs, Minute)})
      [] secs >= 2 * Hour /\ secs < 72 * Hour -> Rounded(secs, Hour)
      [] secs >= 72 * Hour                  -> Rounded(secs, Day)

(* Reddit has named windows only. *)
redditWindows == {Hour, Day, 7 * Day, 30 * Day, 365 * Day}
redditTimeWindow(secs) ==
    LET covering == {w \in redditWindows : secs <= w}
    IN  IF covering = {} THEN Forever ELSE Min(covering)

(* time.Duration(secs) * time.Second: 64 bits of nanoseconds, counted here   *)
(* in whole seconds, that wrap around.                                       *)
Duration(secs) == ((secs + MaxDuration) % (2 * MaxDuration)) - MaxDuration
Since(secs) == IF secs > 0 THEN Duration(secs) ELSE Forever

(* A location is a lowercased name without blanks around it, "" for none.   *)
countryFIPS(location) == IF location \in DOMAIN fipsCountry THEN fipsCountry[location] ELSE ""

andLocation(location) == IF location = "" THEN {} ELSE {<<"phrase", location>>}
inLanguage(language) == IF language = "" THEN {} ELSE {<<"language", language>>}
gdeltLangs == {"en", "es", "fr", "de", "pt", "it", "nl", "ru", "ja", "zh", "ar", "ko"}

(* A caller's instance, which has to pass validateCallerInstance, is used   *)
(* only together with the caller's token; REJECTED makes the search fail.   *)
REJECTED == "rejected"
validateCallerInstance(instance, public) == instance \in public
instanceFor(cfg, creds, public) ==
    IF creds.MastodonToken # "" /\ creds.MastodonInstance # ""
    THEN IF validateCallerInstance(creds.MastodonInstance, public)
         THEN creds.MastodonInstance ELSE REJECTED
    ELSE cfg.Mastodon.Instance

tokenFor(cfg, creds) ==
    IF creds.MastodonToken # "" THEN creds.MastodonToken ELSE cfg.Mastodon.AccessToken
keyFor(cfg, creds) ==
    IF creds.YouTubeAPIKey # "" THEN creds.YouTubeAPIKey ELSE cfg.YouTube

(* The first cashtag that has the shape of a ticker, or else the topic       *)
(* itself if it has; NoSymbol otherwise.  A topic is a sequence of words.    *)
NoSymbol == [cashtag |-> FALSE, ticker |-> FALSE]
extractSymbol(topic) ==
    LET tags == {i \in DOMAIN topic : topic[i].cashtag /\ topic[i].ticker}
    IN  IF tags # {} THEN topic[Min(tags)]
        ELSE IF Len(topic) = 1 /\ topic[1].ticker THEN topic[1] ELSE NoSymbol

-----------------------------------------------------------------------------
(* Texts: "" nothing, " " blanks, "<p>" markup without words, or words.     *)
TrimSpace(text) == IF text = " " THEN "" ELSE text
stripHTML(text) == IF text \in {" ", "<p>"} THEN "" ELSE text
firstNonEmpty(a, b) == IF a # "" THEN a ELSE b

(* Seeded bug: a Bluesky id is the record key alone. *)
RecordKey(post) == <<post.platform, post.key>>

(* An id has the whole path on Bluesky and the feed's URL on RSS; elsewhere *)
(* keys are unique on the platform.                                          *)
DocumentID(post) ==
    IF post.platform \in {"bluesky", "rss"} THEN <<post.platform, post.owner, post.key>>
    ELSE <<post.platform, post.key>>

DocumentsOf(posts) ==
    [i \in DOMAIN posts |-> [id |-> DocumentID(posts[i]), post |-> posts[i]]]

(* A Search: how many posts it asks for, from when on, what narrows the     *)
(* topic, the key it sends and the host it sends it to, and the documents   *)
(* it makes of the posts that come back.                                     *)
Asked(limit, span, narrowed, key, host, docs) ==
    {[limit |-> limit, span |-> span, narrowed |-> narrowed, key |-> key, host |-> host,
      docs |-> docs]}

Bluesky(q, posts) ==
    Asked(Clamped(q.limit, 25, 100), Since(q.since),
          andLocation(q.location) \cup inLanguage(q.language), "", "bluesky",
          DocumentsOf(Those(posts, LAMBDA post : TrimSpace(post.body) # "")))

GDELT(q, posts) ==
    LET country == countryFIPS(q.location)
        place == IF country = "" THEN andLocation(q.location) ELSE {<<"sourcecountry", country>>}
    IN  Asked(Clamped(q.limit, 25, 250), IF q.since > 0 THEN gdeltTimespan(q.since) ELSE Forever,
              place \cup (IF q.language \in gdeltLangs THEN inLanguage(q.language) ELSE {}),
              "", "gdelt", DocumentsOf(Those(posts, LAMBDA post : TrimSpace(post.title) # "")))

HackerNews(q, posts) ==
    Asked(Clamped(q.limit, 20, 100), Since(q.since), andLocation(q.location), "", "hackernews",
          DocumentsOf(Those(posts, LAMBDA post : firstNonEmpty(post.body, post.title) # "")))

(* Its API has no window: what is too old, or has no date, is dropped.      *)
Mastodon(q, cfg, public, posts) ==
    LET host == instanceFor(cfg, q.creds, public)
    IN  IF ~EnabledWith("mastodon", cfg, q.creds) \/ host = REJECTED THEN {}
        ELSE Asked(Clamped(q.limit, 25, 40), Forever, andLocation(q.location),
                   tokenFor(cfg, q.creds), host,
                   DocumentsOf(Those(posts, LAMBDA post :
                       /\ q.since > 0 => post.age \in 0..Duration(q.since)
                       /\ stripHTML(post.body) # "")))

Mock(q) ==
    LET limit == Clamped(q.limit, 8, 8)
    IN  Asked(limit, Forever, {}, "", "mock",
              [i \in 1..limit |->
                 [id |-> <<"mock", i>>, post |-> [platform |-> "mock", owner |-> "mock", key |-> i]]])

Reddit(q, cfg, posts) ==
    IF ~EnabledOn("reddit", cfg) THEN {}
    ELSE Asked(Clamped(q.limit, 25, 100),
               IF q.since > 0 THEN redditTimeWindow(q.since) ELSE Forever,
               andLocation(q.location), cfg.Reddit, "reddit",
               DocumentsOf(Those(posts, LAMBDA post : TrimSpace(post.title) # "" \/ post.body # "")))

(* Feeds cannot be searched: items about something else, or about another   *)
(* place, are dropped here, and dated ones that are too old.                *)
RSS(q, posts) ==
    LET limit == IF q.limit <= 0 THEN 30 ELSE q.limit
        docs == DocumentsOf(Those(posts, LAMBDA post :
                    /\ post.about
                    /\ q.since > 0 => post.age = -1 \/ post.age <= Duration(q.since)))
    IN  Asked(limit, Forever, andLocation(q.location), "", "rss",
              SubSeq(docs, 1, Min({limit, Len(docs)})))

StockTwits(q, posts) ==
    IF extractSymbol(q.topic) = NoSymbol THEN {}
    ELSE Asked(Clamped(q.limit, 30, 30), Forever, {<<"symbol", extractSymbol(q.topic)>>}, "",
               "stocktwits", DocumentsOf(Those(posts, LAMBDA post : post.body # "")))

Twitter(q, cfg, posts) ==
    IF ~EnabledOn("twitter", cfg) THEN {}
    ELSE Asked(Clamped(q.limit, 25, 100), Since(q.since),
               andLocation(q.location) \cup inLanguage(q.language), cfg.Twitter, "twitter",
               DocumentsOf(posts))

YouTube(q, cfg, posts) ==
    IF ~EnabledWith("youtube", cfg, q.creds) THEN {}
    ELSE Asked(Clamped(q.limit, 25, 50), Since(q.since),
               andLocation(q.location) \cup inLanguage(q.language), keyFor(cfg, q.creds), "youtube",
               DocumentsOf(posts))

(* The registry's connectors; {} when the platform is not asked at all.     *)
SearchOf(p, q, cfg, public, posts) ==
    CASE p = "bluesky"    -> Bluesky(q, posts)
      [] p = "gdelt"      -> GDELT(q, posts)
      [] p = "hackernews" -> HackerNews(q, posts)
      [] p = "mastodon"   -> Mastodon(q, cfg, public, posts)
      [] p = "mock"       -> Mock(q)
      [] p = "reddit"     -> Reddit(q, cfg, posts)
      [] p = "rss"        -> RSS(q, posts)
      [] p = "stocktwits" -> StockTwits(q, posts)
      [] p = "twitter"    -> Twitter(q, cfg, posts)
      [] p = "youtube"    -> YouTube(q, cfg, posts)

(* dedupeByID: the first document of each id. *)
dedupeByID(docs) ==
    AtPlaces(docs, {i \in DOMAIN docs : \A j \in 1..(i - 1) : docs[j].id # docs[i].id})
=============================================================================
