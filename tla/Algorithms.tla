------------------------------ MODULE Algorithms ------------------------------
(***************************************************************************)
(* What the algorithms that keep no state promise, each against a          *)
(* reference that is said in another way.  A behaviour is about one case,  *)
(* a record whose part says which algorithm it is given to.                *)
(***************************************************************************)
EXTENDS Surfaces, Analysis, Searches

CONSTANT LabelOf(_, _)   \* the score of a text for an aspect, "" for the text itself

VARIABLE given           \* the case

-----------------------------------------------------------------------------
(* What RFC 9110 says of a media type: the q of the most specific range     *)
(* that covers it.  A header must not rank the same range twice.            *)
Said(header) == {e \in Range(header) : e.media # NoType}
Covers(range, media) == range \in {media, <<media[1], "*">>, <<"*", "*">>}
Canonical(range) == IF canonicalMedia(range) = NoType THEN range ELSE canonicalMedia(range)
Wanted(header, media) ==
    LET covering == {e \in Said(header) : Covers(Canonical(e.media), media)}
        nearest == {e \in covering : \A f \in covering : Covers(Canonical(f.media), Canonical(e.media))}
    IN  IF covering = {} THEN 0
        ELSE LET e == CHOOSE e \in nearest : TRUE IN IF e.q = NoType THEN Full ELSE e.q
Unambiguous(header) ==
    \A i, j \in DOMAIN header :
      /\ header[i].media # NoType /\ header[j].media # NoType
      /\ Canonical(header[i].media) = Canonical(header[j].media)
      => i = j

(***************************************************************************)
(* The negotiation of negotiate.go: ?format= decides alone, and yields the *)
(* format a refusal calls by that name, or YAML for "yml"; otherwise the    *)
(* response has a format the route offers that no other is preferred to,   *)
(* JSON first among equals, whatever the order of the header; there is a   *)
(* 406 only if all of them are refused.  A header that names text/html     *)
(* literally and prefers nothing to it gets JSON (negotiate.go:144-156).   *)
(***************************************************************************)
NegotiatesAsAsked ==
    given.part = "header" /\ Unambiguous(given.header) =>
      LET out == negotiateMedia(given.format, given.header, given.offered)
          wanted == [m \in Range(given.offered) |-> Wanted(given.header, m)]
          browser == \E e \in Said(given.header) :
                       /\ e.media = mimeHTML
                       /\ \A m \in DOMAIN wanted : wanted[m] <= Wanted(given.header, mimeHTML)
      IN  IF given.format # NoType
          THEN /\ (out.status = 200) =
                    (given.format \in Range(formatParamList(given.offered)) \cup {"yml"})
               /\ out.status = 200 =>
                    \/ given.format = "yml" /\ out.format = mimeYAML
                    \/ \E i \in DOMAIN given.offered :
                         /\ given.format = formatParamList(given.offered)[i]
                         /\ out.format = given.offered[i]
          ELSE /\ (out.status = 406) = (Said(given.header) # {}
                                          /\ \A m \in DOMAIN wanted : wanted[m] <= 0)
               /\ out.status = 200 =>
                    /\ out.format \in DOMAIN wanted
                    /\ \/ Said(given.header) = {} /\ out.format = mimeJSON
                       \/ browser /\ out.format = mimeJSON
                       \/ /\ ~browser
                          /\ wanted[out.format] > 0
                          /\ \A m \in DOMAIN wanted : wanted[m] <= wanted[out.format]
                          /\ wanted[mimeJSON] = wanted[out.format] => out.format = mimeJSON

-----------------------------------------------------------------------------
RowsOf(doc, aspects) ==
    [a \in DOMAIN aspects |->
       [aspect |-> aspects[a], score |-> LabelOf(doc.text, aspects[a])]]

(***************************************************************************)
(* Texts are sorted by length and cut into calls, the aspects of one text  *)
(* perhaps into two (inference/batch.go:24-91), and only texts with        *)
(* aspects are asked about them (service.go:105-126): every document still *)
(* ends up with its own score and with the scores of its own aspects in    *)
(* its own order, the worker is never asked for more than it takes, and an *)
(* answer of the wrong length is an error and never a shifted result: for  *)
(* the text a worker finds hard if it gets texts wrong, and only where that *)
(* text's aspects are asked for if it is curt about aspects.                *)
(***************************************************************************)
EveryScoreComesBack ==
    given.part = "batch" =>
      LET docs == given.docs
          text == AnalyzeText(docs, given.includeAspects, given.worker)
          topic == AnalyzeDocuments(docs, given.aspects, given.worker)
          hard == {i \in DOMAIN docs : docs[i].text = given.hard}
          lost == given.worker \notin {"right", "curt"} /\ hard # {}
          curt == given.worker = "curt"
          asked == given.includeAspects /\ \E i \in hard : docs[i].aspects # <<>>
      IN  /\ (text = FAILED) = (lost \/ (curt /\ asked))
          /\ (topic = FAILED) = (lost \/ (curt /\ hard # {} /\ given.aspects # <<>>))
          /\ text # FAILED => \A i \in DOMAIN docs :
               text.results[i] =
                 [id |-> docs[i].id, overall |-> LabelOf(docs[i].text, ""),
                  aspects |-> IF given.includeAspects
                              THEN RowsOf(docs[i], docs[i].aspects) ELSE <<>>]
          /\ topic # FAILED => \A i \in DOMAIN docs :
               topic.results[i] =
                 [id |-> docs[i].id, platform |-> docs[i].platform,
                  overall |-> LabelOf(docs[i].text, ""),
                  aspects |-> RowsOf(docs[i], given.aspects)]

(* An aggregate of the scores of some documents.  Of the labels there are as *)
(* many of, the first of these gives it its name.                             *)
NameOrder == [neutral |-> 1, positive |-> 2, negative |-> 3]
Totals(scores, aggregate) ==
    /\ aggregate.size = Cardinality(DOMAIN scores)
    /\ aggregate.sum = FoldSet(LAMBDA i, total : total + scores[i].polarity, 0, DOMAIN scores)
    /\ \A l \in DOMAIN NameOrder :
         /\ aggregate.counts[l] = Cardinality({i \in DOMAIN scores : scores[i].label = l})
         /\ DOMAIN scores # {} =>
              \/ aggregate.counts[l] < aggregate.counts[aggregate.modal]
              \/ /\ aggregate.counts[l] = aggregate.counts[aggregate.modal]
                 /\ NameOrder[aggregate.modal] <= NameOrder[l]

(***************************************************************************)
(* The aggregates of an answer, over all documents, by platform and by     *)
(* aspect, count each score once (service.go:222-257) and under its label, *)
(* and none of the three labels is more frequent than the one an aggregate *)
(* is named after, nor as frequent and preferred on ties                    *)
(* (domain.go:104-125).                                                     *)
(***************************************************************************)
AggregatesAddUp ==
    given.part = "batch" /\ given.worker = "right" =>
      LET docs == given.docs
          scored(S, aspect) == [i \in S |-> LabelOf(docs[i].text, aspect)]
          all == DOMAIN docs
          text == AnalyzeText(docs, given.includeAspects, given.worker)
          topic == AnalyzeDocuments(docs, given.aspects, given.worker)
      IN  /\ Totals(scored(all, ""), text.aggregate) /\ Totals(scored(all, ""), topic.aggregate)
          /\ \A p \in DOMAIN topic.by_platform :
               Totals(scored({i \in all : docs[i].platform = p}, ""), topic.by_platform[p])
          /\ \A a \in DOMAIN topic.by_aspect : Totals(scored(all, a), topic.by_aspect[a])

-----------------------------------------------------------------------------
(* One name per list entry: what a comma-separated list can say. *)
Plain(names) == \A i \in DOMAIN names : Len(names[i]) = 1 /\ names[i][1] # ""
Ordinary(q) == Plain(q.platforms) /\ Plain(q.aspects) /\ ~q.stray /\ GARBLED \notin Numbers(q)

(* The table of docs/architecture.md:113-127, and whose fault it says it is. *)
Documented(err) ==
    CASE err.is \cap {"ErrTopicRequired", "ErrInvalidRequest"} # {} -> 400
      [] err.is = {"errYAMLRequestBody"} -> 415
      [] err.is = {"ErrNoPlatforms"} -> 503
      [] err.is = {"ErrAllConnectorsFailed"} -> 502
      [] err.is = {"ErrAllConnectorsFailed", "context.DeadlineExceeded"} -> 502
      [] err.is = {"context.DeadlineExceeded"} -> 504
      [] err.is = {} /\ err.code = "Unavailable" -> 502
      [] err.is = {} /\ err.code = "DeadlineExceeded" -> 504
      [] err.is = {} /\ err.code = "ResourceExhausted" -> 500
      [] OTHER -> httpStatusFor(err)
SameBlame(status, code) ==
    /\ (status \in 400..499) = (code = "InvalidArgument")
    /\ (status = 504) = (code = "DeadlineExceeded")
    /\ (status = 502) = (code = "Unavailable")

(* A result whose every cell says which it is. *)
Cells == [document |-> [platform |-> "platform", id |-> "doc_id", created_at |-> "created_at",
                        text |-> "text"],
          overall |-> [label |-> "label", confidence |-> "confidence", polarity |-> "polarity",
                       probabilities |-> [negative |-> "p_negative", neutral |-> "p_neutral",
                                          positive |-> "p_positive"]]]

(***************************************************************************)
(* "Each transport is a thin adapter" (docs/architecture.md:21-25): the    *)
(* same question asked in any of the four ways puts the same question to   *)
(* the service or is refused for the same reason, an error means the same  *)
(* to REST and to gRPC and what the documented table says, and no          *)
(* transport but the exports README.md:174-192 calls lossy hides that an    *)
(* answer is partial.                                                        *)
(***************************************************************************)
SurfacesAgree ==
    /\ given.part = "question" /\ Ordinary(given.asked) =>
         LET ask(way) == Taken(AskBy(way, given.asked, given.media))
             told(way) == WithoutMetadata(TextBy(way, given.text, given.media).Documents)
         IN  /\ \A way \in Ways : ask(way) = ask("grpc")
                                   \/ (way = "post" /\ canonicalMedia(given.media) = mimeYAML)
             /\ given.text.documents # <<>> /\ canonicalMedia(given.media) # mimeYAML =>
                  told("post") = told("grpc") /\ told("graphql") = told("grpc")
    /\ given.part = "question" /\ canonicalMedia(given.media) = mimeYAML =>
         httpStatusFor([is |-> {Post(given.asked, given.media).error}, code |-> "none"]) = 415
    /\ given.part = "error" =>
         /\ httpStatusFor(given.error) = Documented(given.error)
         /\ SameBlame(httpStatusFor(given.error), grpcCodeFor(given.error))
    /\ given.part = "header" /\ given.header = <<>> =>
         LET format == negotiateMedia(given.format, <<>>, analyzeOffers).format
         IN  /\ "partial" \in RestParts(format) \cap GraphQLParts \cap GrpcParts
                \/ format \in {mimeCSV, mimeNDJSON}
             /\ ErrorFormat(format) # mimeCSV
             /\ writeTopicCSV(<<Cells>>)[1] = topicCSVHeader
             /\ SubSeq(writeTextCSV(<<Cells>>)[1], 2, 7) = SubSeq(textCSVHeader, 2, 7)

-----------------------------------------------------------------------------
CallersKeys(q) == {q.creds[k] : k \in KeyNames} \ {""}
KeyHolders == [p \in {"youtube", "mastodon"} |->
                 IF p = "youtube" THEN "YouTubeAPIKey" ELSE "MastodonToken"]
NamesTicker(topic) ==
    \E i \in DOMAIN topic : topic[i].ticker /\ (topic[i].cashtag \/ Len(topic) = 1)

(***************************************************************************)
(* The contract of Query (connectors/connector.go:20-34): a platform is    *)
(* asked for no more posts than wanted, and the demo makes no more up; the *)
(* window covers the one wanted, unless that is longer than a Duration     *)
(* holds, and is not coarser than the platform's next; a country GDELT has *)
(* a code for is asked for by that code; a key goes to the one host it is  *)
(* for, the operator's never to an instance the caller names               *)
(* (mastodon.go:55-69) nor a caller's to another platform; and every       *)
(* platform listed as enabled is asked, unless the caller's instance is    *)
(* refused or StockTwits is given no ticker.                               *)
(***************************************************************************)
AsksAsAsked ==
    given.part = "search" =>
      LET q == given.query cfg == given.cfg IN
      \A p \in BuildRegistry(cfg) :
        /\ \A r \in SearchOf(p, q, cfg, given.public, <<>>) :
             /\ r.limit > 0 /\ (q.limit > 0 => r.limit <= q.limit)
             /\ \/ r.span >= q.since
                \/ q.since >= MaxDuration /\ p \in {"bluesky", "hackernews", "twitter", "youtube"}
             /\ q.since > 0 /\ p = "gdelt" =>
                  \/ r.span = 15 * Minute
                  \/ r.span - q.since < Day /\ (r.span <= 3 * Day => r.span - q.since < Hour)
             /\ p = "reddit" => ~ \E w \in redditWindows : q.since \in 1..w /\ w < r.span
             /\ r.key \in CallersKeys(q) => r.key = q.creds[KeyHolders[p]]
             /\ r.key # "" /\ r.key \notin CallersKeys(q) =>
                  r.host \in {p, cfg.Mastodon.Instance}
             /\ r.host \notin {p, cfg.Mastodon.Instance} => r.key = q.creds.MastodonToken
             /\ p = "mock" => Cardinality({doc.id : doc \in Range(r.docs)}) = r.limit
             /\ p = "gdelt" /\ q.location \in DOMAIN fipsCountry =>
                  /\ <<"sourcecountry", fipsCountry[q.location]>> \in r.narrowed
                  /\ <<"phrase", q.location>> \notin r.narrowed
        /\ Info(cfg)[p] /\ q.creds.MastodonInstance \in given.public \cup {""} =>
             (SearchOf(p, q, cfg, given.public, <<>>) # {}) =
               (p = "stocktwits" => NamesTicker(q.topic))

-----------------------------------------------------------------------------
Upstream(post) == <<post.platform, post.owner, post.key>>
InTime(post, since) == since = 0 \/ post.age <= since
HasWords(post) == {post.body, post.title} \ {"", " ", "<p>"} # {}

(***************************************************************************)
(* A post with words in it that was posted in time counts in an analysis,   *)
(* and counts once, however many platforms, authors and feeds use the same  *)
(* key (bluesky.go:109-110, rss.go:116, service.go:432-447): only the        *)
(* caller's limit takes an item of a feed out.  Mastodon's filter and the    *)
(* feeds' own take out what is older, a feed's item without a date stays,   *)
(* and one about something else does not.                                    *)
(***************************************************************************)
EveryPostCounts ==
    given.part = "posts" =>
      LET q == given.query
          of(p) == Those(given.posts, LAMBDA post : post.platform = p)
          platforms == <<"bluesky", "gdelt", "hackernews", "mastodon", "reddit", "rss", "stocktwits",
                         "twitter", "youtube">>
          brought(p) == (CHOOSE r \in SearchOf(p, q, given.cfg, given.public, of(p)) : TRUE).docs
          docs == dedupeByID(FlattenSeq([i \in DOMAIN platforms |-> brought(platforms[i])]))
          wanted == {post \in Range(given.posts) :
                       /\ HasWords(post) /\ post.about
                       /\ post.platform \in {"mastodon", "rss"} =>
                            InTime(post, q.since) /\ (q.since < MaxDuration \/ post.age = -1)
                       /\ post.platform = "mastodon" /\ q.since > 0 => post.age # -1}
          counts(post) == Cardinality({i \in DOMAIN docs : Upstream(docs[i].post) = Upstream(post)})
      IN  /\ \A post \in wanted :
               \/ counts(post) = 1
               \/ post.platform = "rss" /\ Len(of("rss")) > q.limit /\ counts(post) = 0
          /\ \A i \in DOMAIN docs : docs[i].post.platform \in {"rss", "mastodon"} =>
               InTime(docs[i].post, q.since) /\ docs[i].post.about
=============================================================================
