------------------------------ MODULE Surfaces ------------------------------
(***************************************************************************)
(* The transports over one service: REST by POST and by GET, GraphQL, gRPC *)
(* (api/internal/server).  What they make of a caller's question, of an     *)
(* error and of an answer.                                                   *)
(*                                                                         *)
(* A question: topic, platforms, limit, aspects, language, since, location, *)
(* keys, and stray (something in it nobody knows).  A name of a list is the *)
(* sequence of its comma-separated parts, "" for a blank one; a number that *)
(* does not parse is GARBLED; keys[k] is the sequence of values sent for k, *)
(* blanks around them aside.                                                *)
(***************************************************************************)
EXTENDS Negotiation

CONSTANT GARBLED

KeyNames == {"YouTubeAPIKey", "MastodonToken", "MastodonInstance"}
Ways == {"post", "get", "graphql", "grpc"}
NoKeys == [k \in KeyNames |-> ""]

Refused(sentinel) == [error |-> sentinel]
Asks(topic, platforms, limit, aspects, language, since, location, creds) ==
    [Topic |-> topic, Platforms |-> platforms, LimitPerPlatform |-> limit,
     Aspects |-> aspects, Language |-> language, SinceSeconds |-> since,
     Location |-> location, Creds |-> creds]

(* Headers and metadata: the first value of each name. *)
credsFrom(values) == [k \in KeyNames |-> IF values[k] = <<>> THEN "" ELSE values[k][1]]

(* The middleware puts credentials into the context only when there are any. *)
WithCredentials(values) == {credsFrom(values)} \ {NoKeys}
CredsFromContext(context) == IF context = {} THEN NoKeys ELSE CHOOSE c \in context : TRUE

runTopic(ask) == IF ask.Topic = "" THEN Refused("ErrTopicRequired") ELSE ask

Numbers(q) == {q.limit, q.since}

(* A body is JSON unless it says XML.  JSON refuses fields it does not know, *)
(* XML skips them.                                                           *)
decodeRequest(media, garbled, stray, body) ==
    LET coding == canonicalMedia(media)
    IN  CASE coding = mimeYAML                            -> Refused("errYAMLRequestBody")
          [] coding # mimeYAML /\ (garbled \/ (stray /\ coding # mimeXML))
                                                          -> Refused("ErrInvalidRequest")
          [] OTHER                                        -> body

Post(q, media) ==
    LET ask == Asks(q.topic, q.platforms, q.limit, q.aspects, q.language, q.since,
                    q.location, CredsFromContext(WithCredentials(q.keys)))
    IN  decodeRequest(media, GARBLED \in Numbers(q), q.stray, runTopic(ask))

splitAndTrim(joined) ==
    LET parts == Those(joined, LAMBDA part : part # "")
    IN  [i \in DOMAIN parts |-> <<parts[i]>>]

(* GET: lists joined by commas; a number that does not parse is left out.   *)
Get(q) ==
    LET number(n) == IF n = GARBLED THEN 0 ELSE n
    IN  runTopic(Asks(q.topic, splitAndTrim(FlattenSeq(q.platforms)), number(q.limit),
                      splitAndTrim(FlattenSeq(q.aspects)), q.language,
                      number(q.since), q.location, CredsFromContext(WithCredentials(q.keys))))

(* GraphQL: the schema refuses what it does not know before any resolver.   *)
Query(q) ==
    IF q.stray \/ GARBLED \in Numbers(q) THEN Refused("ErrInvalidRequest")
    ELSE Asks(q.topic, q.platforms, q.limit, q.aspects, q.language, q.since,
              q.location, CredsFromContext(WithCredentials(q.keys)))

(* gRPC: unknown fields are skipped, and there is no number to garble.      *)
Rpc(q) ==
    IF GARBLED \in Numbers(q) THEN Refused("ErrInvalidRequest")
    ELSE Asks(q.topic, q.platforms, q.limit, q.aspects, q.language, q.since,
              q.location, credsFrom(q.keys))

AskBy(way, q, media) ==
    CASE way = "post" -> Post(q, media) [] way = "get" -> Get(q)
      [] way = "graphql" -> Query(q)    [] way = "grpc" -> Rpc(q)

(* Inline documents: only REST insists on having some, and GraphQL and a     *)
(* body in XML have no metadata to give.                                     *)
WithoutMetadata(documents) == [i \in DOMAIN documents |-> [documents[i] EXCEPT !.metadata = ""]]
TextBy(way, q, media) ==
    CASE way = "post"    -> decodeRequest(media, FALSE, q.stray,
                               IF q.documents = <<>> THEN Refused("ErrInvalidRequest")
                               ELSE [Documents |-> IF canonicalMedia(media) = mimeXML
                                                   THEN WithoutMetadata(q.documents)
                                                   ELSE q.documents])
      [] way = "grpc"    -> [Documents |-> q.documents]
      [] way = "graphql" ->
           IF q.stray THEN Refused("ErrInvalidRequest")
           ELSE [Documents |-> WithoutMetadata(q.documents)]

(* The service's own first check and default. *)
Taken(asked) ==
    IF "error" \in DOMAIN asked THEN asked
    ELSE IF asked.Topic \in {"", " "} THEN Refused("ErrTopicRequired")
    ELSE [asked EXCEPT !.LimitPerPlatform = IF @ <= 0 THEN 20 ELSE @]

-----------------------------------------------------------------------------
(* An error: the sentinels it wraps, and the gRPC status it wraps if any.   *)
sentinels ==
    << <<"ErrTopicRequired", "BadRequest">>, <<"ErrInvalidRequest", "BadRequest">>,
       <<"errYAMLRequestBody", "Unsupported">>, <<"ErrNoPlatforms", "NoCapacity">>,
       <<"ErrAllConnectorsFailed", "Upstream">>, <<"context.DeadlineExceeded", "Timeout">> >>
statuses ==
    << <<"DeadlineExceeded", "Timeout">>, <<"Unavailable", "Upstream">>,
       <<"ResourceExhausted", "Internal">>, <<"InvalidArgument", "BadRequest">> >>

(* Seeded bug: the wrapped status is looked at first. *)
classifyByStatus(err) ==
    LET statusHits == {i \in DOMAIN statuses : statuses[i][1] = err.code}
        hits == {i \in DOMAIN sentinels : sentinels[i][1] \in err.is}
    IN  IF statusHits # {} THEN statuses[Min(statusHits)][2]
        ELSE IF hits # {} THEN sentinels[Min(hits)][2] ELSE "Internal"

classify(err) ==
    LET hits == {i \in DOMAIN sentinels : sentinels[i][1] \in err.is}
        statusHits == {i \in DOMAIN statuses : statuses[i][1] = err.code}
    IN  IF hits # {} THEN sentinels[Min(hits)][2]
        ELSE IF statusHits # {} THEN statuses[Min(statusHits)][2] ELSE "Internal"

httpStatusFor(err) ==
    [BadRequest |-> 400, Unsupported |-> 415, Upstream |-> 502, Timeout |-> 504,
     NoCapacity |-> 503, Internal |-> 500][classify(err)]

grpcCodeFor(err) ==
    [BadRequest |-> "InvalidArgument", Unsupported |-> "InvalidArgument",
     Upstream |-> "Unavailable", Timeout |-> "DeadlineExceeded",
     NoCapacity |-> "FailedPrecondition", Internal |-> "Internal"][classify(err)]

-----------------------------------------------------------------------------
scoreColumns(s) ==
    <<s.label, s.confidence, s.polarity,
      s.probabilities["negative"], s.probabilities["neutral"], s.probabilities["positive"]>>

textCSVHeader ==
    <<"index", "label", "confidence", "polarity", "p_negative", "p_neutral", "p_positive">>
topicCSVHeader ==
    <<"platform", "doc_id", "created_at", "label", "confidence", "polarity",
      "p_negative", "p_neutral", "p_positive", "text">>

writeTextCSV(results) ==
    [i \in DOMAIN results |-> <<i - 1>> \o scoreColumns(results[i].overall)]

(* A result: its document [platform, id, created_at, text] and its score.   *)
writeTopicCSV(results) ==
    [i \in DOMAIN results |->
       LET doc == results[i].document
       IN  <<doc.platform, doc.id, doc.created_at>> \o scoreColumns(results[i].overall)
             \o <<doc.text>>]

(* The documents, one per line, and the aggregate last. *)
writeTopicNDJSON(a) == a.results \o <<[aggregate |-> a.aggregate]>>

(* What a successful topic response carries. *)
Parts == {"results", "aggregate", "by_platform", "by_aspect", "partial", "warnings"}
RestParts(format) ==
    CASE format = mimeCSV    -> {"results"}
      [] format = mimeNDJSON -> {"results", "aggregate"}
      [] OTHER               -> Parts
GraphQLParts == Parts \ {"by_platform", "by_aspect"}
GrpcParts == Parts

(* Errors take the negotiated form, except that CSV has none for them.      *)
ErrorFormat(format) == IF format = mimeCSV THEN mimeJSON ELSE format
=============================================================================
