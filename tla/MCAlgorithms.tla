---------------------------- MODULE MCAlgorithms ----------------------------
(***************************************************************************)
(* The algorithms that keep no state, each over every input of a bounded   *)
(* set.  A behaviour is about the one case it starts with.                 *)
(***************************************************************************)
EXTENDS MCTrainingSet, Algorithms

UpTo(n, S) == UNION {[1..k -> S] : k \in 0..n}

-----------------------------------------------------------------------------
(* Accept headers of up to three ranges, and ?format= beside short ones.    *)
Media == {mimeJSON, mimeXML, mimeCSV, <<"application", "csv">>, mimeHTML,
          <<"*", "*">>, <<"text", "*">>, <<"image", "png">>, NoType}

Headers ==
    /\ \E header \in UpTo(3, [media : Media, q : {NoType, 0, 1}]),
          export \in BOOLEAN, format \in {NoType, "xml", "csv", "yml", "toml"} :
         /\ format # NoType => Len(header) <= 1
         /\ given = [part |-> "header", header |-> header, format |-> format,
                     offered |-> IF export THEN analyzeOffers ELSE offers]

-----------------------------------------------------------------------------
(* Up to four documents, whose words are known by their place.  The worker  *)
(* scores them as the heuristic client does, keeps to its own ceilings, and *)
(* may lose or add a score in the call that has the first document, or be    *)
(* curt about that document's aspects alone.                                 *)
Worker == {"right", "loses", "adds", "down", "curt"}
Hard == 1
Documents ==
    [length : {1, 2}, platform : {"rss", "bluesky"},
     aspects : {<<>>, <<"ui">>, <<"ui", "fee", "ui">>}]

Batches ==
    \E docs \in UpTo(3, Documents) \cup UpTo(4, [length : {1, 2}, platform : {"rss"},
                            aspects : {<<>>, <<"ui", "fee">>, <<"ui", "fee", "app">>}]),
       includeAspects \in BOOLEAN, worker \in Worker :
      given = [part |-> "batch", worker |-> worker, hard |-> Hard, includeAspects |-> includeAspects,
               aspects |-> <<"fee", "ui">>,
               docs |-> [i \in DOMAIN docs |-> docs[i] @@ [id |-> i, text |-> i]]]

MCLabelOf(text, aspect) ==
    IF aspect = "fee" THEN fakeScore(text, 2) ELSE fakeScore(2, text)

OnTheWire(score) == [label |-> DomainLabelToProto(score.label), polarity |-> score.polarity]

Wrong(worker, reply) ==
    CASE worker = "right" -> reply
      [] worker = "loses" -> SubSeq(reply, 1, Len(reply) - 1)
      [] worker = "adds"  -> Append(reply, reply[1])
      [] worker = "down"  -> FAILED
      [] worker = "curt"  -> SubSeq(reply, 1, Len(reply) - 1)

MCScores(worker, batch) ==
    LET reply == [i \in DOMAIN batch |-> OnTheWire(LabelOf(batch[i].text, ""))]
    IN  IF Len(batch) > maxBatch THEN FAILED
        ELSE IF worker # "curt" /\ \E i \in DOMAIN batch : batch[i].text = Hard
        THEN Wrong(worker, reply) ELSE reply

MCAspectScores(worker, inputs) ==
    LET row(input) == [a \in DOMAIN input.aspects |->
                         [aspect |-> input.aspects[a],
                          score |-> OnTheWire(LabelOf(input.text, input.aspects[a]))]]
        pairs == FlattenSeq([g \in DOMAIN inputs |-> inputs[g].aspects])
    IN  IF Len(pairs) > 4 * maxBatch THEN FAILED
        ELSE [g \in DOMAIN inputs |->
                IF inputs[g].text = Hard /\ worker \in {"loses", "adds", "curt"}
                THEN Wrong(worker, row(inputs[g])) ELSE row(inputs[g])]

-----------------------------------------------------------------------------
(* A question whatever way it is asked, with names that are plain, blank or *)
(* hold a comma, and the errors the service may answer it with.             *)
NoValues == [k \in KeyNames |-> <<>>]
Names == {<<"rss">>, <<"fees">>, <<"">>, <<"rss", "fees">>}
KeysSent == {[NoValues EXCEPT !["YouTubeAPIKey"] = y, !["MastodonToken"] = m] :
               y \in {<<>>, <<"k">>, <<"k", "j">>}, m \in {<<>>, <<"t">>}}

Questions ==
    \E topic \in {"", " ", "tesla"}, platforms \in UpTo(2, Names),
       limit \in {-1, 0, 5, GARBLED}, aspects \in UpTo(1, Names),
       since \in {0, 60, GARBLED}, keys \in KeysSent, stray \in BOOLEAN,
       media \in {mimeJSON, <<"text", "xml">>, mimeYAML, NoType} :
      given = [part |-> "question", media |-> media,
               asked |-> [topic |-> topic, platforms |-> platforms, limit |-> limit,
                          aspects |-> aspects, language |-> "en", since |-> since,
                          location |-> "fr", keys |-> keys, stray |-> stray],
               text |-> [documents |-> [i \in DOMAIN platforms |->
                                          [text |-> i, metadata |-> IF i = 1 THEN "tag" ELSE ""]],
                         stray |-> stray]]

Errors ==
    \E is \in SUBSET {sentinels[i][1] : i \in DOMAIN sentinels},
       code \in {"none", "Internal"} \cup {statuses[i][1] : i \in DOMAIN statuses} :
      given = [part |-> "error", error |-> [is |-> is, code |-> code]]

-----------------------------------------------------------------------------
(* Searches: windows at the boundaries of every unit, topics with and        *)
(* without a ticker, and every mixture of the operator's and the caller's    *)
(* keys.                                                                     *)
TimeWindows == {0, 1, 60, 61, 900, 901, 2 * Hour - 1, 2 * Hour, 2 * Hour + 1, Day - 1, Day,
             Day + 1, 3 * Day - 1, 3 * Day, 3 * Day + 1, 30 * Day, 31 * Day, 400 * Day,
             MaxDuration - 1, MaxDuration, MaxDuration + 60}
MCfips == [germany |-> "GM", de |-> "GM", gambia |-> "GA", gm |-> "GA"]
Public == {"own.example"}
Word == [cashtag : BOOLEAN, ticker : BOOLEAN]
Topics == UpTo(2, Word) \ {<<>>}
AllKeys ==
    Load([batch |-> GARBAGE, perIP |-> 0, global |-> -5, mock |-> "true", reddit |-> "op-r",
          twitter |-> "op-t", youtube |-> "op-y", instance |-> "", mastodon |-> "op-m"])

Queries ==
    \/ \E topic \in Topics :
         given = [part |-> "search", public |-> Public, cfg |-> AllKeys,
                  query |-> [topic |-> topic, limit |-> 5, since |-> 60, location |-> "",
                             language |-> "", creds |-> NoKeys]]
    \/ \E since \in TimeWindows, limit \in {0, 1, 20, 45, 300},
          location \in {"", "germany", "gm", "paris"}, language \in {"", "de", "no"} :
         given = [part |-> "search", public |-> Public, cfg |-> AllKeys,
                  query |-> [topic |-> <<NoSymbol>>, limit |-> limit, since |-> since,
                             location |-> location, language |-> language, creds |-> NoKeys]]
    \/ \E mock \in {"", "1", "false", "yes"}, reddit \in {"", "op-r"}, youtube \in {"", "op-y"},
          mastodon \in {"", "op-m"}, instance \in {"", "op.example"}, batch \in {GARBAGE, 0, 8},
          y \in {"", "own-y"}, t \in {"", "own-m"}, i \in {"", "own.example", "intranet"} :
         given = [part |-> "search", public |-> Public,
                  cfg |-> Load([batch |-> batch, perIP |-> 5, global |-> 0, mock |-> mock,
                                reddit |-> reddit, twitter |-> "", youtube |-> youtube,
                                instance |-> instance, mastodon |-> mastodon]),
                  query |-> [topic |-> <<NoSymbol>>, limit |-> 5, since |-> 60,
                             location |-> "", language |-> "",
                             creds |-> [YouTubeAPIKey |-> y, MastodonToken |-> t,
                                        MastodonInstance |-> i]]]

(* Up to two posts of any platform; keys repeat between authors on Bluesky   *)
(* and between feeds.                                                        *)
PostsOf(p, owners, titles, bodies, ages, about) ==
    [platform : {p}, owner : owners, key : {1, 2}, title : titles, body : bodies, age : ages,
     about : about]
Posts ==
    UNION {PostsOf("bluesky", {"a", "b"}, {""}, {" ", "words"}, {1}, {TRUE}),
           PostsOf("rss", {"a", "b"}, {"title"}, {"<p>", "words"}, {-1, 1, 99}, BOOLEAN),
           PostsOf("mastodon", {"a"}, {""}, {"<p>", "words"}, {-1, 1, 99}, {TRUE}),
           PostsOf("hackernews", {"a"}, {"", "title"}, {"", "words"}, {1}, {TRUE}),
           PostsOf("gdelt", {"a"}, {" ", "title"}, {""}, {-1, 1}, {TRUE}),
           PostsOf("reddit", {"a"}, {" ", "title"}, {"", "words"}, {1}, {TRUE}),
           PostsOf("stocktwits", {"a"}, {""}, {"", "words"}, {1}, {TRUE}),
           PostsOf("twitter", {"a"}, {""}, {"words"}, {1}, {TRUE}),
           PostsOf("youtube", {"a"}, {"title"}, {"", "words"}, {1}, {TRUE})}

Arrivals ==
    \E posts \in UpTo(2, Posts), since \in {0, 60, MaxDuration + 60}, limit \in {1, 5} :
      given = [part |-> "posts", posts |-> posts, cfg |-> AllKeys, public |-> Public,
               query |-> [topic |-> <<[cashtag |-> TRUE, ticker |-> TRUE]>>, limit |-> limit,
                          since |-> since, location |-> "", language |-> "", creds |-> NoKeys]]

-----------------------------------------------------------------------------
Corpora == given = [part |-> "corpus"]

AlgorithmsInit ==
    /\ PrepInit
    /\ \/ Corpora \/ Headers \/ Batches \/ Questions \/ Errors \/ Queries \/ Arrivals

AlgorithmsNext == given.part = "corpus" /\ PrepNext /\ UNCHANGED given

AlgorithmsSpec == AlgorithmsInit /\ [][AlgorithmsNext]_<<prepVars, given>>
=============================================================================
