------------------------------ MODULE Analysis ------------------------------
(***************************************************************************)
(* What the service makes of the documents it has: Service.AnalyzeText and *)
(* the second half of Service.AnalyzeTopic (api/internal/service/service.go), *)
(* the aggregates (api/internal/domain/domain.go) and the scores of the     *)
(* heuristic client (api/internal/inference/fake.go).  A score is            *)
(* [label, polarity]; a mean is kept as its sum and its count.               *)
(***************************************************************************)
EXTENDS InferenceBatches

(* FakeClient's score of a text with so many good and bad words: neutral    *)
(* weighs half a word, ties are neutral.  Of the polarity only the sign is  *)
(* kept.                                                                     *)
fakeScore(good, bad) ==
    [label |-> CASE good > bad -> "positive" [] bad > good -> "negative" [] OTHER -> "neutral",
     polarity |-> good - bad]

(* Seeded bug: neutral does not take part. *)
ModalPole(scores, count) ==
    IF scores = <<>> THEN "unspecified"
    ELSE IF count["positive"] >= count["negative"] THEN "positive" ELSE "negative"

(* The most frequent label; neutral wins ties, then positive.               *)
Modal(scores, count) ==
    LET most == Max({count[l] : l \in DOMAIN count \ {"unspecified"}})
    IN  CASE scores = <<>>           -> "unspecified"
          [] scores # <<>> /\ count["neutral"] = most -> "neutral"
          [] scores # <<>> /\ count["neutral"] # most ->
               IF count["positive"] = most THEN "positive" ELSE "negative"

(* Aggregator.Add of every score and Aggregate; an unspecified label is      *)
(* counted but never modal.                                                  *)
Aggregate(scores) ==
    LET count == [l \in Range(protoLabelToDomain) |->
                    Cardinality({i \in DOMAIN scores : scores[i].label = l})]
    IN  [sum |-> FoldLeft(LAMBDA total, s : total + s.polarity, 0, scores),
         size |-> Len(scores), counts |-> count, modal |-> Modal(scores, count)]

-----------------------------------------------------------------------------
(* The row of document i among those that were asked about.                 *)
RowOf(indices, i) == CHOOSE k \in DOMAIN indices : indices[k] = i

(* The documents the worker is asked about: those with aspects. *)
AskedAbout(docs, includeAspects) ==
    Ascending({i \in DOMAIN docs : includeAspects /\ docs[i].aspects # <<>>})

TextResults(docs, asked, scores, rows) ==
    IF scores = FAILED \/ rows = FAILED THEN FAILED
    ELSE [results |-> [i \in DOMAIN docs |->
            [id |-> docs[i].id, overall |-> scores[i],
             aspects |-> IF i \in Range(asked) /\ RowOf(asked, i) \in DOMAIN rows
                         THEN rows[RowOf(asked, i)] ELSE <<>>]],
          aggregate |-> Aggregate(scores)]

TextAsked(docs, asked, worker) ==
    TextResults(docs, asked, Classify(docs, worker),
                ClassifyAspects([k \in DOMAIN asked |-> docs[asked[k]]], worker))

(* AnalyzeText: FAILED, or a result per document and the aggregate.         *)
AnalyzeText(docs, includeAspects, worker) ==
    TextAsked(docs, AskedAbout(docs, includeAspects), worker)

ScoresOf(results) == [i \in DOMAIN results |-> results[i].overall]
ScoresSaid(hits) == [i \in DOMAIN hits |-> hits[i].score]

(* The aggregates over all documents, by platform and by aspect. *)
TopicAggregates(results, said) ==
    [results |-> results,
     aggregate |-> Aggregate(ScoresOf(results)),
     by_platform |-> [p \in {r.platform : r \in Range(results)} |->
         Aggregate(ScoresOf(Those(results, LAMBDA r : r.platform = p)))],
     by_aspect |-> [a \in {s.aspect : s \in Range(said)} |->
         Aggregate(ScoresSaid(Those(said, LAMBDA s : s.aspect = a)))]]

TopicResults(docs, scores, rows) ==
    IF scores = FAILED \/ rows = FAILED THEN FAILED
    ELSE TopicAggregates(
             [i \in DOMAIN docs |-> [id |-> docs[i].id, platform |-> docs[i].platform,
                                     overall |-> scores[i], aspects |-> rows[i]]],
             FlattenSeq(rows))

(* AnalyzeTopic from the deduplicated documents on: every document with the *)
(* request's aspects.                                                        *)
AnalyzeDocuments(docs, aspects, worker) ==
    TopicResults(docs, Classify(docs, worker),
        IF aspects = <<>> THEN [i \in DOMAIN docs |-> <<>>]
        ELSE ClassifyAspects([i \in DOMAIN docs |-> [docs[i] EXCEPT !.aspects = aspects]], worker))
=============================================================================
