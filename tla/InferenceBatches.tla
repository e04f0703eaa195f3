-------------------------- MODULE InferenceBatches --------------------------
(***************************************************************************)
(* How the inference client cuts its work into calls the worker accepts    *)
(* and puts the scores back in place (api/internal/inference/client.go,    *)
(* batch.go).  A text is a record with the length it is sorted by.           *)
(***************************************************************************)
EXTENDS Orderings, SequencesExt, FiniteSetsExt

CONSTANTS
    Scores(_, _),        \* what the worker (external), in its state, answers
    AspectScores(_, _),  \* to a call of Classify and one of ClassifyAspects
    maxBatch,            \* texts per call (WithMaxBatch)
    aspectBatchMultiple, \* aspects per call, in batches
    FAILED               \* an error instead of scores

ASSUME BatchAssumption == maxBatch \in Nat \ {0} /\ aspectBatchMultiple \in Nat \ {0}

(* protoLabelToDomain and its inverse: what is not known is unspecified.    *)
protoLabelToDomain ==
    [SENTIMENT_NEGATIVE |-> "negative", SENTIMENT_NEUTRAL |-> "neutral",
     SENTIMENT_POSITIVE |-> "positive", SENTIMENT_UNSPECIFIED |-> "unspecified"]

DomainLabelToProto(label) ==
    CHOOSE l \in DOMAIN protoLabelToDomain : protoLabelToDomain[l] = label

ProtoToScore(s) == [label |-> protoLabelToDomain[s.label], polarity |-> s.polarity]

(* 1..n in consecutive ranges of at most limit. *)
chunkRanges(n, limit) ==
    [k \in 1..((n + limit - 1) \div limit) |->
       [first |-> (k - 1) * limit + 1, last |-> Min({k * limit, n})]]

(* The positions of texts, the shortest first, equals as they came.         *)
shorter(texts) ==
    {p \in (DOMAIN texts) \X (DOMAIN texts) :
       \/ texts[p[1]].length < texts[p[2]].length
       \/ texts[p[1]].length = texts[p[2]].length /\ p[1] < p[2]}

lengthOrder(texts) == InOrder(DOMAIN texts, shorter(texts))

(* The windows of an order that go into one call each. *)
Windows(order, limit) ==
    LET ranges == chunkRanges(Len(order), limit)
    IN  [k \in DOMAIN ranges |-> SubSeq(order, ranges[k].first, ranges[k].last)]

(* Seeded bug: the k-th score goes to the k-th text. *)
PlaceInOrder(texts, windows, replies) ==
    LET scores == FlattenSeq(replies)
    IN  [i \in DOMAIN texts |-> ProtoToScore(scores[i])]

(* out[window[i]] = scores[i]. *)
Place(texts, windows, replies) ==
    [i \in DOMAIN texts |->
       LET k == CHOOSE k \in DOMAIN windows : i \in Range(windows[k])
           at == CHOOSE at \in DOMAIN windows[k] : windows[k][at] = i
       IN  ProtoToScore(replies[k][at])]

AsksFor(texts, window) == [at \in DOMAIN window |-> texts[window[at]]]

(* One call of Classify per window: FAILED as soon as a call fails or its   *)
(* scores are not as many as its texts.                                      *)
Gathered(texts, windows, replies) ==
    IF \A k \in DOMAIN windows : replies[k] # FAILED /\ Len(replies[k]) = Len(windows[k])
    THEN Place(texts, windows, replies)
    ELSE FAILED

InWindows(texts, windows, worker) ==
    Gathered(texts, windows, [k \in DOMAIN windows |-> Scores(worker, AsksFor(texts, windows[k]))])

Classify(texts, worker) == InWindows(texts, Windows(lengthOrder(texts), maxBatch), worker)

-----------------------------------------------------------------------------
(* An item is a text with its aspects.  One ref per pair, the shortest      *)
(* text first, the aspects of a text together.                              *)
aspectRefs(items) ==
    LET order == lengthOrder(items)
    IN  FlattenSeq([k \in DOMAIN order |->
          [p \in DOMAIN items[order[k]].aspects |-> [item |-> order[k], pos |-> p]]])

(* The runs of refs with the same item. *)
groupByItem(refs) ==
    LET starts == {i \in DOMAIN refs : i = 1 \/ refs[i].item # refs[i - 1].item}
        begins == Ascending(starts)
    IN  [g \in DOMAIN begins |->
           SubSeq(refs, begins[g], IF g = Len(begins) THEN Len(refs) ELSE begins[g + 1] - 1)]

(* One call: a row per group, a score per aspect. *)
CallInputs(items, groups) ==
    [g \in DOMAIN groups |->
       [text |-> items[groups[g][1].item].text,
        aspects |-> [a \in DOMAIN groups[g] |->
                       items[groups[g][a].item].aspects[groups[g][a].pos]]]]

Accepted(reply, groups) ==
    /\ reply # FAILED
    /\ Len(reply) = Len(groups)
    /\ \A g \in DOMAIN groups : Len(reply[g]) = Len(groups[g])

(* Each score back to its item and position. *)
ScoreOfPair(groups, replies, ref) ==
    LET k == CHOOSE k \in DOMAIN groups : \E g \in DOMAIN groups[k] : ref \in Range(groups[k][g])
        g == CHOOSE g \in DOMAIN groups[k] : ref \in Range(groups[k][g])
        a == CHOOSE a \in DOMAIN groups[k][g] : groups[k][g][a] = ref
    IN  [replies[k][g][a] EXCEPT !.score = ProtoToScore(@)]

GatheredPairs(items, groups, replies) ==
    IF \A k \in DOMAIN groups : Accepted(replies[k], groups[k])
    THEN [i \in DOMAIN items |->
            [p \in DOMAIN items[i].aspects |->
               ScoreOfPair(groups, replies, [item |-> i, pos |-> p])]]
    ELSE FAILED

InGroups(items, groups, worker) ==
    GatheredPairs(items, groups,
        [k \in DOMAIN groups |-> AspectScores(worker, CallInputs(items, groups[k]))])

GroupsOf(calls) == [k \in DOMAIN calls |-> groupByItem(calls[k])]

ClassifyAspects(items, worker) ==
    InGroups(items, GroupsOf(Windows(aspectRefs(items), maxBatch * aspectBatchMultiple)), worker)
=============================================================================
