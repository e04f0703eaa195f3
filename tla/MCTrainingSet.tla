---------------------------- MODULE MCTrainingSet ----------------------------
(* Every corpus of up to three rows and one tombstone over two platforms, *)
(* two post ids, two texts and an author column that may be absent.        *)
EXTENDS Preparation, TLC

Platforms == {"bluesky", "hackernews"}
DocIds == {1, 2}
AuthorIds == {"alice", NULL}

MCOrder == [p \in Platforms, d \in DocIds |-> IF p = "bluesky" THEN d ELSE 3 - d]

MCCorpusRows ==
    [platform : Platforms, doc : DocIds, author : AuthorIds,
     content : {"x", "y"}, chars : {5}, created : {1, NULL}]
    \cup [platform : {"bluesky"}, doc : {1}, author : {NULL},
          content : {"x"}, chars : {3, 4, 6, 7}, created : {0}]
MCCorpusTombstones ==
    [platform : Platforms, scope : {"doc"}, doc : DocIds, author : {"alice"}]
    \cup [platform : Platforms, scope : {"account"}, doc : {NULL}, author : {"alice"}]
=============================================================================
