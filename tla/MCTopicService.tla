--------------------------- MODULE MCTopicService ---------------------------
(* rss joins feeds, reddit shares a token behind a mutex, and youtube is    *)
(* open only to who brings a key.                                           *)
EXTENDS TopicService, TLC

CONSTANTS c1, c2, rss, reddit, youtube, none, alice

MCUnlocks == [k \in {none, alice} |-> IF k = none THEN {} ELSE {youtube}]
MCFolded == [a \in {"tesla", "TESLA"} |-> "tesla"]
MCJoined == [l \in {<<>>, <<"fee", "ui">>, <<"fee,ui">>} |-> IF l = <<>> THEN "" ELSE "fee,ui"]

(* A question of all platforms over REST and, spelled differently, over     *)
(* gRPC; one of reddit with aspects; one of youtube with a key, and one     *)
(* without; and one of rss alone.                                           *)
Rest == [ask |-> "tesla", want |-> {}, creds |-> none, aspects |-> <<>>, rest |-> TRUE]
Grpc == [Rest EXCEPT !.ask = "TESLA", !.rest = FALSE]
Keyed == [Rest EXCEPT !.want = {youtube}, !.creds = alice]
Aspects == [Grpc EXCEPT !.want = {reddit}, !.aspects = <<"fee", "ui">>]
Closed == [Rest EXCEPT !.want = {youtube}]
FeedsOnly == [Rest EXCEPT !.want = {rss}]

Swapped == Permutations(Callers)

JustRest == {FeedsOnly}
MCRequests == {Rest, Grpc, Keyed, Aspects, Closed}
=============================================================================
