------------------------------ MODULE MCCorpus ------------------------------
(* Two posts of two authors and the revocations of both kinds. *)
EXTENDS Corpus

CONSTANTS d1, d2, alice, bob

MCRow == 1..MaxEvents
TwoDocs == [d \in {d1, d2} |-> IF d = d1 THEN alice ELSE bob]

PostsAndRevocations ==
    [op : {"create"}, doc : Docs] \cup [op : {"delete"}, doc : {d1}]
    \cup [op : {"deactivate"}, author : {bob}]
=============================================================================
