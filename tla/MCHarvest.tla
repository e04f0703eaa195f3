------------------------------ MODULE MCHarvest ------------------------------
(* One author with one post, or two posts of two authors; the position of  *)
(* an event is its time, so rows are the positions.                        *)
EXTENDS Harvest

CONSTANTS d1, d2, alice, bob

MCRow == 1..MaxEvents
Posted == [op : {"create"}, doc : Docs]
Deleted == [op : {"delete"}, doc : Docs]
Deactivated == [op : {"deactivate"}, author : Authors]
Other == [op : {"other"}]

PostsDeletesOthers == Posted \cup Deleted \cup Other
PostsAndDeletes == Posted \cup Deleted
PostsAndRevocations == Posted \cup Deleted \cup Deactivated

OneDoc == [d \in {d1} |-> alice]
TwoDocs == [d \in {d1, d2} |-> IF d = d1 THEN alice ELSE bob]
=============================================================================
