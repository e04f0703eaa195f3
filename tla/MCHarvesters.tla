---------------------------- MODULE MCHarvesters ----------------------------
(* The firehose of MCHarvest, or a pass over two feeds or queries whose list *)
(* has a blank in it.                                                        *)
EXTENDS MCHarvest, Harvesters

MCListed == <<"first", "", "second">>
MCCurated == <<"default">>
Titled == [title : {TRUE}, summary : BOOLEAN]
MCAnswers == {<<>>} \cup {<<i>> : i \in Item} \cup {<<i, j>> : i \in Titled, j \in Item}
=============================================================================
