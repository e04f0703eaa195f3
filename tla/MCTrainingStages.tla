-------------------------- MODULE MCTrainingStages --------------------------
(* One run that is resumed, and another that begins before or after it. *)
EXTENDS TrainingStages, TLC

CONSTANTS r1, r2, c1, c2

MCItems == 1..3
TwoItems == 1..2
Swapped == Permutations(Containers)
=============================================================================
