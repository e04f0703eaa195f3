----------------------------- MODULE ServedModel -----------------------------
(***************************************************************************)
(* What a worker promises of the student it serves: in each of its lives   *)
(* nothing until the first good promotion, from then on always the whole   *)
(* of a build that was promoted, under the name it was promoted by, and a  *)
(* promotion that goes wrong leaves the one before in place.               *)
(***************************************************************************)
EXTENDS Naturals

CONSTANTS Runs, Builds, NULL

VARIABLES
    promoted,    \* what the pointer has ever said
    serving,     \* what requests are answered by, or NULL
    life         \* counts the worker's restarts

vars == <<promoted, serving, life>>

Promotion == [run : Runs, build : Builds]

Init == promoted = {} /\ serving = NULL /\ life = 0

Promote(p) ==
    /\ promoted' = promoted \cup {p}
    /\ UNCHANGED <<serving, life>>

(* Also a rollback, to what was promoted before. *)
Swap(p) ==
    /\ p \in promoted
    /\ serving' = p
    /\ UNCHANGED <<promoted, life>>

Restart ==
    /\ serving' = NULL
    /\ life' = life + 1
    /\ UNCHANGED promoted

Next == Restart \/ \E p \in Promotion : Promote(p) \/ Swap(p)

Spec == Init /\ [][Next]_vars
=============================================================================
