------------------------------ MODULE Orderings ------------------------------
(* Sets and sequences put in order, as Go's sort, append and range do it.   *)
EXTENDS Integers, Sequences, FiniteSets

(* A set in the order of a relation: the k-th comes after k - 1 others.     *)
InOrder(S, before) ==
    [k \in 1..Cardinality(S) |->
       CHOOSE x \in S : Cardinality({y \in S : <<y, x>> \in before}) = k - 1]

(* Numbers, the least first. *)
Ascending(S) == InOrder(S, {p \in S \X S : p[1] < p[2]})

(* The members of a sequence that stand at some of its places.              *)
AtPlaces(s, places) ==
    LET order == Ascending(places) IN [k \in DOMAIN order |-> s[order[k]]]

(* Those that pass a test: if (!test) { continue }; out = append(out, x).   *)
Those(s, Test(_)) == AtPlaces(s, {i \in DOMAIN s : Test(s[i])})
=============================================================================
