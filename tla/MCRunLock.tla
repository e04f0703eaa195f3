------------------------------ MODULE MCRunLock ------------------------------
(* Three executions, the first two of the same Modal input: a run, its     *)
(* preemption retry and a rival.                                           *)
EXTENDS RunLock

CONSTANTS e1, e2, e3, inA, inB

MCInputOf == [e \in {e1, e2, e3} |-> IF e = e3 THEN inB ELSE inA]
Rivals == [e \in {e1, e3} |-> IF e = e3 THEN inB ELSE inA]
=============================================================================
