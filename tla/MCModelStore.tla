---------------------------- MODULE MCModelStore ----------------------------
(* A poller and another caller of refresh(), two runs, two builds. *)
EXTENDS ModelStore

CONSTANTS poller, caller, r1, r2, b1, b2
=============================================================================
