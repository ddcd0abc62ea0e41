------------------------------ MODULE MCApply ------------------------------
(* Apply for TLC: the configurations choose scenario, faults and bounds. *)
EXTENDS Apply
=============================================================================
