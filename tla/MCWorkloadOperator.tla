------------------------ MODULE MCWorkloadOperator -------------------------
(* Small instances of the operator with its history, for TLC. *)
EXTENDS WorkloadHistory, MCWorkloadPlans
=============================================================================
