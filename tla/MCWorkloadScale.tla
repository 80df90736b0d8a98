--------------------------- MODULE MCWorkloadScale ---------------------------
(***************************************************************************)
(* Instances of WorkloadScale.                                             *)
(***************************************************************************)
EXTENDS WorkloadScale

AllInN1 == [w \in Workloads |-> "n1"]

=============================================================================
