---------------------------- MODULE MCVmRegistry ----------------------------
(* Values of the constants of VmRegistry for the model checker. *)
EXTENDS VmRegistry

(* Two VMs share a path, a third one has its own. *)
TwoShare == [v \in Vms |-> IF v = 3 THEN 2 ELSE 1]
=============================================================================
