--------------------------- MODULE MCOrchestrator ---------------------------
(* Values of the constants of Orchestrator for the model checker. *)
EXTENDS OrchestratorRefinement

(* Region r belongs to donor 10 + r: consumers come before donors. *)
OneRegionEach == [r \in Regions |-> 10 + r]

(* Every region belongs to VM 2, which is a consumer as well. *)
AllOfVm2 == [r \in Regions |-> 2]

(* Regions with room for one or two granules, and a remainder. *)
OneGranule  == [r \in Regions |-> 2 * Granularity - 1]
TwoGranules == [r \in Regions |-> 3 * Granularity - 1]

(* A run of the bounded model ends when nothing is left to be done. *)
Stopped == Quiet /\ UNCHANGED vars

MCSpec == Init /\ [][Next \/ Stopped]_vars

MCFairSpec == MCSpec /\ Fairness
=============================================================================
