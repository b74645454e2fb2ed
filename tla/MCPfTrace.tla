----------------------------- MODULE MCPfTrace -----------------------------
(* Values of the constants of PfTrace for the model checker. *)
EXTENDS PfTrace, TLC

CONSTANTS a1, a2, b1

(* Two threads of one process and one of another. *)
TwoProcesses == (a1 :> 1) @@ (a2 :> 1) @@ (b1 :> 2)

(* The two threads of the first process can be exchanged. *)
Alike == Permutations({a1, a2})
=============================================================================
