----------------------------- MODULE MCPocCache -----------------------------
(* Values of the constants of PocCache for the model checker. *)
EXTENDS PocCache

CONSTANT worker

(* The handles are numbered; the worker has number 0. *)
WorkerHandle == [t \in {worker} |-> 0]

(* The process has ended. *)
Ended == process # "running" /\ UNCHANGED vars

MCSpec == Init /\ [][Next \/ Ended]_vars
=============================================================================
