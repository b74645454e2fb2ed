---------------------------- MODULE EphAllocation ----------------------------
(***************************************************************************)
(* struct EphAllocation of eph_orchestrator/src/main.rs: one granule of    *)
(* ephemeral memory, shared by the consumer that maps it, the donor that   *)
(* backs it and every thread that works on either.  Its state is guarded   *)
(* by the allocation's own mutex, so each operator below is one atomic     *)
(* step; the three OnceLock fields can only go from unset to set.          *)
(*                                                                         *)
(* In every module, an operator Name_Fault is a deliberately wrong variant *)
(* of Name.  No specification uses it: PROJECT.json lists which property   *)
(* fails when it replaces Name.                                            *)
(***************************************************************************)
EXTENDS Integers

CONSTANTS
  Consumers,   (* VMs with a DCD device, numbered in the order of their path *)
  Regions,     (* donatable memory devices, over all donors                  *)
  NumSlots     (* granules in a consumer's DCD device                        *)

NoRegion == 0  (* donor_info is unset *)

ASSUME AllocationAssumption ==
  /\ Consumers \subseteq Nat \ {0}
  /\ Regions \subseteq Nat \ {0}
  /\ NumSlots \in Nat

AllocState == {"PendingCommit", "Committed", "PendingRelease", "Abandoned"}

Slots == 0..(NumSlots - 1)

Allocation ==
  [consumer_vm : Consumers, consumer_offset : Slots, state : AllocState,
   donor_info : Regions \cup {NoRegion},
   dcd_set : BOOLEAN, release_requested : BOOLEAN]

(* EphAllocation::new *)
NewAllocation(c, slot) ==
  [consumer_vm |-> c, consumer_offset |-> slot, state |-> "PendingCommit",
   donor_info |-> NoRegion, dcd_set |-> FALSE, release_requested |-> FALSE]

(* The panic and the OnceLock::set failure of commit_allocation. *)
MayCommit(a) ==
  /\ a.donor_info = NoRegion
  /\ a.state \in {"PendingCommit", "Abandoned"}

commit_allocation_Revives(a, r) == [a EXCEPT !.donor_info = r, !.state = "Committed"]

(* commit_allocation; it returns false for an abandoned allocation. *)
commit_allocation(a, r) ==
  [a EXCEPT !.donor_info = r,
            !.state = IF a.state = "PendingCommit" THEN "Committed" ELSE @]

is_committed_Faulty(a) == a.state \in {"PendingCommit", "Committed"}

is_committed(a) == a.state = "Committed"

(* try_claim_for_revoke, when it returns true. *)
try_claim_for_revoke(a) == [a EXCEPT !.state = "PendingRelease"]

(* abandon_or_take_donor: the new state, and whether it yields the donor. *)
TakesDonor_AlsoTwice(a) == a.donor_info # NoRegion /\ a.state # "PendingCommit"

TakesDonor_NotIfClaimed(a) == is_committed(a)

TakesDonor(a) == a.state \in {"Committed", "PendingRelease"}

abandon(a) == [a EXCEPT !.state = "Abandoned"]

is_live(a) == a.dcd_set /\ is_committed(a) /\ ~a.release_requested
=============================================================================
