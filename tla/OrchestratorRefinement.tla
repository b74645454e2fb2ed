----------------------- MODULE OrchestratorRefinement -----------------------
(***************************************************************************)
(* The orchestrator implements MemoryLoan: what each thread does to an     *)
(* EphAllocation, to the map of a region and to its own list of returns is *)
(* a step of the loan of one granule, or of several of one lender.         *)
(***************************************************************************)
EXTENDS OrchestratorProperties

(* Allocations a thread has yet to return, and those it has yet to book. *)
Returning(i) == \E t \in Threads, r \in Regions : i \in duty[t][r] /\ ~book[t][r]

Booking(i) == \E t \in Threads, r \in Regions : i \in duty[t][r] /\ book[t][r]

(***************************************************************************)
(* The phase of the loan, read off the allocation's state, the threads     *)
(* that work on it and the map of its region.                              *)
(***************************************************************************)
LoanPhase(i) ==
  CASE alloc[i].state = "PendingCommit"  -> "asked"
    [] alloc[i].state = "Committed"      -> "lent"
    [] alloc[i].state = "PendingRelease" -> "recalled"
    [] alloc[i].state = "Abandoned"      ->
         IF alloc[i].donor_info = NoRegion THEN "cancelled"
         ELSE IF Booking(i) THEN "returned"
         ELSE IF Returning(i) THEN "returning"
         ELSE IF i \in region[alloc[i].donor_info].allocations THEN "lost"
         ELSE "settled"

Loan == INSTANCE MemoryLoan WITH
          count  <- nextId - 1,
          phase  <- [i \in Ids |-> LoanPhase(i)],
          lender <- [i \in Ids |-> alloc[i].donor_info],
          gone   <- { r \in Regions : DonorOf[r] \in exited }

-----------------------------------------------------------------------------
(***************************************************************************)
(* What the refinement rests on besides the life cycle of an allocation.   *)
(***************************************************************************)

(* Only a thread in the last loop of return_eph_memory_from_consumer books *)
(* returns, and it stops when nothing is left to book.                     *)
BookingIsDue ==
  \A t \in Threads, r \in Regions : book[t][r] => pc[t] = "donors" /\ duty[t][r] # {}

(* What a thread has to return or to book is still in the region's map. *)
DutyIsTracked ==
  \A t \in Threads, r \in Regions : duty[t][r] \subseteq region[r].allocations

(* A request never has more left to reserve than it asked for. *)
RequestIsBounded == \A c \in Consumers : req[c].left <= MaxRequestSize

(* An allocation is pending until commit_allocation records its donor. *)
PendingHasNoDonor ==
  \A i \in Ids : alloc[i].state = "PendingCommit" => alloc[i].donor_info = NoRegion

LoanKept ==
  Lifecycle /\ BookingIsDue /\ DutyIsTracked /\ RequestIsBounded /\ PendingHasNoDonor

-----------------------------------------------------------------------------
(***************************************************************************)
(* Every granule is lent once, recalled at most once, and goes back to its *)
(* lender exactly once, however many requests, revokes and removals of     *)
(* VMs reach its EphAllocation.                                            *)
(***************************************************************************)
LoansAreHonoured == Loan!Spec
=============================================================================
