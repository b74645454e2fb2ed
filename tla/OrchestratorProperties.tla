----------------------- MODULE OrchestratorProperties -----------------------
(***************************************************************************)
(* What the orchestrator must get right, whatever the interleaving of its  *)
(* threads, the answers of the hypervisors and the exits of VMs.           *)
(***************************************************************************)
EXTENDS Orchestrator

DcEvent == [type : {"add", "release", "gap"}, vm : Consumers, offsets : SUBSET Slots]

RevokeEvent == [type : {"revoke"}, region : Regions, size : Nat]

Request ==
  [left : Nat, rsvd : SUBSET Ids, unbacked : SUBSET Ids, last_path : Nat, at : Nat,
   region : Regions \cup {NoRegion}, chunk : SUBSET Ids, granted : Nat,
   give_back : Nat, live : SUBSET Ids]

Stages == {"idle", "claim", "qmp", "wait", "remove"}

Released == [stage : Stages, offsets : SUBSET Slots]

Region == [donated : Nat, revoked_owed : Nat, allocations : SUBSET Ids]

Labels ==
  {"idle", "reserve", "inner", "donate", "confirm", "give_back", "commit", "unbacked",
   "unbacking", "retain", "wait_add", "partition", "respond",
   "organize", "consumers", "donors", "unused", "revoke", "select", "done",
   "exit", "consumer", "donor"}

Device == [offered : SUBSET Slots, present : SUBSET Slots, releasing : SUBSET Slots]

(***************************************************************************)
(* The types of the orchestrator's state, its threads' locals and the      *)
(* hypervisors. Counters that the code keeps unsigned (donated,            *)
(* revoked_owed, remaining) never go below zero.                           *)
(***************************************************************************)
TypeOK ==
  /\ nextId \in Nat \ {0}
  /\ alloc \in [Ids -> Allocation]
  /\ region \in [Regions -> Region]
  /\ areas \in [Consumers -> [Slots -> Ids \cup {0}]]
  /\ vms \subseteq VMs /\ exited \subseteq VMs /\ alive \subseteq VMs
  /\ pc \in [Threads -> Labels]
  /\ cont \in [Threads -> {"idle", "unbacked", "respond", "done", "consumer"}]
  /\ req \in [Consumers -> Request]
  /\ revoke \in [Revokers -> [region : Regions \cup {NoRegion}, remaining : Nat]]
  /\ leaving \in VMs \cup {0}
  /\ todo \in [Threads -> SUBSET Ids] /\ scan \in [Threads -> SUBSET Ids]
  /\ rel \in [Threads -> [Consumers -> Released]]
  /\ duty \in [Threads -> [Regions -> SUBSET Ids]]
  /\ book \in [Threads -> [Regions -> BOOLEAN]]
  /\ evt \in DcEvent \cup {NoEvent}
  /\ events \in [VMs -> Seq(DcEvent \cup RevokeEvent)]
  /\ held \in [Regions -> Int] /\ asked \in [Regions -> Nat]
  /\ dcd \in [Consumers -> Device]
  /\ budget \in [requests : Nat, revokes : Nat, faults : Nat]

(***************************************************************************)
(* The memory of an allocation is returned to its donor by one thread      *)
(* only: a revoke, the request that made it and the removal of either VM   *)
(* may all try, but one of them takes the donor out of the allocation.     *)
(***************************************************************************)
SingleReturner ==
  \A t, u \in Threads, q, r \in Regions :
    <<t, q>> # <<u, r>> => duty[t][q] \cap duty[u][r] = {}

(***************************************************************************)
(* commit_allocation never panics: when a request thread commits an        *)
(* allocation, no donor was recorded in it and no revoke claimed it.       *)
(***************************************************************************)
CommitNeverPanics ==
  \A c \in Consumers : pc[c] = "commit" => \A i \in req[c].chunk : MayCommit(alloc[i])

(***************************************************************************)
(* An allocation that is in use, or claimed by a revoke, is in the map of  *)
(* the region that backs it: otherwise no revoke could find it and its     *)
(* return would not be booked.                                             *)
(***************************************************************************)
CommittedIsTracked ==
  \A i \in Ids : alloc[i].state \in {"Committed", "PendingRelease"} =>
    alloc[i].donor_info # NoRegion /\ i \in region[alloc[i].donor_info].allocations
-----------------------------------------------------------------------------
(***************************************************************************)
(* The invariants that make the three preceding ones inductive.            *)
(***************************************************************************)

(* What a request thread still has to commit is its own, and untouched by  *)
(* any donor; it may only have been abandoned.                             *)
PendingIsUncommitted ==
  \A c \in Consumers : \A i \in req[c].unbacked \cup req[c].chunk :
    MayCommit(alloc[i]) /\ alloc[i].consumer_vm = c

(* While memory is reserved, rsvd and unbacked are the same allocations. *)
ReservingIsUnbacked ==
  \A c \in Consumers : pc[c] = "reserve" => req[c].rsvd = req[c].unbacked

(* From the reservation in a region to the commit, the chunk is in its map. *)
ChunkIsTracked ==
  \A c \in Consumers : pc[c] \in {"donate", "confirm", "give_back", "commit"} =>
    req[c].chunk \subseteq region[req[c].region].allocations

(* What a thread has to return was abandoned, and is backed by that region. *)
DutyIsAbandoned ==
  \A t \in Threads, r \in Regions : \A i \in duty[t][r] :
    alloc[i].state = "Abandoned" /\ alloc[i].donor_info = r

(* A thread that works on a region has one. *)
RegionIsKnown ==
  /\ \A c \in Consumers : pc[c] \in {"donate", "confirm", "give_back", "commit"} =>
       req[c].region # NoRegion
  /\ \A t \in Revokers : pc[t] \in {"revoke", "select"} => revoke[t].region # NoRegion

(* The detection thread releases the areas of the consumer it removes. *)
LeavingIsKnown ==
  /\ pc[Detector] = "exit" => leaving \in VMs
  /\ "consumer" \in {pc[Detector], cont[Detector]} => leaving \in Consumers
  /\ pc[Detector] \notin {"organize", "consumers", "donors"} => cont[Detector] = "idle"

WellFormed == TypeOK /\ RegionIsKnown /\ LeavingIsKnown

Lifecycle ==
  /\ WellFormed /\ PendingIsUncommitted /\ ReservingIsUnbacked /\ ChunkIsTracked
  /\ DutyIsAbandoned /\ SingleReturner /\ CommittedIsTracked

-----------------------------------------------------------------------------
(***************************************************************************)
(* donated counts at least the allocations in the map, and at most the     *)
(* size of the region: size - donated never wraps around, and the          *)
(* "returning more memory than it has donated" branch is never taken.      *)
(***************************************************************************)
DonatedCoversAllocations ==
  \A r \in Regions :
    /\ Granularity * Cardinality(region[r].allocations) <= region[r].donated
    /\ region[r].donated <= RegionSize[r]

(***************************************************************************)
(* A donor is never given back more than it gave: what it counts as given  *)
(* away covers every allocation in use and every return still to be made.  *)
(***************************************************************************)
InUse(r) == { i \in Ids : /\ alloc[i].state \in {"Committed", "PendingRelease"}
                         /\ alloc[i].donor_info = r }

Unreturned(r) == { i \in Ids : \E t \in Threads : i \in duty[t][r] /\ ~book[t][r] }

NeverOverReturned ==
  \A r \in Regions :
    held[r] >= Granularity * (Cardinality(InUse(r)) + Cardinality(Unreturned(r)))

-----------------------------------------------------------------------------
(***************************************************************************)
(* The invariants that make the accounts of a region inductive.            *)
(***************************************************************************)

(* Units of r that a request thread was granted and has neither matched    *)
(* with allocations nor given back yet, by thread.                         *)
Loose(r) ==
  [c \in Consumers |->
     IF req[c].region # r THEN 0
     ELSE IF pc[c] = "confirm" THEN req[c].granted
     ELSE IF pc[c] = "give_back" THEN req[c].give_back ELSE 0]

Units(f) == UNION { {x} \X (1..f[x]) : x \in DOMAIN f }

(* Allocations that a grant of r backs and that are yet to be committed. *)
Confirming(r) ==
  { i \in Ids : \E c \in Consumers : /\ pc[c] \in {"give_back", "commit"}
                                     /\ req[c].region = r /\ i \in req[c].chunk }

Backed(r) == InUse(r) \cup Unreturned(r) \cup Confirming(r)

(* No command failed so far, and the donor of r can still answer. *)
FaultFree(r) == budget.faults = MaxFaults /\ DonorOf[r] \in alive

(* What the donor of r counts as given away covers all that has to go back *)
(* to it, and is no more than that as long as no command failed.           *)
Due(r) == Granularity * Cardinality(Backed(r)) + Cardinality(Units(Loose(r)))

Covered(r) ==
  /\ IsFiniteSet(Units(Loose(r)))
  /\ held[r] >= Due(r)
  /\ FaultFree(r) => held[r] = Due(r)

HeldCoversDue == \A r \in Regions : Covered(r)

(* As long as no command failed, a region's map holds only what is in use, *)
(* being lent or being returned.                                           *)
Lending(r) ==
  { i \in Ids : \E c \in Consumers : /\ pc[c] \in {"donate", "confirm", "give_back", "commit"}
                                     /\ req[c].region = r /\ i \in req[c].chunk }

InReturn(r) == { i \in Ids : \E t \in Threads : i \in duty[t][r] }

MapIsAccounted ==
  \A r \in Regions :
    FaultFree(r) => region[r].allocations \subseteq InUse(r) \cup Lending(r) \cup InReturn(r)

(* A donor grants no more than it was asked for; debts are whole granules. *)
GrantIsBounded ==
  \A c \in Consumers :
    pc[c] = "confirm" => req[c].granted <= Granularity * Cardinality(req[c].chunk)

OwedIsWhole == \A r \in Regions : region[r].revoked_owed % Granularity = 0

(* A VM that is marked as exited does not run. *)
ExitedIsDead ==
  exited \cap alive = {} /\ (pc[Detector] = "exit" => leaving \notin alive)

FaultsAreBounded == budget.faults <= MaxFaults

(* A thread has something to return only while it commits a chunk or runs  *)
(* return_eph_memory_from_consumer.                                        *)
DutyIsTimely ==
  \A t \in Threads, r \in Regions : duty[t][r] # {} =>
    \/ pc[t] \in {"organize", "consumers", "donors"}
    \/ t \in Consumers /\ pc[t] = "commit" /\ req[t].region = r

AccountsKept ==
  /\ DonatedCoversAllocations /\ OwedIsWhole /\ GrantIsBounded /\ ExitedIsDead
  /\ FaultsAreBounded /\ DutyIsTimely /\ HeldCoversDue /\ MapIsAccounted

-----------------------------------------------------------------------------
(***************************************************************************)
(* The invariants that make RevokeDebtRecorded inductive: until a revoke   *)
(* is paid for, it is an event, the rest of a scan, a claimed allocation,  *)
(* a return to be made or a debt of the region.                            *)
(***************************************************************************)

(* Allocations of r that a revoke claimed, or that are to be returned. *)
Owing(r) ==
  { i \in Ids : alloc[i].state = "PendingRelease" /\ alloc[i].donor_info = r }
    \cup Unreturned(r)

(* Units of r that a thread is about to give back, or still to claim. *)
Carried(r) ==
  [t \in Consumers \cup Revokers |->
     IF t \in Consumers
     THEN IF pc[t] = "give_back" /\ req[t].region = r THEN req[t].give_back ELSE 0
     ELSE IF revoke[t].region = r THEN Granularity * revoke[t].remaining ELSE 0]

(* Units of r that the revoke events in the queue q ask for. *)
Demand(e, r) == IF e.type = "revoke" /\ e.region = r THEN e.size ELSE 0

Wanted(q, r) == [k \in DOMAIN q |-> Demand(q[k], r)]

Debt(r) ==
  region[r].revoked_owed + Granularity * Cardinality(Owing(r))
    + Cardinality(Units(Carried(r))) + Cardinality(Units(Wanted(events[DonorOf[r]], r)))

Owes(r) ==
  /\ IsFiniteSet(Units(Carried(r))) /\ IsFiniteSet(Units(Wanted(events[DonorOf[r]], r)))
  /\ FaultFree(r) => asked[r] <= Debt(r)

AskedIsCovered == \A r \in Regions : Owes(r)

AliveIsListed == alive \subseteq vms

(* A revoke works on a region only while it scans the region's map, which  *)
(* the donor's mutex keeps from shrinking.                                 *)
ScanIsMapped ==
  \A t \in Revokers :
    /\ pc[t] \notin {"revoke", "select"} => revoke[t].region = NoRegion
    /\ pc[t] = "select" => scan[t] \subseteq region[revoke[t].region].allocations

(* Thread t is about to see where allocation i belongs.  That is done for  *)
(* every allocation that a revoke claimed.                                 *)
ToOrganize(t, i) == i \in todo[t] /\ pc[t] \in {"select", "organize"}

ClaimedIsOrganized ==
  \A i \in Ids : alloc[i].state = "PendingRelease" => \E t \in Threads : ToOrganize(t, i)

DebtKept == AskedIsCovered /\ AliveIsListed /\ ScanIsMapped /\ ClaimedIsOrganized

-----------------------------------------------------------------------------
(***************************************************************************)
(* The invariants that make SlotsAreCommitted inductive.                   *)
(***************************************************************************)

(* What is at a slot of a consumer was reserved there. *)
AreasInPlace ==
  \A c \in Consumers, s \in Slots : areas[c][s] # 0 =>
    alloc[areas[c][s]].consumer_vm = c /\ alloc[areas[c][s]].consumer_offset = s

(* release_reserved_memory runs in the middle of a return or, at the       *)
(* thread's own consumer, after the donors; offsets are collected before.  *)
ReleaseIsTimely ==
  \A t \in Threads, c \in Consumers :
    /\ rel[t][c].stage # "idle" => pc[t] = "consumers" \/ (pc[t] = "unbacking" /\ c = t)
    /\ rel[t][c].stage = "idle" /\ rel[t][c].offsets # {} => pc[t] = "organize"

(* A request has unbacked allocations until it has released them. *)
Seeking(label, after) ==
  \/ label \in {"reserve", "inner", "donate", "confirm", "give_back", "commit",
               "unbacked", "unbacking"}
  \/ label = "donors" /\ after = "unbacked"

UnbackedIsTimely ==
  \A c \in Consumers : req[c].unbacked # {} => Seeking(pc[c], cont[c])

ExitedIsUnlisted ==
  exited \cap vms = {} /\ (pc[Detector] = "exit" => leaving \notin vms)

(* Thread t takes slot s away from the guest of c, or is about to. *)
Releasing(t, c, s) ==
  s \in rel[t][c].offsets /\ rel[t][c].stage \in {"qmp", "wait", "remove"}

ToRelease(t, c, s) ==
  s \in rel[t][c].offsets /\ rel[t][c].stage \in {"idle", "claim"}

(* Allocation i at slot s of c is in use, or some thread will release it. *)
Answered(c, s, i) ==
  /\ alloc[i].release_requested => \E t \in Threads : Releasing(t, c, s)
  /\ ~alloc[i].release_requested =>
       /\ alloc[i].state = "PendingCommit" =>
            /\ i \in req[c].unbacked
            /\ pc[c] = "unbacking" => rel[c][c].stage = "claim" /\ s \in rel[c][c].offsets
       /\ alloc[i].state = "PendingRelease" => \E t \in Threads : ToOrganize(t, i)
       /\ alloc[i].state = "Abandoned" => \E t \in Threads : ToRelease(t, c, s)

SlotsAreAnswered ==
  \A c \in Consumers \cap vms, s \in Slots :
    areas[c][s] # 0 => Answered(c, s, areas[c][s])

SlotsKept ==
  /\ AreasInPlace /\ ReleaseIsTimely /\ UnbackedIsTimely /\ ExitedIsUnlisted
  /\ SlotsAreAnswered

-----------------------------------------------------------------------------
(* No thread is working and no event is on its way. *)
Quiet ==
  /\ \A t \in Threads : pc[t] \in {"idle", "unused", "done"}
  /\ evt = NoEvent /\ \A v \in VMs : events[v] = <<>>
  /\ \A v \in VMs : v \in vms => v \in alive

(***************************************************************************)
(* Nothing leaks on the donor's side: when the orchestrator is quiet and   *)
(* no command of a running VM failed, a donor counts as given away exactly *)
(* the allocations in the map of its region, and each of them is in use.   *)
(***************************************************************************)
DonorAccountsBalance ==
  (Quiet /\ budget.faults = MaxFaults) =>
    \A r \in Regions : DonorOf[r] \in vms =>
      /\ held[r] = Granularity * Cardinality(region[r].allocations)
      /\ region[r].allocations = InUse(r)

(***************************************************************************)
(* Nothing leaks on the consumer's side: when the orchestrator is quiet,   *)
(* each slot taken in the DCD device of a VM is taken by a committed       *)
(* allocation, so a slot that backs nothing can be reserved again.         *)
(***************************************************************************)
SlotsAreCommitted ==
  Quiet =>
    \A c \in Consumers \cap vms, s \in Slots :
      areas[c][s] # 0 => is_committed(alloc[areas[c][s]])

(***************************************************************************)
(* A committed allocation of a VM in the list is the one in                *)
(* allocated_areas at its offset: the consumer owns a copy of it, as the   *)
(* comment on EphAllocation says. The code does not keep this:             *)
(* release_reserved_memory waits for offsets and removes by offset, so a   *)
(* slow release takes out the next allocation at the same offset.          *)
(***************************************************************************)
CommittedKeepsSlot ==
  \A i \in Ids :
    LET c == alloc[i].consumer_vm
    IN  (is_committed(alloc[i]) /\ c \in vms) => areas[c][alloc[i].consumer_offset] = i

(***************************************************************************)
(* When the orchestrator is quiet and no command failed, what a donor      *)
(* revoked and has not got back is recorded as owed in the region, so that *)
(* the next donation pays for it: a revoke is never forgotten.             *)
(***************************************************************************)
RevokeDebtRecorded ==
  (Quiet /\ budget.faults = MaxFaults) =>
    \A r \in Regions : DonorOf[r] \in vms => asked[r] <= region[r].revoked_owed

(***************************************************************************)
(* Every request is finished: no wait, lock or failed command keeps the    *)
(* thread of a consumer in handle_eph_mem_request for ever.                *)
(***************************************************************************)
RequestCompletes == \A c \in Consumers : pc[c] # "idle" ~> pc[c] = "idle"

(***************************************************************************)
(* An allocation that a revoke has claimed leaves the map of its region,   *)
(* that is, its memory is returned and the return is booked, unless the    *)
(* donor exits first.                                                      *)
(***************************************************************************)
ClaimedIsReturned ==
  \A i \in 1..(MaxRequests * MaxRequestSize), r \in Regions :
    (i \in InUse(r) /\ alloc[i].state = "PendingRelease")
      ~> (i \notin region[r].allocations \/ DonorOf[r] \notin alive)

(***************************************************************************)
(* The removal of a VM comes to an end, so that the detection thread can   *)
(* see the next VM. It holds when a donor exits.  When a consumer exits    *)
(* the code does not keep it: release_all_allocations repeats until        *)
(* allocated_areas is empty, and return_eph_memory_from_consumer leaves    *)
(* the areas of a consumer that has exited where they are.                 *)
(***************************************************************************)
ExitCompletes == pc[Detector] # "idle" ~> pc[Detector] = "idle"
=============================================================================
