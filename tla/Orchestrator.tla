----------------------------- MODULE Orchestrator -----------------------------
(***************************************************************************)
(* The memory life cycle of eph_orchestrator: consumers request ephemeral  *)
(* memory, donors grant and revoke it, VMs exit, and the threads that do   *)
(* the work race with each other.                                          *)
(*                                                                         *)
(* Threads.  One request thread per consumer (consumer_thread, which       *)
(* handles one request at a time), one thread per revoke event, the        *)
(* detection thread that removes exited VMs, and the event thread.  A      *)
(* thread is identified by its consumer, by a member of Revokers, or by    *)
(* Detector; the event thread has its own variable.                        *)
(*                                                                         *)
(* Atomicity.  A step is one critical section under the consumer's or the  *)
(* allocation's mutex, or one QMP or vsock exchange.  A donor's mutex is   *)
(* held over several steps only where the code works on allocations one    *)
(* by one while holding it (DonorLocked), and the read lock of the VmList  *)
(* where it goes from donor to donor (ListRead).                           *)
(*                                                                         *)
(* The hypervisors are not part of the repository.  They are the variables *)
(* held, asked, dcd, alive and events, modelled from how the orchestrator  *)
(* uses the QMP commands and events.                                       *)
(***************************************************************************)
EXTENDS EphAllocation, DonorRegion, DcdSpace, Sequences

CONSTANTS
  Donors,           (* VMs with donatable regions; may overlap Consumers    *)
  DonorOf,          (* the donor each region belongs to                     *)
  RegionSize,       (* DonatableRegion.size, in units                       *)
  Revokers,         (* bound: the threads, and so the revokes, of a run     *)
  Detector,         (* the VM detection thread                              *)
  MayExit,          (* the VMs that may exit                                *)
  MaxRequests,      (* bound: requests of all consumers together            *)
  MaxRequestSize,   (* bound: granules asked for by one request             *)
  MaxFaults,        (* bound: QMP or vsock failures of a running VM         *)
  SlowGuest         (* TRUE: a guest may let the 1 s waits time out         *)

VMs == Consumers \cup Donors
Threads == Consumers \cup Revokers \cup {Detector}

ASSUME OrchestratorAssumption ==
  /\ Donors \subseteq Nat \ {0}
  /\ DonorOf \in [Regions -> Donors]
  /\ RegionSize \in [Regions -> Nat]
  /\ IsFiniteSet(Revokers) /\ Revokers \cap VMs = {} /\ Detector \notin VMs \cup Revokers
  /\ MayExit \subseteq VMs
  /\ MaxRequests \in Nat /\ MaxRequestSize \in Nat /\ MaxFaults \in Nat
  /\ SlowGuest \in BOOLEAN
  \* Regions are numbered donor by donor, in the order of the donors' paths.
  /\ \A q, r \in Regions : q < r => DonorOf[q] <= DonorOf[r]

VARIABLES
  \* State of the orchestrator, shared by its threads.
  alloc,       (* the EphAllocations, by id                                 *)
  nextId,      (* ALLOC_ID_COUNTER                                          *)
  region,      (* DonatableRegions                                          *)
  areas,       (* allocated_areas of each consumer: slot -> id, or 0        *)
  vms,         (* the VmList                                                *)
  exited,      (* VMs whose exited flag is set                              *)
  \* Local state of its threads.
  pc, cont,    (* where a thread is, and where it returns to                *)
  req,         (* locals of handle_eph_mem_request and allocate_eph_memory  *)
  revoke,      (* locals of revoke_eph_memory                               *)
  leaving,     (* the VM the detection thread is removing, or 0             *)
  todo, scan,  (* allocations still to be worked on by a loop               *)
  rel,         (* release_reserved_memory, by thread and consumer           *)
  duty, book,  (* return_and_bookkeep_eph_memory, by thread and region      *)
  evt,         (* the event thread                                          *)
  \* The hypervisors and guests (external).
  alive,       (* VMs that still run                                        *)
  held,        (* units each region's donor counts as given away            *)
  asked,       (* units each region's donor revoked and is waiting for      *)
  dcd,         (* slots offered to, present in and being taken from a guest *)
  events,      (* QMP events of each VM that are not yet handled            *)
  budget       (* what is left of MaxRequests, |Revokers| and MaxFaults     *)

allocVars  == <<alloc, nextId, region, areas, vms, exited>>
threadVars == <<pc, cont, req, revoke, leaving, todo, scan, rel, duty, book, evt>>
vmVars     == <<alive, held, asked, dcd, events, budget>>
vars == <<allocVars, threadVars, vmVars>>

Ids == 1..(nextId - 1)

NoRequest == [left |-> 0, rsvd |-> {}, unbacked |-> {}, last_path |-> 0, at |-> 0,
              region |-> NoRegion, chunk |-> {}, granted |-> 0, give_back |-> 0,
              live |-> {}]
NoRelease == [stage |-> "idle", offsets |-> {}]
NoEvent   == [type |-> "none", vm |-> 0, offsets |-> {}]

Init ==
  /\ alloc = <<>> /\ nextId = 1
  /\ region = [r \in Regions |-> NewRegion]
  /\ areas = [c \in Consumers |-> [s \in Slots |-> 0]]
  /\ vms = VMs /\ exited = {}
  /\ pc = [t \in Threads |-> IF t \in Revokers THEN "unused" ELSE "idle"]
  /\ cont = [t \in Threads |-> "idle"]
  /\ req = [c \in Consumers |-> NoRequest]
  /\ revoke = [t \in Revokers |-> [region |-> NoRegion, remaining |-> 0]]
  /\ leaving = 0
  /\ todo = [t \in Threads |-> {}] /\ scan = [t \in Threads |-> {}]
  /\ rel = [t \in Threads |-> [c \in Consumers |-> NoRelease]]
  /\ duty = [t \in Threads |-> [r \in Regions |-> {}]]
  /\ book = [t \in Threads |-> [r \in Regions |-> FALSE]]
  /\ evt = NoEvent
  /\ alive = VMs
  /\ held = [r \in Regions |-> 0] /\ asked = [r \in Regions |-> 0]
  /\ dcd = [c \in Consumers |-> [offered |-> {}, present |-> {}, releasing |-> {}]]
  /\ events = [v \in VMs |-> <<>>]
  /\ budget = [requests |-> MaxRequests, revokes |-> Cardinality(Revokers),
               faults |-> MaxFaults]

-----------------------------------------------------------------------------
(***************************************************************************)
(* Locks, and steps between the program points of a thread.                *)
(***************************************************************************)

(* A thread that examines allocations under the mutex of donor d. *)
DonorLocked(d) ==
  \/ \E t \in Revokers : pc[t] = "select" /\ DonorOf[revoke[t].region] = d
  \/ pc[Detector] = "select" /\ leaving = d

(* A request thread is between two donors of allocate_eph_memory_inner. *)
ListRead == \E c \in Consumers : pc[c] = "inner" /\ req[c].at > req[c].last_path

Goto(t, label) == pc' = [pc EXCEPT ![t] = label]

(* The call return_eph_memory_from_consumer(ids); the thread goes on at after. *)
CallReturn(t, ids, after) ==
  /\ pc' = [pc EXCEPT ![t] = "organize"]
  /\ cont' = [cont EXCEPT ![t] = after]
  /\ todo' = [todo EXCEPT ![t] = ids]

(* The order in which a thread goes through a vector of allocations. *)
Before(t, i, j) ==
  IF t \in Revokers THEN i > j
  ELSE IF t = Detector /\ cont[t] = "consumer"
  THEN alloc[i].consumer_offset < alloc[j].consumer_offset
  ELSE IF t = Detector /\ alloc[i].donor_info # alloc[j].donor_info
  THEN alloc[i].donor_info < alloc[j].donor_info
  ELSE i < j

IsHead(t, i, ids) == i \in ids /\ \A j \in ids \ {i} : Before(t, i, j)

(* A QMP or vsock exchange with VM v succeeds or fails. *)
IoOk(v) == v \in alive /\ UNCHANGED budget
IoErr(v) ==
  \/ v \notin alive /\ UNCHANGED budget
  \/ /\ v \in alive /\ budget.faults > 0
     /\ budget' = [budget EXCEPT !.faults = @ - 1]

(* Slots of VM c in events of a type that the event thread has yet to handle. *)
Announced(c, type) ==
  UNION { e.offsets : e \in { e \in { events[c][k] : k \in DOMAIN events[c] } \cup {evt} :
                                e.type = type /\ e.vm = c } }

(* The timer of a wait for the slots S of c fires, given those on their way. *)
TimerFires_Never(c, S, coming) == FALSE

TimerFires(c, S, coming) ==
  SlowGuest \/ c \notin alive \/ ~(S \subseteq coming)

-----------------------------------------------------------------------------
(***************************************************************************)
(* The request thread of consumer c: handle_eph_mem_request.               *)
(***************************************************************************)

(* A request for n granules (rounded up) is read from the vsock stream. *)
RequestArrives(c, n) ==
  /\ pc[c] = "idle" /\ budget.requests > 0
  /\ budget' = [budget EXCEPT !.requests = @ - 1]
  /\ req' = [req EXCEPT ![c] = [NoRequest EXCEPT !.left = n]]
  /\ Goto(c, "reserve")
  /\ UNCHANGED <<allocVars, cont, revoke, leaving, todo, scan, rel, duty, book,
                 evt, alive, held, asked, dcd, events>>

(* The slots one call of reserve_memory_contig takes, as a range lo..hi-1. *)
ContigRun(c) ==
  ChosenRun({ s \in Slots : areas[c][s] # 0 }, NumSlots, MinOf(req[c].left, NumSlots))

(* One iteration of reserve_memory; it ends the loop when the run is empty *)
(* or nothing is left.  Without any allocation the request fails.          *)
ReserveContig(c) ==
  /\ pc[c] = "reserve"
  /\ LET run   == ContigRun(c)
         n     == run[2] - run[1]
         new   == nextId..(nextId + n - 1)
         rsvd  == req[c].rsvd \cup new
         ended == n = 0 \/ n = req[c].left
     IN  /\ alloc' = [i \in 1..(nextId + n - 1) |->
                        IF i < nextId THEN alloc[i]
                        ELSE NewAllocation(c, run[1] + (i - nextId))]
         /\ nextId' = nextId + n
         /\ areas' = [areas EXCEPT ![c] = [s \in Slots |->
                        IF run[1] <= s /\ s < run[2] THEN nextId + (s - run[1]) ELSE @[s]]]
         /\ req' = [req EXCEPT ![c] =
                      IF ended /\ rsvd = {} THEN NoRequest
                      ELSE [req[c] EXCEPT !.left = IF ended THEN 0 ELSE req[c].left - n,
                                          !.rsvd = rsvd, !.unbacked = rsvd]]
         /\ Goto(c, IF ~ended THEN "reserve" ELSE IF rsvd = {} THEN "idle" ELSE "inner")
  /\ UNCHANGED <<region, vms, exited, cont, revoke, leaving, todo, scan, rel, duty,
                 book, evt, vmVars>>

-----------------------------------------------------------------------------
(***************************************************************************)
(* allocate_eph_memory: from donor to donor until every allocation is      *)
(* backed.                                                                 *)
(***************************************************************************)

(* d is the next donor of the list after the path at. *)
IsNextDonor(d, at) ==
  /\ d \in Donors \cap vms /\ d > at
  /\ \A e \in Donors \cap vms : e > at => d <= e

HasRoom(r) == FreeGranules(region[r], RegionSize[r]) > 0

(* r is the first region of donor d that can donate a granule. *)
IsFirstRoomy(r, d) ==
  /\ DonorOf[r] = d /\ HasRoom(r)
  /\ \A q \in Regions : DonorOf[q] = d /\ q < r => ~HasRoom(q)

(* The loop of allocate_eph_memory_inner passes over a donor without room. *)
InnerSkip(c) ==
  /\ pc[c] = "inner"
  /\ \E d \in Donors :
       /\ IsNextDonor(d, req[c].at) /\ ~DonorLocked(d)
       /\ \A r \in Regions : DonorOf[r] = d => ~HasRoom(r)
       /\ req' = [req EXCEPT ![c].at = d]
  /\ UNCHANGED <<allocVars, pc, cont, revoke, leaving, todo, scan, rel, duty, book,
                 evt, vmVars>>

(* It reserves as much as it can in the first region with room. *)
InnerTake(c) ==
  /\ pc[c] = "inner"
  /\ \E d \in Donors, r \in Regions :
       /\ IsNextDonor(d, req[c].at) /\ ~DonorLocked(d)
       /\ IsFirstRoomy(r, d)
       /\ LET n     == FreeGranules(region[r], RegionSize[r])
              chunk == Lowest(req[c].unbacked, n)
          IN  /\ region' = [region EXCEPT ![r] = Reserve(@, chunk)]
              /\ req' = [req EXCEPT ![c].region = r, ![c].chunk = chunk]
  /\ Goto(c, "donate")
  /\ UNCHANGED <<alloc, nextId, areas, vms, exited, cont, revoke, leaving, todo, scan,
                 rel, duty, book, evt, vmVars>>

(* It returns None: no donor is left to try. *)
InnerNone(c) ==
  /\ pc[c] = "inner"
  /\ \A d \in Donors \cap vms : d <= req[c].at
  /\ Goto(c, "unbacked")
  /\ UNCHANGED <<allocVars, cont, req, revoke, leaving, todo, scan, rel, duty, book,
                 evt, vmVars>>

(***************************************************************************)
(* eph-mem-donate-capacity: the donor grants what it likes, up to what was *)
(* asked for.  A failed command goes on as a grant of 0.                   *)
(***************************************************************************)
Donate(c) ==
  /\ pc[c] = "donate"
  /\ LET r == req[c].region
     IN  \/ /\ IoOk(DonorOf[r])
            /\ \E g \in 0..(Granularity * Cardinality(req[c].chunk)) :
                 /\ held' = [held EXCEPT ![r] = @ + g]
                 /\ req' = [req EXCEPT ![c].granted = g]
         \/ /\ IoErr(DonorOf[r])
            /\ req' = [req EXCEPT ![c].granted = 0]
            /\ UNCHANGED held
  /\ Goto(c, "confirm")
  /\ UNCHANGED <<allocVars, cont, revoke, leaving, todo, scan, rel, duty, book, evt,
                 alive, asked, dcd, events>>

(* handle_reserved_alloc under the donor's mutex. *)
Confirm(c) ==
  /\ pc[c] = "confirm" /\ ~DonorLocked(DonorOf[req[c].region])
  /\ LET r    == req[c].region
         ids  == req[c].chunk
         g    == req[c].granted
         back == GiveBackUnits(region[r], ids, g)
     IN  /\ region' = [region EXCEPT ![r] = handle_reserved_alloc(@, ids, g)]
         /\ req' = [req EXCEPT ![c].chunk = Confirmed(region[r], ids, g),
                               ![c].granted = 0, ![c].give_back = back]
         /\ Goto(c, IF back > 0 THEN "give_back" ELSE "commit")
  /\ UNCHANGED <<alloc, nextId, areas, vms, exited, cont, revoke, leaving, todo, scan,
                 rel, duty, book, evt, vmVars>>

(* The donor of r takes n units back. *)
DonorRegains(r, n) ==
  /\ held' = [held EXCEPT ![r] = @ - n]
  /\ asked' = [asked EXCEPT ![r] = IF @ > n THEN @ - n ELSE 0]

(* return_eph_memory of what was owed to a revoke or is not a granule. *)
GiveBack(c) ==
  /\ pc[c] = "give_back"
  /\ LET r == req[c].region
     IN  \/ IoOk(DonorOf[r]) /\ DonorRegains(r, req[c].give_back)
         \/ IoErr(DonorOf[r]) /\ UNCHANGED <<held, asked>>
  /\ req' = [req EXCEPT ![c].give_back = 0]
  /\ Goto(c, "commit")
  /\ UNCHANGED <<allocVars, cont, revoke, leaving, todo, scan, rel, duty, book, evt,
                 alive, dcd, events>>

(* commit_allocation of the next allocation; one that the consumer has     *)
(* abandoned goes to the allocations this thread must return.              *)
CommitOne(c) ==
  /\ pc[c] = "commit"
  /\ \E i \in req[c].chunk :
       LET r == req[c].region
       IN  /\ IsFirst(i, req[c].chunk)
           /\ MayCommit(alloc[i])
           /\ alloc' = [alloc EXCEPT ![i] = commit_allocation(@, r)]
           /\ duty' = IF alloc[i].state = "Abandoned"
                      THEN [duty EXCEPT ![c][r] = @ \cup {i}] ELSE duty
           /\ req' = [req EXCEPT ![c].chunk = @ \ {i}, ![c].unbacked = @ \ {i}]
  /\ UNCHANGED <<nextId, region, areas, vms, exited, pc, cont, revoke, leaving, todo,
                 scan, rel, book, evt, vmVars>>

(* The end of the loop's body: abandoned allocations are returned and end  *)
(* the loop, otherwise the next donor is tried.                            *)
CommitDone(c) ==
  /\ pc[c] = "commit" /\ req[c].chunk = {}
  /\ LET d == DonorOf[req[c].region]
     IN  req' = [req EXCEPT ![c].region = NoRegion, ![c].last_path = d, ![c].at = d]
  /\ IF duty[c][req[c].region] # {}
     THEN /\ Goto(c, "donors")
          /\ cont' = [cont EXCEPT ![c] = "unbacked"]
     ELSE /\ Goto(c, IF req[c].unbacked = {} THEN "unbacked" ELSE "inner")
          /\ UNCHANGED cont
  /\ UNCHANGED <<allocVars, revoke, leaving, todo, scan, rel, duty, book, evt, vmVars>>

-----------------------------------------------------------------------------
(***************************************************************************)
(* The rest of handle_eph_mem_request.                                     *)
(***************************************************************************)
OffsetsOf(ids) == { alloc[i].consumer_offset : i \in ids }

(* release_reserved_memory of the allocations no donor backs. *)
Unbacked(c) ==
  /\ pc[c] = "unbacked"
  /\ rel' = [rel EXCEPT ![c][c] =
               [stage |-> "claim", offsets |-> OffsetsOf(req[c].unbacked)]]
  /\ Goto(c, "unbacking")
  /\ UNCHANGED <<allocVars, cont, req, revoke, leaving, todo, scan, duty, book, evt, vmVars>>

UnbackedDone(c) ==
  /\ pc[c] = "unbacking" /\ rel[c][c].stage = "idle"
  /\ scan' = [scan EXCEPT ![c] = req[c].rsvd]
  /\ req' = [req EXCEPT ![c].unbacked = {}, ![c].last_path = 0, ![c].at = 0]
  /\ Goto(c, "retain")
  /\ UNCHANGED <<allocVars, cont, revoke, leaving, todo, rel, duty, book, evt, vmVars>>

(* rsvd_allocs.retain(..), one allocation at a time. *)
Retain(c) ==
  /\ pc[c] = "retain"
  /\ \E i \in scan[c] :
       /\ IsFirst(i, scan[c])
       /\ scan' = [scan EXCEPT ![c] = @ \ {i}]
       /\ req' = IF is_committed(alloc[i]) /\ ~alloc[i].release_requested THEN req
                 ELSE [req EXCEPT ![c].rsvd = @ \ {i}]
  /\ UNCHANGED <<allocVars, pc, cont, revoke, leaving, todo, rel, duty, book, evt, vmVars>>

RetainNone(c) ==
  /\ pc[c] = "retain" /\ scan[c] = {} /\ req[c].rsvd = {}
  /\ req' = [req EXCEPT ![c] = NoRequest]
  /\ Goto(c, "idle")
  /\ UNCHANGED <<allocVars, cont, revoke, leaving, todo, scan, rel, duty, book, evt, vmVars>>

(***************************************************************************)
(* cxl-add-dynamic-capacity: the hypervisor refuses an extent that it      *)
(* already has, and otherwise offers it to the guest.                      *)
(***************************************************************************)
AddCapacity(c) ==
  /\ pc[c] = "retain" /\ scan[c] = {} /\ req[c].rsvd # {}
  /\ LET S     == OffsetsOf(req[c].rsvd)
         clash == S \cap (dcd[c].offered \cup dcd[c].present) # {}
     IN  \/ /\ IoOk(c) /\ ~clash
            /\ dcd' = [dcd EXCEPT ![c].offered = @ \cup S]
            /\ Goto(c, "wait_add")
            /\ UNCHANGED <<cont, todo, req>>
         \/ /\ IoErr(c) \/ (IoOk(c) /\ clash)
            /\ CallReturn(c, req[c].rsvd, "idle")
            /\ req' = [req EXCEPT ![c] = NoRequest]
            /\ UNCHANGED dcd
  /\ UNCHANGED <<allocVars, revoke, leaving, scan, rel, duty, book, evt, alive, held,
                 asked, events>>

(* wait_for_add_dc: every extent was added or is being released, or the    *)
(* wait times out; either way the request goes on.                         *)
WaitAdd(c) ==
  /\ pc[c] = "wait_add"
  /\ LET waiting == { i \in req[c].rsvd : ~alloc[i].dcd_set /\ ~alloc[i].release_requested }
     IN  \/ waiting = {}
         \/ TimerFires(c, OffsetsOf(waiting), dcd[c].offered \cup Announced(c, "add"))
  /\ scan' = [scan EXCEPT ![c] = req[c].rsvd]
  /\ Goto(c, "partition")
  /\ UNCHANGED <<allocVars, cont, req, revoke, leaving, todo, rel, duty, book, evt, vmVars>>

(* partition(is_live), one allocation at a time. *)
Partition(c) ==
  /\ pc[c] = "partition"
  /\ \E i \in scan[c] :
       /\ IsFirst(i, scan[c])
       /\ scan' = [scan EXCEPT ![c] = @ \ {i}]
       /\ req' = IF is_live(alloc[i])
                 THEN [req EXCEPT ![c].rsvd = @ \ {i}, ![c].live = @ \cup {i}] ELSE req
  /\ UNCHANGED <<allocVars, pc, cont, revoke, leaving, todo, rel, duty, book, evt, vmVars>>

(* The dead allocations are returned. *)
PartitionDone(c) ==
  /\ pc[c] = "partition" /\ scan[c] = {}
  /\ req' = [req EXCEPT ![c].rsvd = {}]
  /\ IF req[c].rsvd # {}
     THEN CallReturn(c, req[c].rsvd, "respond")
     ELSE Goto(c, "respond") /\ UNCHANGED <<cont, todo>>
  /\ UNCHANGED <<allocVars, revoke, leaving, scan, rel, duty, book, evt, vmVars>>

(* send_consumer_response, or an error when nothing is live. *)
Respond(c) ==
  /\ pc[c] = "respond"
  /\ \/ /\ req[c].live = {} \/ c \in alive
        /\ Goto(c, "idle")
        /\ UNCHANGED <<cont, todo, budget>>
     \/ /\ req[c].live # {} /\ IoErr(c)
        /\ CallReturn(c, req[c].live, "idle")
  /\ req' = [req EXCEPT ![c] = NoRequest]
  /\ UNCHANGED <<allocVars, revoke, leaving, scan, rel, duty, book, evt, alive, held,
                 asked, dcd, events>>

-----------------------------------------------------------------------------
(***************************************************************************)
(* return_eph_memory_from_consumer, run by thread t on todo[t].            *)
(***************************************************************************)

(* One allocation is put in the groups of its consumer and of its donor,   *)
(* unless they exited, and is abandoned.                                   *)
OrganizeOne(t) ==
  /\ pc[t] = "organize"
  /\ \E i \in todo[t] :
       LET a == alloc[i]
           c == a.consumer_vm
           r == a.donor_info
       IN  /\ IsHead(t, i, todo[t])
           /\ todo' = [todo EXCEPT ![t] = @ \ {i}]
           /\ rel' = IF c \in exited THEN rel
                     ELSE [rel EXCEPT ![t][c].offsets = @ \cup {a.consumer_offset}]
           /\ alloc' = [alloc EXCEPT ![i] = abandon(@)]
           /\ duty' = IF TakesDonor(a) /\ DonorOf[r] \notin exited
                      THEN [duty EXCEPT ![t][r] = @ \cup {i}] ELSE duty
  /\ UNCHANGED <<nextId, region, areas, vms, exited, pc, cont, req, revoke, leaving,
                 scan, book, evt, vmVars>>

(* The consumers' groups are released in parallel. *)
OrganizeDone(t) ==
  /\ pc[t] = "organize" /\ todo[t] = {}
  /\ rel' = [rel EXCEPT ![t] = [c \in Consumers |->
               IF @[c].offsets = {} THEN NoRelease ELSE [@[c] EXCEPT !.stage = "claim"]]]
  /\ Goto(t, "consumers")
  /\ UNCHANGED <<allocVars, cont, req, revoke, leaving, todo, scan, duty, book, evt, vmVars>>

(* Then the donors' groups, in parallel. *)
ConsumersDone(t) ==
  /\ pc[t] = "consumers"
  /\ \A c \in Consumers : rel[t][c].stage = "idle"
  /\ Goto(t, "donors")
  /\ UNCHANGED <<allocVars, cont, req, revoke, leaving, todo, scan, rel, duty, book,
                 evt, vmVars>>

DonorsDone(t) ==
  /\ pc[t] = "donors"
  /\ \A r \in Regions : duty[t][r] = {}
  /\ Goto(t, cont[t])
  /\ cont' = [cont EXCEPT ![t] = "idle"]
  /\ UNCHANGED <<allocVars, req, revoke, leaving, todo, scan, rel, duty, book, evt, vmVars>>

(***************************************************************************)
(* release_reserved_memory by thread t at consumer c.                      *)
(***************************************************************************)

(* Under the consumer's mutex: claim what is at the offsets and not yet    *)
(* claimed, and remove what the guest has not added.                       *)
Claimable(t, c) ==
  { s \in rel[t][c].offsets : areas[c][s] # 0 /\ ~alloc[areas[c][s]].release_requested }

RelClaim(t, c) ==
  /\ rel[t][c].stage = "claim"
  /\ LET claimed == Claimable(t, c)
         ids     == { areas[c][s] : s \in claimed }
         added   == { s \in claimed : alloc[areas[c][s]].dcd_set }
     IN  /\ alloc' = [i \in Ids |-> IF i \in ids
                        THEN [alloc[i] EXCEPT !.release_requested = TRUE] ELSE alloc[i]]
         /\ areas' = [areas EXCEPT ![c] = [s \in Slots |->
                        IF s \in claimed \ added THEN 0 ELSE @[s]]]
         /\ rel' = [rel EXCEPT ![t][c] =
                      IF added = {} THEN NoRelease ELSE [stage |-> "qmp", offsets |-> added]]
  /\ UNCHANGED <<nextId, region, vms, exited, pc, cont, req, revoke, leaving, todo, scan,
                 duty, book, evt, vmVars>>

(* cxl-release-dynamic-capacity (forced): the hypervisor starts to take    *)
(* the slots away from the guest.                                          *)
ReleaseCommand(c, S) ==
  dcd' = [dcd EXCEPT ![c].releasing = @ \cup (S \cap dcd[c].present)]

RelQmp(t, c) ==
  /\ rel[t][c].stage = "qmp"
  /\ \/ /\ IoOk(c) /\ ReleaseCommand(c, rel[t][c].offsets)
        /\ rel' = [rel EXCEPT ![t][c].stage = "wait"]
     \/ /\ IoErr(c) /\ UNCHANGED dcd
        /\ rel' = [rel EXCEPT ![t][c].stage = "remove"]
  /\ UNCHANGED <<allocVars, pc, cont, req, revoke, leaving, todo, scan, duty, book, evt,
                 alive, held, asked, events>>

(* wait_for_release_dc looks for the offsets, not for the allocations. *)
RelWait(t, c) ==
  /\ rel[t][c].stage = "wait"
  /\ LET waiting == { s \in rel[t][c].offsets : areas[c][s] # 0 }
     IN  \/ /\ waiting = {}
            /\ rel' = [rel EXCEPT ![t][c] = NoRelease]
         \/ /\ waiting # {}
            /\ TimerFires(c, waiting, dcd[c].releasing \cup Announced(c, "release"))
            /\ rel' = [rel EXCEPT ![t][c].stage = "remove"]
  /\ UNCHANGED <<allocVars, pc, cont, req, revoke, leaving, todo, scan, duty, book, evt,
                 vmVars>>

(* The areas c has at the slots S are taken out of allocated_areas. *)
RemoveAreas_Skipped(c, S) == UNCHANGED areas

RemoveAreas(c, S) ==
  areas' = [areas EXCEPT ![c] = [s \in Slots |-> IF s \in S THEN 0 ELSE @[s]]]

(* manual_remove, after an error or a timeout. *)
RelRemove(t, c) ==
  /\ rel[t][c].stage = "remove"
  /\ RemoveAreas(c, rel[t][c].offsets)
  /\ rel' = [rel EXCEPT ![t][c] = NoRelease]
  /\ UNCHANGED <<alloc, nextId, region, vms, exited, pc, cont, req, revoke, leaving,
                 todo, scan, duty, book, evt, vmVars>>

(***************************************************************************)
(* return_and_bookkeep_eph_memory by thread t on region r.                 *)
(***************************************************************************)
DonQmp(t, r) ==
  /\ pc[t] = "donors" /\ duty[t][r] # {} /\ ~book[t][r]
  /\ \/ /\ IoOk(DonorOf[r])
        /\ DonorRegains(r, Granularity * Cardinality(duty[t][r]))
        /\ book' = [book EXCEPT ![t][r] = TRUE]
        /\ UNCHANGED duty
     \/ /\ IoErr(DonorOf[r])
        /\ duty' = [duty EXCEPT ![t][r] = {}]
        /\ UNCHANGED <<held, asked, book>>
  /\ UNCHANGED <<allocVars, pc, cont, req, revoke, leaving, todo, scan, rel, evt, alive,
                 dcd, events>>

DonBook(t, r) ==
  /\ book[t][r] /\ ~DonorLocked(DonorOf[r])
  /\ \E i \in duty[t][r] :
       /\ IsHead(t, i, duty[t][r])
       /\ region' = [region EXCEPT ![r] = bookkeep_returned_eph_memory(@, i)]
       /\ duty' = [duty EXCEPT ![t][r] = @ \ {i}]
       /\ book' = [book EXCEPT ![t][r] = duty[t][r] # {i}]
  /\ UNCHANGED <<alloc, nextId, areas, vms, exited, pc, cont, req, revoke, leaving, todo,
                 scan, rel, evt, vmVars>>

-----------------------------------------------------------------------------
(***************************************************************************)
(* revoke_eph_memory, in its own thread t.                                 *)
(***************************************************************************)
RevokeLock(t) ==
  /\ pc[t] = "revoke" /\ ~DonorLocked(DonorOf[revoke[t].region])
  /\ scan' = [scan EXCEPT ![t] = region[revoke[t].region].allocations]
  /\ Goto(t, "select")
  /\ UNCHANGED <<allocVars, cont, req, revoke, leaving, todo, rel, duty, book, evt, vmVars>>

(* try_claim_for_revoke, from the highest id down. *)
RevokeSelect(t) ==
  /\ pc[t] = "select" /\ revoke[t].remaining > 0
  /\ \E i \in scan[t] :
       /\ IsHead(t, i, scan[t])
       /\ scan' = [scan EXCEPT ![t] = @ \ {i}]
       /\ IF is_committed(alloc[i])
          THEN /\ alloc' = [alloc EXCEPT ![i] = try_claim_for_revoke(@)]
               /\ revoke' = [revoke EXCEPT ![t].remaining = @ - 1]
               /\ todo' = [todo EXCEPT ![t] = @ \cup {i}]
          ELSE UNCHANGED <<alloc, revoke, todo>>
  /\ UNCHANGED <<nextId, region, areas, vms, exited, pc, cont, req, leaving, rel, duty,
                 book, evt, vmVars>>

(* What could not be claimed is owed; the claimed allocations are returned. *)
RevokeReturn(t) ==
  /\ pc[t] = "select" /\ (revoke[t].remaining = 0 \/ scan[t] = {})
  /\ region' = [region EXCEPT ![revoke[t].region] = OweRest(@, revoke[t].remaining)]
  /\ scan' = [scan EXCEPT ![t] = {}]
  /\ revoke' = [revoke EXCEPT ![t] = [region |-> NoRegion, remaining |-> 0]]
  /\ CallReturn(t, todo[t], "done")
  /\ UNCHANGED <<alloc, nextId, areas, vms, exited, req, leaving, rel, duty, book, evt,
                 vmVars>>

-----------------------------------------------------------------------------
(***************************************************************************)
(* The detection thread: remove_vms when a VM's socket is gone.            *)
(***************************************************************************)
DetRemove(v) ==
  /\ pc[Detector] = "idle" /\ v \in vms \ alive /\ ~ListRead
  /\ vms' = vms \ {v}
  /\ leaving' = v
  /\ Goto(Detector, "exit")
  /\ UNCHANGED <<alloc, nextId, region, areas, exited, cont, req, revoke, todo, scan, rel,
                 duty, book, evt, vmVars>>

DetExited ==
  /\ pc[Detector] = "exit"
  /\ exited' = exited \cup {leaving}
  /\ Goto(Detector, IF leaving \in Consumers THEN "consumer" ELSE "donor")
  /\ UNCHANGED <<alloc, nextId, region, areas, vms, cont, req, revoke, leaving, todo, scan,
                 rel, duty, book, evt, vmVars>>

(* One iteration of ConsumerState::release_all_allocations. *)
DetConsumer ==
  /\ pc[Detector] = "consumer"
  /\ LET found == { areas[leaving][s] : s \in Slots } \ {0}
         todoNow == { i \in found : ~alloc[i].release_requested }
     IN  IF todoNow # {} THEN CallReturn(Detector, todoNow, "consumer")
         ELSE Goto(Detector, "donor") /\ UNCHANGED <<cont, todo>>
  /\ UNCHANGED <<allocVars, req, revoke, leaving, scan, rel, duty, book, evt, vmVars>>

(* DonorState::release_all_allocations takes the donor's mutex.. *)
DetDonor ==
  /\ pc[Detector] = "donor"
  /\ IF leaving \in Donors
     THEN /\ ~DonorLocked(leaving)
          /\ scan' = [scan EXCEPT ![Detector] =
                        UNION { region[r].allocations : r \in { q \in Regions : DonorOf[q] = leaving } }]
          /\ Goto(Detector, "select")
          /\ UNCHANGED leaving
     ELSE /\ Goto(Detector, "idle")
          /\ leaving' = 0
          /\ UNCHANGED scan
  /\ UNCHANGED <<allocVars, cont, req, revoke, todo, rel, duty, book, evt, vmVars>>

(* .. and collects the committed allocations, one by one. *)
DetSelect ==
  /\ pc[Detector] = "select"
  /\ \E i \in scan[Detector] :
       /\ IsHead(Detector, i, scan[Detector])
       /\ scan' = [scan EXCEPT ![Detector] = @ \ {i}]
       /\ todo' = IF is_committed(alloc[i])
                  THEN [todo EXCEPT ![Detector] = @ \cup {i}] ELSE todo
  /\ UNCHANGED <<allocVars, pc, cont, req, revoke, leaving, rel, duty, book, evt, vmVars>>

DetReturn_Repeats ==
  /\ pc[Detector] = "select" /\ scan[Detector] = {}
  /\ CallReturn(Detector, todo[Detector], "donor")
  /\ UNCHANGED <<allocVars, req, revoke, leaving, scan, rel, duty, book, evt, vmVars>>

DetReturn ==
  /\ pc[Detector] = "select" /\ scan[Detector] = {}
  /\ CallReturn(Detector, todo[Detector], "idle")
  /\ leaving' = 0
  /\ UNCHANGED <<allocVars, req, revoke, scan, rel, duty, book, evt, vmVars>>

-----------------------------------------------------------------------------
(***************************************************************************)
(* The event thread: handle_event.  Events of one VM arrive in order.      *)
(***************************************************************************)

(* The next event of v is taken, and dropped if v is not in the VmList. *)
EvtTake(v) ==
  /\ evt = NoEvent /\ events[v] # <<>>
  /\ events' = [events EXCEPT ![v] = Tail(@)]
  /\ LET e == Head(events[v])
     IN  \/ e.type # "revoke" /\ v \in vms /\ evt' = e /\ UNCHANGED <<pc, revoke>>
         \/ v \notin vms /\ UNCHANGED <<evt, pc, revoke>>
         \/ /\ e.type = "revoke" /\ v \in vms
            /\ \E t \in Revokers :
                 /\ pc[t] = "unused"
                 /\ Goto(t, "revoke")
                 /\ revoke' = [revoke EXCEPT ![t] =
                                 [region |-> e.region, remaining |-> RevokeGranules(e.size)]]
            /\ UNCHANGED evt
  /\ UNCHANGED <<allocVars, cont, req, leaving, todo, scan, rel, duty, book, alive, held,
                 asked, dcd, budget>>

(* signal_add_dc: mark the allocations at the added slots; slots without   *)
(* one are to be released again.                                           *)
EvtAdd ==
  /\ evt.type = "add"
  /\ LET known == { s \in evt.offsets : areas[evt.vm][s] # 0 }
         ids   == { areas[evt.vm][s] : s \in known }
     IN  /\ alloc' = [i \in Ids |-> IF i \in ids
                        THEN [alloc[i] EXCEPT !.dcd_set = TRUE] ELSE alloc[i]]
         /\ evt' = IF evt.offsets = known THEN NoEvent
                   ELSE [evt EXCEPT !.type = "gap", !.offsets = @ \ known]
  /\ UNCHANGED <<nextId, region, areas, vms, exited, pc, cont, req, revoke, leaving, todo,
                 scan, rel, duty, book, vmVars>>

EvtGap ==
  /\ evt.type = "gap"
  /\ \/ IoOk(evt.vm) /\ ReleaseCommand(evt.vm, evt.offsets)
     \/ IoErr(evt.vm) /\ UNCHANGED dcd
  /\ evt' = NoEvent
  /\ UNCHANGED <<allocVars, pc, cont, req, revoke, leaving, todo, scan, rel, duty, book,
                 alive, held, asked, events>>

(* signal_release_dc: whatever is at the released slots is removed. *)
EvtRelease ==
  /\ evt.type = "release"
  /\ RemoveAreas(evt.vm, evt.offsets)
  /\ evt' = NoEvent
  /\ UNCHANGED <<alloc, nextId, region, vms, exited, pc, cont, req, revoke, leaving, todo,
                 scan, rel, duty, book, vmVars>>

-----------------------------------------------------------------------------
(***************************************************************************)
(* The hypervisors and guests.                                             *)
(***************************************************************************)
Send(v, e) == events' = [events EXCEPT ![v] = Append(@, e)]

(* The guest of c adds some of the extents it was offered. *)
GuestAdds(c, S) ==
  /\ c \in alive /\ S # {} /\ S \subseteq dcd[c].offered
  /\ dcd' = [dcd EXCEPT ![c].offered = @ \ S, ![c].present = @ \cup S]
  /\ Send(c, [type |-> "add", vm |-> c, offsets |-> S])
  /\ UNCHANGED <<allocVars, threadVars, alive, held, asked, budget>>

(* The forced removal of extents from the guest of c completes. *)
GuestReleases(c, S) ==
  /\ c \in alive /\ S # {} /\ S \subseteq dcd[c].releasing
  /\ dcd' = [dcd EXCEPT ![c].releasing = @ \ S, ![c].present = @ \ S]
  /\ Send(c, [type |-> "release", vm |-> c, offsets |-> S])
  /\ UNCHANGED <<allocVars, threadVars, alive, held, asked, budget>>

(* A donor wants back n units of what it has given away. *)
DonorRevokes(r, n) ==
  /\ DonorOf[r] \in alive /\ budget.revokes > 0
  /\ n > 0 /\ asked[r] + n <= held[r]
  /\ asked' = [asked EXCEPT ![r] = @ + n]
  /\ budget' = [budget EXCEPT !.revokes = @ - 1]
  /\ Send(DonorOf[r], [type |-> "revoke", region |-> r, size |-> n])
  /\ UNCHANGED <<allocVars, threadVars, alive, held, dcd>>

VmExits(v) ==
  /\ v \in alive \cap MayExit
  /\ alive' = alive \ {v}
  /\ UNCHANGED <<allocVars, threadVars, held, asked, dcd, events, budget>>

-----------------------------------------------------------------------------
RequestStep(c) ==
  \/ ReserveContig(c) \/ InnerSkip(c) \/ InnerTake(c) \/ InnerNone(c)
  \/ Donate(c) \/ Confirm(c) \/ GiveBack(c) \/ CommitOne(c) \/ CommitDone(c)
  \/ Unbacked(c) \/ UnbackedDone(c) \/ Retain(c) \/ RetainNone(c)
  \/ AddCapacity(c) \/ WaitAdd(c) \/ Partition(c) \/ PartitionDone(c) \/ Respond(c)

ReturnStep(t) ==
  \/ OrganizeOne(t) \/ OrganizeDone(t) \/ ConsumersDone(t) \/ DonorsDone(t)
  \/ \E c \in Consumers : RelClaim(t, c) \/ RelQmp(t, c) \/ RelWait(t, c) \/ RelRemove(t, c)
  \/ \E r \in Regions : DonQmp(t, r) \/ DonBook(t, r)

RevokeStep(t) == RevokeLock(t) \/ RevokeSelect(t) \/ RevokeReturn(t)

DetectorStep ==
  \/ \E v \in VMs : DetRemove(v)
  \/ DetExited \/ DetConsumer \/ DetDonor \/ DetSelect \/ DetReturn

EventStep == (\E v \in VMs : EvtTake(v)) \/ EvtAdd \/ EvtGap \/ EvtRelease

Environment ==
  \/ \E c \in Consumers : \E n \in 1..MaxRequestSize : RequestArrives(c, n)
  \/ \E c \in Consumers : \E S \in SUBSET Slots : GuestAdds(c, S) \/ GuestReleases(c, S)
  \/ \E r \in Regions : \E n \in 1..RegionSize[r] : DonorRevokes(r, n)
  \/ \E v \in VMs : VmExits(v)

Next ==
  \/ \E c \in Consumers : RequestStep(c)
  \/ \E t \in Threads : ReturnStep(t)
  \/ \E t \in Revokers : RevokeStep(t)
  \/ DetectorStep
  \/ EventStep
  \/ Environment

Spec == Init /\ [][Next]_vars

(***************************************************************************)
(* Every thread of the orchestrator that can take a step eventually does:  *)
(* the operating system schedules it, QMP commands are answered or fail    *)
(* when the VM is gone, and the waits for a guest time out.  Nothing is    *)
(* assumed of guests, donors or requests.                                  *)
(***************************************************************************)
Fairness ==
  /\ \A c \in Consumers : WF_vars(RequestStep(c))
  /\ \A t \in Threads : WF_vars(ReturnStep(t))
  /\ \A t \in Revokers : WF_vars(RevokeStep(t))
  /\ WF_vars(DetectorStep)
  /\ WF_vars(EventStep)

FairSpec == Spec /\ Fairness
=============================================================================
