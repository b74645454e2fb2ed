------------------------- MODULE OrchestratorProofs -------------------------
(***************************************************************************)
(* Proofs about the orchestrator, for every set of VMs and regions and     *)
(* every size, in three parts.                                             *)
(*  - Types: TypeOK is inductive together with RegionIsKnown and           *)
(*    LeavingIsKnown (the conjunction WellFormed).                         *)
(*  - The life cycle of an allocation: its memory is returned by one       *)
(*    thread only, it is in the map of its region while it is in use, and  *)
(*    its commit never panics.  Lifecycle is the inductive invariant.      *)
(*  - No slot of a consumer is left to nobody: SlotsKept.                  *)
(***************************************************************************)
EXTENDS OrchestratorProperties, FiniteSetTheorems, TLAPS

-----------------------------------------------------------------------------
(* Types. *)

(* A set of allocation ids has a cardinality. *)
LEMMA IdsAreFinite ==
  ASSUME nextId \in Nat, NEW S \in SUBSET Ids
  PROVE  IsFiniteSet(S) /\ Cardinality(S) \in Nat
<1>1. IsFiniteSet(Ids)
  BY FS_Interval DEF Ids
<1>2. QED
  BY <1>1, FS_Subset, FS_CardinalityType

(* Granule arithmetic of module DonorRegion stays in the natural numbers. *)
LEMMA Products ==
  \A m, n \in Nat : m * n \in Nat
OBVIOUS

(* Rounding a size to granules gives a natural number that is not larger. *)
LEMMA Remainders ==
  \A n \in Nat : /\ n % Granularity \in Nat /\ n % Granularity <= n
                 /\ n \div Granularity \in Nat
<1>1. SUFFICES ASSUME NEW n \in Nat
               PROVE  /\ n % Granularity \in Nat /\ n % Granularity <= n
                      /\ n \div Granularity \in Nat
  OBVIOUS
<1>2. Granularity \in Nat /\ Granularity > 0
  BY GranularityAssumption
<1> DEFINE d == n \div Granularity
           m == n % Granularity
<1>3. d \in Int /\ m \in 0..(Granularity - 1) /\ n = Granularity * d + m
  BY <1>2, Z3
<1>4. d >= 0
  <2>1. SUFFICES ASSUME d <= -1 PROVE FALSE
    BY <1>3
  <2>2. Granularity * d <= -Granularity
    BY <1>2, <1>3, <2>1, Z3
  <2>3. QED
    BY <1>2, <1>3, <2>2
<1>5. Granularity * d \in Nat
  BY <1>2, <1>3, <1>4, Products
<1>6. QED
  BY <1>2, <1>3, <1>4, <1>5

(***************************************************************************)
(* A step that makes no allocation leaves the sets of ids as they are.     *)
(***************************************************************************)
LEMMA SameIds ==
  ASSUME UNCHANGED nextId
  PROVE  Ids' = Ids /\ Request' = Request /\ Region' = Region
BY DEF Ids, Request, Region

(* What a region does with its allocations keeps it a region. *)
LEMMA RegionTypes ==
  ASSUME nextId \in Nat, NEW reg \in Region, NEW ids \in SUBSET Ids
  PROVE  /\ Reserve(reg, ids) \in Region
         /\ \A i \in ids : bookkeep_returned_eph_memory(reg, i) \in Region
         /\ \A n \in Nat : OweRest(reg, n) \in Region
<1>1. Granularity \in Nat /\ Cardinality(ids) \in Nat
  BY IdsAreFinite, GranularityAssumption
<1>2. Granularity * Cardinality(ids) \in Nat
  BY <1>1, Products
<1>3. Reserve(reg, ids) \in Region
  <2>1. /\ reg.donated + Granularity * Cardinality(ids) \in Nat
        /\ reg.allocations \cup ids \in SUBSET Ids
    BY <1>2 DEF Region
  <2>2. QED
    BY <2>1 DEF Reserve, Region
<1>4. ASSUME NEW i \in ids PROVE bookkeep_returned_eph_memory(reg, i) \in Region
  <2>1. /\ (IF reg.donated < Granularity THEN 0 ELSE reg.donated - Granularity) \in Nat
        /\ reg.allocations \ {i} \in SUBSET Ids
    BY <1>1 DEF Region
  <2>2. QED
    BY <2>1 DEF bookkeep_returned_eph_memory, Region
<1>5. ASSUME NEW n \in Nat PROVE OweRest(reg, n) \in Region
  <2>1. Granularity * n \in Nat
    BY <1>1, Products
  <2>2. QED
    BY <2>1 DEF OweRest, Region
<1>6. QED
  BY <1>3, <1>4, <1>5

(* handle_reserved_alloc keeps a region a region: what it takes off   *)
(* revoked_owed is at most that, what it confirms is part of what was *)
(* reserved, and what is given back is a natural number.              *)
LEMMA ConfirmTypes ==
  ASSUME nextId \in Nat, NEW reg \in Region, NEW ids \in SUBSET Ids, NEW granted \in Nat
  PROVE  /\ handle_reserved_alloc(reg, ids, granted) \in Region
         /\ Confirmed(reg, ids, granted) \subseteq ids
         /\ GiveBackUnits(reg, ids, granted) \in Nat
<1> DEFINE g == MinOf(granted, Granularity * Cardinality(ids))
<1>1. Granularity * Cardinality(ids) \in Nat
  BY IdsAreFinite, GranularityAssumption, Products
<1>2. g \in Nat
  BY <1>1 DEF MinOf
<1>3. g % Granularity \in Nat /\ g % Granularity <= g
  BY <1>2, Remainders
<1>4. Usable(ids, granted) \in Nat
  BY <1>2, <1>3 DEF Usable
<1>5. reg.revoked_owed \in Nat
  BY DEF Region
<1>6. Owed(reg, ids, granted) \in Nat /\ Owed(reg, ids, granted) <= reg.revoked_owed
  BY <1>4, <1>5 DEF Owed, MinOf
<1>7. Confirmed(reg, ids, granted) \subseteq ids
  BY DEF Confirmed, Lowest
<1>8. handle_reserved_alloc(reg, ids, granted) \in Region
  <2>1. /\ reg.revoked_owed - Owed(reg, ids, granted) \in Nat
        /\ reg.allocations \ (ids \ Confirmed(reg, ids, granted)) \in SUBSET Ids
    BY <1>5, <1>6 DEF Region
  <2>2. QED
    BY <2>1 DEF handle_reserved_alloc, Region
<1>9. GiveBackUnits(reg, ids, granted) \in Nat
  BY <1>3, <1>6 DEF GiveBackUnits
<1>10. QED
  BY <1>7, <1>8, <1>9

(* The run of slots a consumer reserves is in its device, and no longer    *)
(* than what it asked for.                                                 *)
LEMMA RunTypes ==
  ASSUME NEW occupied, NEW n \in Nat, NEW want \in Nat
  PROVE  \E lo, hi \in 0..n : /\ ChosenRun(occupied, n, want) = <<lo, hi>>
                              /\ lo <= hi /\ hi - lo <= want
<1> DEFINE chosen == { h \in Gaps(occupied, n) : IsChosen(h, occupied, n, want) }
<1>1. CASE want = 0 \/ chosen = {}
  BY <1>1 DEF ChosenRun
<1>2. CASE ~(want = 0 \/ chosen = {})
  <2> DEFINE g == CHOOSE h \in chosen : TRUE
  <2>1. g \in chosen
    BY <1>2
  <2>2. g \in (0..n) \X (0..n) /\ g[1] < g[2]
    BY <2>1 DEF Gaps
  <2>3. ChosenRun(occupied, n, want) = <<g[1], IF GapLen(g) < want THEN g[2] ELSE g[1] + want>>
    BY <1>2 DEF ChosenRun
  <2> HIDE DEF g
  <2>4. PICK lo, end \in 0..n : lo = g[1] /\ end = g[2] /\ lo < end
    BY <2>2
  <2>5. CASE GapLen(g) < want
    <3>1. ChosenRun(occupied, n, want) = <<lo, end>>
      BY <2>3, <2>4, <2>5
    <3>2. QED
      BY <2>4, <2>5, <3>1 DEF GapLen
  <2>6. CASE ~(GapLen(g) < want)
    <3>1. ChosenRun(occupied, n, want) = <<lo, lo + want>>
      BY <2>3, <2>4, <2>6
    <3>2. lo + want \in 0..n /\ lo <= lo + want /\ (lo + want) - lo <= want
      BY <2>4, <2>6 DEF GapLen
    <3>3. QED
      BY <3>1, <3>2
  <2>7. QED
    BY <2>5, <2>6
<1>3. QED
  BY <1>1, <1>2

-----------------------------------------------------------------------------
(***************************************************************************)
(* The initial state.                                                      *)
(***************************************************************************)

(* The initial state is well formed. *)
LEMMA InitWellFormed ==
  ASSUME Init PROVE WellFormed
<1>1. nextId = 1 /\ Ids = {}
  BY DEF Init, Ids
<1>2. alloc \in [Ids -> Allocation]
  BY <1>1 DEF Init
<1>3. /\ region \in [Regions -> Region]
      /\ areas \in [Consumers -> [Slots -> Ids \cup {0}]]
  BY DEF Init, NewRegion, Region
<1>4. NoRequest \in Request /\ NoRelease \in Released /\ NoRegion \notin Regions
  BY AllocationAssumption DEF NoRequest, Request, NoRelease, Released, Stages, NoRegion
<1>5. /\ req \in [Consumers -> Request]
      /\ rel \in [Threads -> [Consumers -> Released]]
      /\ revoke \in [Revokers -> [region : Regions \cup {NoRegion}, remaining : Nat]]
  BY <1>4 DEF Init
<1>6. pc \in [Threads -> Labels]
  BY DEF Init, Labels
<1>7. /\ events \in [VMs -> Seq(DcEvent \cup RevokeEvent)]
      /\ dcd \in [Consumers -> Device]
  BY DEF Init, Device
<1>8. budget \in [requests : Nat, revokes : Nat, faults : Nat]
  <2>1. Cardinality(Revokers) \in Nat
    BY OrchestratorAssumption, FS_CardinalityType
  <2>2. QED
    BY <2>1, OrchestratorAssumption DEF Init
<1>9. TypeOK
  BY <1>1, <1>2, <1>3, <1>5, <1>6, <1>7, <1>8 DEF Init, TypeOK
<1>10. RegionIsKnown /\ LeavingIsKnown
  BY OrchestratorAssumption DEF Init, RegionIsKnown, LeavingIsKnown, Threads, VMs
<1>11. QED
  BY <1>9, <1>10 DEF WellFormed

-----------------------------------------------------------------------------
(***************************************************************************)
(* The request thread of a consumer.                                       *)
(***************************************************************************)

(* Its steps move it from label to label and leave other threads alone. *)
LEMMA RequestControl ==
  ASSUME TypeOK, NEW c \in Consumers, RequestStep(c)
  PROVE  /\ pc' \in [Threads -> Labels]
         /\ cont' \in [Threads -> {"idle", "unbacked", "respond", "done", "consumer"}]
         /\ \A t \in Threads \ {c} : pc'[t] = pc[t] /\ cont'[t] = cont[t]
         /\ UNCHANGED <<revoke, leaving>>
<1>1. c \in Threads
  BY DEF Threads
<1>2. /\ pc \in [Threads -> Labels]
      /\ cont \in [Threads -> {"idle", "unbacked", "respond", "done", "consumer"}]
  BY DEF TypeOK
<1>3. CASE ReserveContig(c)
  BY <1>1, <1>2, <1>3 DEF ReserveContig, Goto, Labels
<1>4. CASE InnerSkip(c) \/ InnerTake(c) \/ InnerNone(c)
  BY <1>1, <1>2, <1>4 DEF InnerSkip, InnerTake, InnerNone, Goto, Labels
<1>5. CASE Donate(c) \/ Confirm(c) \/ GiveBack(c)
  BY <1>1, <1>2, <1>5 DEF Donate, Confirm, GiveBack, Goto, Labels
<1>6. CASE CommitOne(c) \/ CommitDone(c)
  BY <1>1, <1>2, <1>6 DEF CommitOne, CommitDone, Goto, Labels
<1>7. CASE Unbacked(c) \/ UnbackedDone(c) \/ Retain(c) \/ RetainNone(c)
  BY <1>1, <1>2, <1>7 DEF Unbacked, UnbackedDone, Retain, RetainNone, Goto, Labels
<1>8. CASE AddCapacity(c) \/ WaitAdd(c)
  BY <1>1, <1>2, <1>8 DEF AddCapacity, WaitAdd, Goto, CallReturn, Labels
<1>9. CASE Partition(c) \/ PartitionDone(c) \/ Respond(c)
  BY <1>1, <1>2, <1>9 DEF Partition, PartitionDone, Respond, Goto, CallReturn, Labels
<1>10. QED
  BY <1>3, <1>4, <1>5, <1>6, <1>7, <1>8, <1>9 DEF RequestStep

(* One call of reserve_memory_contig takes slots of the device, and no     *)
(* more than the request still needs.                                      *)
LEMMA ReserveRun ==
  ASSUME TypeOK, NEW c \in Consumers
  PROVE  \E lo, hi \in 0..NumSlots :
           ContigRun(c) = <<lo, hi>> /\ lo <= hi /\ hi - lo <= req[c].left
<1>1. req[c].left \in Nat
  BY DEF TypeOK, Request
<1>2. MinOf(req[c].left, NumSlots) \in Nat /\ MinOf(req[c].left, NumSlots) <= req[c].left
  BY <1>1, AllocationAssumption DEF MinOf
<1>3. PICK lo, hi \in 0..NumSlots :
        /\ ContigRun(c) = <<lo, hi>> /\ lo <= hi
        /\ hi - lo <= MinOf(req[c].left, NumSlots)
  BY <1>2, RunTypes, AllocationAssumption DEF ContigRun
<1>4. QED
  BY <1>1, <1>2, <1>3, AllocationAssumption

(* A new reservation keeps the types: ids only grow. *)
LEMMA ReserveContigTypes ==
  ASSUME TypeOK, NEW c \in Consumers, ReserveContig(c), pc' \in [Threads -> Labels]
  PROVE  TypeOK'
<1>1. /\ nextId \in Nat \ {0} /\ req[c] \in Request
      /\ areas[c] \in [Slots -> Ids \cup {0}] /\ alloc \in [Ids -> Allocation]
  BY DEF TypeOK
<1>2. req[c].left \in Nat
  BY <1>1 DEF Request
<1>3. PICK lo, hi \in 0..NumSlots :
        ContigRun(c) = <<lo, hi>> /\ lo <= hi /\ hi - lo <= req[c].left
  BY ReserveRun
<1> DEFINE n   == hi - lo
           new == nextId..(nextId + n - 1)
<1>4. n \in Nat
  BY <1>3, AllocationAssumption
<1>run. ContigRun(c)[1] = lo /\ ContigRun(c)[2] = hi
  BY <1>3
<1>5. nextId' = nextId + n
  BY <1>run DEF ReserveContig
<1>6. Ids' = 1..(nextId + n - 1) /\ Ids \subseteq Ids' /\ new \subseteq Ids'
  BY <1>1, <1>4, <1>5 DEF Ids
<1>7. alloc' \in [Ids' -> Allocation]
  <2>1. alloc' = [i \in 1..(nextId + n - 1) |->
                    IF i < nextId THEN alloc[i] ELSE NewAllocation(c, lo + (i - nextId))]
    BY <1>run DEF ReserveContig
  <2>2. ASSUME NEW i \in 1..(nextId + n - 1), ~(i < nextId)
        PROVE  NewAllocation(c, lo + (i - nextId)) \in Allocation
    <3>1. lo + (i - nextId) \in Slots
      BY <1>1, <1>3, <1>4, <2>2, AllocationAssumption DEF Slots
    <3>2. QED
      BY <3>1 DEF NewAllocation, Allocation, AllocState
  <2>3. ASSUME NEW i \in 1..(nextId + n - 1), i < nextId
        PROVE  alloc[i] \in Allocation
    BY <1>1, <1>4, <2>3 DEF Ids
  <2>4. QED
    BY <1>6, <2>1, <2>2, <2>3
<1>8. areas' \in [Consumers -> [Slots -> Ids' \cup {0}]]
  <2>1. areas' = [areas EXCEPT ![c] = [s \in Slots |->
                    IF lo <= s /\ s < hi THEN nextId + (s - lo) ELSE @[s]]]
    BY <1>run DEF ReserveContig
  <2>2. ASSUME NEW s \in Slots, lo <= s, s < hi
        PROVE  nextId + (s - lo) \in Ids'
    BY <1>1, <1>3, <1>4, <1>6, <2>2, AllocationAssumption DEF Slots
  <2>3. areas \in [Consumers -> [Slots -> Ids' \cup {0}]]
    <3>1. areas \in [Consumers -> [Slots -> Ids \cup {0}]]
      BY DEF TypeOK
    <3>2. QED
      BY <1>6, <3>1
  <2>4. QED
    BY <2>1, <2>2, <2>3
<1>9. req \in [Consumers -> Request'] /\ NoRequest \in Request'
  <2>1. req \in [Consumers -> Request]
    BY DEF TypeOK
  <2>2. QED
    BY <1>6, <2>1 DEF Request, NoRequest
<1>10. req' \in [Consumers -> Request']
  <2> DEFINE rsvd  == req[c].rsvd \cup new
             ended == n = 0 \/ n = req[c].left
             left  == IF ended THEN 0 ELSE req[c].left - n
  <2>1. req' = [req EXCEPT ![c] = IF ended /\ rsvd = {} THEN NoRequest
                  ELSE [@ EXCEPT !.left = left, !.rsvd = rsvd, !.unbacked = rsvd]]
    BY <1>run DEF ReserveContig
  <2>2. left \in Nat /\ rsvd \in SUBSET Ids'
    <3>1. req[c].left \in Nat /\ req[c].rsvd \in SUBSET Ids'
      BY <1>9 DEF Request
    <3>2. left \in Nat
      BY <1>2, <1>3, <1>4, <3>1
    <3>3. QED
      BY <1>1, <1>4, <1>6, <3>1, <3>2
  <2>3. [req[c] EXCEPT !.left = left, !.rsvd = rsvd, !.unbacked = rsvd] \in Request'
    <3> HIDE DEF left, rsvd
    <3>1. QED
      BY <1>9, <2>2 DEF Request
  <2>4. QED
    BY <1>9, <2>1, <2>3
<1>11. region' \in [Regions -> Region']
  <2>1. region' = region /\ region \in [Regions -> Region]
    BY DEF ReserveContig, TypeOK
  <2>2. QED
    BY <1>6, <2>1 DEF Region
<1>12. /\ todo' \in [Threads -> SUBSET Ids'] /\ scan' \in [Threads -> SUBSET Ids']
       /\ duty' \in [Threads -> [Regions -> SUBSET Ids']]
  <2>1. UNCHANGED <<todo, scan, duty>>
    BY DEF ReserveContig
  <2>2. /\ todo \in [Threads -> SUBSET Ids] /\ scan \in [Threads -> SUBSET Ids]
        /\ duty \in [Threads -> [Regions -> SUBSET Ids]]
    BY DEF TypeOK
  <2>3. QED
    BY <1>6, <2>1, <2>2
<1>13. nextId' \in Nat \ {0}
  BY <1>1, <1>4, <1>5
<1>14. QED
  BY <1>7, <1>8, <1>10, <1>11, <1>12, <1>13
  DEF TypeOK, ReserveContig, vmVars, DcEvent, RevokeEvent, Released, Stages, Device

(* Setting one field of a request keeps the requests well typed. *)
LEMMA RequestField ==
  ASSUME NEW q \in [Consumers -> Request], NEW c \in Consumers
  PROVE  /\ \A n \in Nat : [q EXCEPT ![c].give_back = n] \in [Consumers -> Request]
         /\ \A n \in Nat : [q EXCEPT ![c].granted = n] \in [Consumers -> Request]
         /\ \A n \in Nat : [q EXCEPT ![c].at = n] \in [Consumers -> Request]
         /\ \A n \in Nat : [q EXCEPT ![c].last_path = n] \in [Consumers -> Request]
         /\ \A ids \in SUBSET Ids : [q EXCEPT ![c].chunk = ids] \in [Consumers -> Request]
         /\ \A ids \in SUBSET Ids : [q EXCEPT ![c].unbacked = ids] \in [Consumers -> Request]
         /\ \A r \in Regions \cup {NoRegion} :
              [q EXCEPT ![c].region = r] \in [Consumers -> Request]
<1>1. \A n \in Nat : /\ [q[c] EXCEPT !.give_back = n] \in Request
                    /\ [q[c] EXCEPT !.granted = n] \in Request
  BY DEF Request
<1>2. \A n \in Nat : /\ [q[c] EXCEPT !.at = n] \in Request
                    /\ [q[c] EXCEPT !.last_path = n] \in Request
  BY DEF Request
<1>3. \A ids \in SUBSET Ids : /\ [q[c] EXCEPT !.chunk = ids] \in Request
                             /\ [q[c] EXCEPT !.unbacked = ids] \in Request
  BY DEF Request
<1>4. \A r \in Regions \cup {NoRegion} : [q[c] EXCEPT !.region = r] \in Request
  BY DEF Request
<1>5. QED
  BY <1>1, <1>2, <1>3, <1>4

(* Every step of a request thread keeps the types. *)
LEMMA RequestTypes ==
  ASSUME WellFormed, NEW c \in Consumers, RequestStep(c)
  PROVE  TypeOK'
<1>1. /\ pc' \in [Threads -> Labels]
      /\ cont' \in [Threads -> {"idle", "unbacked", "respond", "done", "consumer"}]
  BY RequestControl DEF WellFormed
<1>2. /\ nextId \in Nat /\ c \in Threads /\ c \notin Revokers
      /\ req \in [Consumers -> Request]
      /\ region \in [Regions -> Region] /\ alloc \in [Ids -> Allocation]
      /\ held \in [Regions -> Int] /\ asked \in [Regions -> Nat]
      /\ todo \in [Threads -> SUBSET Ids] /\ scan \in [Threads -> SUBSET Ids]
      /\ rel \in [Threads -> [Consumers -> Released]]
      /\ dcd \in [Consumers -> Device]
      /\ budget \in [requests : Nat, revokes : Nat, faults : Nat]
  BY OrchestratorAssumption DEF WellFormed, TypeOK, Threads, VMs
<1>req. req \in [Consumers -> Request]
  BY <1>2
<1>3. /\ req[c].rsvd \in SUBSET Ids /\ req[c].unbacked \in SUBSET Ids
      /\ req[c].chunk \in SUBSET Ids /\ req[c].live \in SUBSET Ids
      /\ req[c].granted \in Nat /\ req[c].give_back \in Nat
  BY <1>2 DEF Request
<1>4. NoRequest \in Request
  BY DEF Request, NoRequest
<1>5. \A ids \in SUBSET Ids : OffsetsOf(ids) \in SUBSET Slots
  BY <1>2 DEF OffsetsOf, Allocation
<1>6. pc[c] \in {"donate", "confirm", "give_back", "commit"} =>
        /\ req[c].region \in Regions /\ DonorOf[req[c].region] \in Nat
  <2>1. req[c].region \in Regions \cup {NoRegion}
    BY <1>2 DEF Request
  <2>2. \A r \in Regions : DonorOf[r] \in Nat
    BY OrchestratorAssumption
  <2>3. QED
    BY <2>1, <2>2 DEF WellFormed, RegionIsKnown
<1>7. \A v \in VMs : IoOk(v) \/ IoErr(v) =>
        budget' \in [requests : Nat, revokes : Nat, faults : Nat]
  BY <1>2 DEF IoOk, IoErr
<1>8. CASE ReserveContig(c)
  BY <1>1, <1>8, ReserveContigTypes DEF WellFormed
<1>9. CASE InnerSkip(c)
  <2>1. PICK d \in Donors : req' = [req EXCEPT ![c].at = d]
    BY <1>9 DEF InnerSkip
  <2>2. d \in Nat
    BY OrchestratorAssumption
  <2>3. req' \in [Consumers -> Request]
    BY <1>req, <2>1, <2>2, RequestField
  <2>4. QED
    BY <1>9, <2>3, SameIds DEF InnerSkip, WellFormed, TypeOK, allocVars, vmVars
<1>10. CASE InnerTake(c)
  <2>1. PICK r \in Regions, chunk \in SUBSET req[c].unbacked :
          /\ region' = [region EXCEPT ![r] = Reserve(@, chunk)]
          /\ req' = [req EXCEPT ![c].region = r, ![c].chunk = chunk]
    BY <1>10 DEF InnerTake, Lowest
  <2>2. chunk \in SUBSET Ids
    BY <1>3
  <2>3. req' \in [Consumers -> Request]
    <3>1. PICK mid \in [Consumers -> Request] : mid = [req EXCEPT ![c].region = r]
      BY <1>req, RequestField
    <3>2. req' = [mid EXCEPT ![c].chunk = chunk]
      BY <2>1, <3>1
    <3>3. QED
      BY <2>2, <3>2, RequestField
  <2>4. region' \in [Regions -> Region]
    BY <1>2, <2>1, <2>2, RegionTypes
  <2>5. QED
    BY <1>1, <1>10, <2>3, <2>4, SameIds DEF InnerTake, WellFormed, TypeOK, vmVars
<1>11. CASE InnerNone(c)
  BY <1>1, <1>11, SameIds DEF InnerNone, WellFormed, TypeOK, allocVars, vmVars
<1>12. CASE Donate(c)
  <2>1. req[c].region \in Regions /\ DonorOf[req[c].region] \in VMs
    BY <1>6, <1>12, OrchestratorAssumption DEF Donate, VMs
  <2>2. PICK g \in Nat : /\ req' = [req EXCEPT ![c].granted = g]
                         /\ held' = held \/ held' = [held EXCEPT ![req[c].region] = @ + g]
    BY <1>12 DEF Donate
  <2>3. req' \in [Consumers -> Request]
    BY <1>req, <2>2, RequestField
  <2>6. held' \in [Regions -> Int]
    BY <1>2, <2>2
  <2>4. budget' \in [requests : Nat, revokes : Nat, faults : Nat]
    BY <1>7, <1>12, <2>1 DEF Donate
  <2>5. QED
    BY <1>1, <1>12, <2>3, <2>6, <2>4, SameIds DEF Donate, WellFormed, TypeOK, allocVars
<1>13. CASE Confirm(c)
  <2> DEFINE r    == req[c].region
             back == GiveBackUnits(region[r], req[c].chunk, req[c].granted)
             conf == Confirmed(region[r], req[c].chunk, req[c].granted)
             reg  == handle_reserved_alloc(region[r], req[c].chunk, req[c].granted)
  <2>1. r \in Regions
    BY <1>6, <1>13 DEF Confirm
  <2>2. conf \in SUBSET Ids /\ back \in Nat /\ reg \in Region
    BY <1>2, <1>3, <2>1, ConfirmTypes
  <2>3. /\ region' = [region EXCEPT ![r] = reg]
        /\ req' = [req EXCEPT ![c].chunk = conf, ![c].granted = 0, ![c].give_back = back]
    BY <1>13 DEF Confirm
  <2>4. req' \in [Consumers -> Request]
    <3>1. PICK ids \in SUBSET Ids, n \in Nat :
            req' = [req EXCEPT ![c].chunk = ids, ![c].granted = 0, ![c].give_back = n]
      BY <2>2, <2>3
    <3>2. PICK mid \in [Consumers -> Request] : mid = [req EXCEPT ![c].chunk = ids]
      BY <1>req, RequestField
    <3>3. PICK last \in [Consumers -> Request] : last = [mid EXCEPT ![c].granted = 0]
      BY RequestField
    <3>4. req' = [last EXCEPT ![c].give_back = n]
      BY <3>1, <3>2, <3>3
    <3>5. QED
      BY <3>4, RequestField
  <2>5. region' \in [Regions -> Region]
    BY <1>2, <2>2, <2>3
  <2>6. QED
    BY <1>1, <1>13, <2>4, <2>5, SameIds DEF Confirm, WellFormed, TypeOK, vmVars
<1>14. CASE GiveBack(c)
  <2>1. req[c].region \in Regions /\ DonorOf[req[c].region] \in VMs
    BY <1>6, <1>14, OrchestratorAssumption DEF GiveBack, VMs
  <2>2. req' \in [Consumers -> Request]
    <3>1. req' = [req EXCEPT ![c].give_back = 0]
      BY <1>14 DEF GiveBack
    <3>2. QED
      BY <1>req, <3>1, RequestField
  <2>3. held' \in [Regions -> Int] /\ asked' \in [Regions -> Nat]
    BY <1>2, <1>3, <1>14 DEF GiveBack, DonorRegains
  <2>4. budget' \in [requests : Nat, revokes : Nat, faults : Nat]
    BY <1>7, <1>14, <2>1 DEF GiveBack
  <2>5. QED
    BY <1>1, <1>14, <2>2, <2>3, <2>4, SameIds DEF GiveBack, WellFormed, TypeOK, allocVars
<1>15. CASE CommitOne(c)
  <2>1. PICK i \in req[c].chunk :
          /\ alloc' = [alloc EXCEPT ![i] = commit_allocation(@, req[c].region)]
          /\ duty' = duty \/ duty' = [duty EXCEPT ![c][req[c].region] = @ \cup {i}]
          /\ req' = [req EXCEPT ![c].chunk = @ \ {i}, ![c].unbacked = @ \ {i}]
    BY <1>15 DEF CommitOne
  <2>2. i \in Ids /\ req[c].region \in Regions
    BY <1>3, <1>6, <1>15 DEF CommitOne
  <2>3. alloc' \in [Ids -> Allocation]
    <3>1. alloc[i] \in Allocation
      BY <1>2, <2>2
    <3>2. (IF alloc[i].state = "PendingCommit" THEN "Committed" ELSE alloc[i].state) \in AllocState
      BY <3>1 DEF Allocation, AllocState
    <3>3. commit_allocation(alloc[i], req[c].region) \in Allocation
      BY <2>2, <3>1, <3>2 DEF commit_allocation, Allocation
    <3>4. QED
      BY <1>2, <2>1, <3>3
  <2>4. duty' \in [Threads -> [Regions -> SUBSET Ids]]
    <3>1. duty \in [Threads -> [Regions -> SUBSET Ids]]
      BY DEF WellFormed, TypeOK
    <3>2. c \in Threads
      BY <1>2
    <3>3. QED
      BY <2>1, <2>2, <3>1, <3>2
  <2>5. req' \in [Consumers -> Request]
    <3>1. PICK ids \in SUBSET Ids, rest \in SUBSET Ids :
            req' = [req EXCEPT ![c].chunk = ids, ![c].unbacked = rest]
      BY <1>3, <2>1
    <3>2. PICK mid \in [Consumers -> Request] : mid = [req EXCEPT ![c].chunk = ids]
      BY <1>req, RequestField
    <3>3. req' = [mid EXCEPT ![c].unbacked = rest]
      BY <3>1, <3>2
    <3>4. QED
      BY <3>3, RequestField
  <2>6. QED
    BY <1>15, <2>3, <2>4, <2>5, SameIds DEF CommitOne, WellFormed, TypeOK, vmVars
<1>16. CASE CommitDone(c)
  <2>1. PICK d \in Nat :
          req' = [req EXCEPT ![c].region = NoRegion, ![c].last_path = d, ![c].at = d]
    BY <1>6, <1>16 DEF CommitDone
  <2>2. req' \in [Consumers -> Request]
    <3>1. PICK mid \in [Consumers -> Request] : mid = [req EXCEPT ![c].region = NoRegion]
      BY <1>req, RequestField
    <3>2. PICK last \in [Consumers -> Request] : last = [mid EXCEPT ![c].last_path = d]
      BY RequestField
    <3>3. req' = [last EXCEPT ![c].at = d]
      BY <2>1, <3>1, <3>2
    <3>4. QED
      BY <3>3, RequestField
  <2>3. QED
    BY <1>1, <1>16, <2>2, SameIds DEF CommitDone, WellFormed, TypeOK, allocVars, vmVars
<1>17. CASE Unbacked(c)
  <2>1. rel' \in [Threads -> [Consumers -> Released]]
    BY <1>2, <1>3, <1>5, <1>17 DEF Unbacked, Released, Stages
  <2>2. QED
    BY <1>1, <1>17, <2>1, SameIds DEF Unbacked, WellFormed, TypeOK, allocVars, vmVars
<1>18. CASE UnbackedDone(c)
  <2>1. req' \in [Consumers -> Request]
    <3>1. req' = [req EXCEPT ![c].unbacked = {}, ![c].last_path = 0, ![c].at = 0]
      BY <1>18 DEF UnbackedDone
    <3>2. PICK mid \in [Consumers -> Request] : mid = [req EXCEPT ![c].unbacked = {}]
      BY <1>req, RequestField
    <3>3. PICK last \in [Consumers -> Request] : last = [mid EXCEPT ![c].last_path = 0]
      BY RequestField
    <3>4. req' = [last EXCEPT ![c].at = 0]
      BY <3>1, <3>2, <3>3
    <3>5. QED
      BY <3>4, RequestField
  <2>2. scan' \in [Threads -> SUBSET Ids]
    BY <1>2, <1>3, <1>18 DEF UnbackedDone
  <2>3. QED
    BY <1>1, <1>18, <2>1, <2>2, SameIds
    DEF UnbackedDone, WellFormed, TypeOK, allocVars, vmVars
<1>19. CASE Retain(c)
  <2>1. PICK i \in scan[c] : /\ scan' = [scan EXCEPT ![c] = @ \ {i}]
                             /\ req' = req \/ req' = [req EXCEPT ![c].rsvd = @ \ {i}]
    BY <1>19 DEF Retain
  <2>2. req' \in [Consumers -> Request]
    <3>1. PICK ids \in SUBSET Ids : req' = req \/ req' = [req EXCEPT ![c].rsvd = ids]
      BY <1>3, <2>1
    <3>2. QED
      BY <1>req, <3>1 DEF Request
  <2>3. scan' \in [Threads -> SUBSET Ids]
    BY <1>2, <2>1
  <2>4. QED
    BY <1>19, <2>2, <2>3, SameIds DEF Retain, WellFormed, TypeOK, allocVars, vmVars
<1>20. CASE RetainNone(c)
  <2>1. req' \in [Consumers -> Request]
    BY <1>req, <1>4, <1>20 DEF RetainNone
  <2>2. QED
    BY <1>1, <1>20, <2>1, SameIds DEF RetainNone, WellFormed, TypeOK, allocVars, vmVars
<1>21. CASE AddCapacity(c)
  <2>1. req' \in [Consumers -> Request]
    BY <1>req, <1>4, <1>21 DEF AddCapacity
  <2>2. todo' \in [Threads -> SUBSET Ids]
    BY <1>2, <1>3, <1>21 DEF AddCapacity, CallReturn
  <2>3. dcd' \in [Consumers -> Device]
    <3>1. dcd' = dcd \/ dcd' = [dcd EXCEPT ![c].offered = @ \cup OffsetsOf(req[c].rsvd)]
      BY <1>21 DEF AddCapacity
    <3>2. PICK S \in SUBSET Slots : dcd' = dcd \/ dcd' = [dcd EXCEPT ![c].offered = S]
      BY <1>2, <1>3, <1>5, <3>1 DEF Device
    <3>3. dcd \in [Consumers -> Device]
      BY <1>2
    <3>4. QED
      BY <3>2, <3>3 DEF Device
  <2>4. budget' \in [requests : Nat, revokes : Nat, faults : Nat]
    BY <1>7, <1>21 DEF AddCapacity, VMs
  <2>5. QED
    BY <1>1, <1>21, <2>1, <2>2, <2>3, <2>4, SameIds
    DEF AddCapacity, WellFormed, TypeOK, allocVars
<1>22. CASE WaitAdd(c)
  <2>1. scan' \in [Threads -> SUBSET Ids]
    BY <1>2, <1>3, <1>22 DEF WaitAdd
  <2>2. QED
    BY <1>1, <1>22, <2>1, SameIds DEF WaitAdd, WellFormed, TypeOK, allocVars, vmVars
<1>23. CASE Partition(c)
  <2>1. PICK i \in scan[c] :
          /\ scan' = [scan EXCEPT ![c] = @ \ {i}]
          /\ \/ req' = req
             \/ req' = [req EXCEPT ![c].rsvd = @ \ {i}, ![c].live = @ \cup {i}]
    BY <1>23 DEF Partition
  <2>2. req' \in [Consumers -> Request]
    <3>1. PICK ids, live \in SUBSET Ids :
            req' = req \/ req' = [req EXCEPT ![c].rsvd = ids, ![c].live = live]
      <4>1. req[c].rsvd \ {i} \in SUBSET Ids /\ req[c].live \cup {i} \in SUBSET Ids
        BY <1>2, <1>3
      <4>2. QED
        BY <2>1, <4>1
    <3>2. QED
      BY <1>req, <3>1 DEF Request
  <2>3. scan' \in [Threads -> SUBSET Ids]
    BY <1>2, <2>1
  <2>4. QED
    BY <1>23, <2>2, <2>3, SameIds DEF Partition, WellFormed, TypeOK, allocVars, vmVars
<1>24. CASE PartitionDone(c)
  <2>1. req' \in [Consumers -> Request]
    <3>1. req' = [req EXCEPT ![c].rsvd = {}]
      BY <1>24 DEF PartitionDone
    <3>2. QED
      BY <1>req, <3>1 DEF Request
  <2>2. todo' \in [Threads -> SUBSET Ids]
    BY <1>2, <1>3, <1>24 DEF PartitionDone, CallReturn
  <2>3. QED
    BY <1>1, <1>24, <2>1, <2>2, SameIds
    DEF PartitionDone, WellFormed, TypeOK, allocVars, vmVars
<1>25. CASE Respond(c)
  <2>1. req' \in [Consumers -> Request]
    BY <1>req, <1>4, <1>25 DEF Respond
  <2>2. todo' \in [Threads -> SUBSET Ids]
    BY <1>2, <1>3, <1>25 DEF Respond, CallReturn
  <2>3. budget' \in [requests : Nat, revokes : Nat, faults : Nat]
    BY <1>2, <1>7, <1>25 DEF Respond, VMs
  <2>4. QED
    BY <1>1, <1>25, <2>1, <2>2, <2>3, SameIds
    DEF Respond, WellFormed, TypeOK, allocVars
<1>26. QED
  BY <1>8, <1>9, <1>10, <1>11, <1>12, <1>13, <1>14, <1>15, <1>16, <1>17, <1>18,
     <1>19, <1>20, <1>21, <1>22, <1>23, <1>24, <1>25 DEF RequestStep

(* A request thread that works on a region has one. *)
LEMMA RequestKnown ==
  ASSUME WellFormed, NEW c \in Consumers, RequestStep(c)
  PROVE  RegionIsKnown' /\ LeavingIsKnown'
<1>1. /\ \A t \in Threads \ {c} : pc'[t] = pc[t] /\ cont'[t] = cont[t]
      /\ UNCHANGED <<revoke, leaving>>
  BY RequestControl DEF WellFormed
<1>2. /\ c \in Threads /\ Detector \in Threads \ {c} /\ Revokers \subseteq Threads \ {c}
      /\ Consumers \subseteq Threads
  BY OrchestratorAssumption DEF Threads, VMs
<1>3. LeavingIsKnown'
  BY <1>1, <1>2 DEF WellFormed, LeavingIsKnown
<1>4. \A t \in Revokers : pc'[t] \in {"revoke", "select"} => revoke'[t].region # NoRegion
  BY <1>1, <1>2 DEF WellFormed, RegionIsKnown
<1>5. req \in [Consumers -> Request] /\ pc \in [Threads -> Labels]
  BY DEF WellFormed, TypeOK
<1>6. \A b \in Consumers \ {c} : req'[b] = req[b]
  <2>1. CASE ReserveContig(c)
    BY <1>5, <2>1 DEF ReserveContig
  <2>2. CASE InnerSkip(c) \/ InnerTake(c) \/ InnerNone(c)
    BY <1>5, <2>2 DEF InnerSkip, InnerTake, InnerNone
  <2>3. CASE Donate(c) \/ Confirm(c) \/ GiveBack(c)
    BY <1>5, <2>3 DEF Donate, Confirm, GiveBack
  <2>4. CASE CommitOne(c) \/ CommitDone(c)
    BY <1>5, <2>4 DEF CommitOne, CommitDone
  <2>5. CASE Unbacked(c) \/ UnbackedDone(c) \/ Retain(c) \/ RetainNone(c)
    BY <1>5, <2>5 DEF Unbacked, UnbackedDone, Retain, RetainNone
  <2>6. CASE AddCapacity(c) \/ WaitAdd(c)
    BY <1>5, <2>6 DEF AddCapacity, WaitAdd
  <2>7. CASE Partition(c) \/ PartitionDone(c) \/ Respond(c)
    BY <1>5, <2>7 DEF Partition, PartitionDone, Respond
  <2>8. QED
    BY <2>1, <2>2, <2>3, <2>4, <2>5, <2>6, <2>7 DEF RequestStep
<1>7. pc'[c] \in {"donate", "confirm", "give_back", "commit"} => req'[c].region # NoRegion
  <2>1. CASE InnerTake(c)
    <3>1. PICK r, ids : r \in Regions /\ req' = [req EXCEPT ![c].region = r, ![c].chunk = ids]
      BY <2>1 DEF InnerTake
    <3>2. QED
      BY <1>5, <3>1, AllocationAssumption DEF Request, NoRegion
  <2>2. CASE Donate(c) \/ Confirm(c) \/ GiveBack(c)
    <3>1. req[c].region # NoRegion
      BY <2>2 DEF WellFormed, RegionIsKnown, Donate, Confirm, GiveBack
    <3>2. req'[c].region = req[c].region
      BY <1>5, <2>2 DEF Donate, Confirm, GiveBack, Request
    <3>3. QED
      BY <3>1, <3>2
  <2>3. CASE CommitOne(c)
    <3>1. req[c].region # NoRegion
      BY <2>3 DEF WellFormed, RegionIsKnown, CommitOne
    <3>2. req'[c].region = req[c].region
      BY <1>5, <2>3 DEF CommitOne, Request
    <3>3. QED
      BY <3>1, <3>2
  <2>4. CASE ReserveContig(c) \/ InnerSkip(c) \/ InnerNone(c) \/ CommitDone(c)
    BY <1>2, <1>5, <2>4 DEF ReserveContig, InnerSkip, InnerNone, CommitDone, Goto
  <2>5. CASE Unbacked(c) \/ UnbackedDone(c) \/ Retain(c) \/ RetainNone(c)
    BY <1>2, <1>5, <2>5 DEF Unbacked, UnbackedDone, Retain, RetainNone, Goto
  <2>6. CASE AddCapacity(c) \/ WaitAdd(c)
    BY <1>2, <1>5, <2>6 DEF AddCapacity, WaitAdd, Goto, CallReturn
  <2>7. CASE Partition(c) \/ PartitionDone(c) \/ Respond(c)
    BY <1>2, <1>5, <2>7 DEF Partition, PartitionDone, Respond, Goto, CallReturn
  <2>8. QED
    BY <2>1, <2>2, <2>3, <2>4, <2>5, <2>6, <2>7 DEF RequestStep
<1>8. ASSUME NEW b \in Consumers, pc'[b] \in {"donate", "confirm", "give_back", "commit"}
      PROVE  req'[b].region # NoRegion
  BY <1>1, <1>2, <1>6, <1>7, <1>8 DEF WellFormed, RegionIsKnown
<1>9. QED
  BY <1>3, <1>4, <1>8 DEF RegionIsKnown

-----------------------------------------------------------------------------
(***************************************************************************)
(* The return of allocations, by any thread.                               *)
(***************************************************************************)

(* Moving a release to another stage or other slots keeps it well typed. *)
LEMMA ReleasedField ==
  ASSUME NEW f \in [Threads -> [Consumers -> Released]], NEW t \in Threads, NEW c \in Consumers
  PROVE  /\ \A S \in SUBSET Slots :
              [f EXCEPT ![t][c].offsets = S] \in [Threads -> [Consumers -> Released]]
         /\ \A l \in Stages :
              [f EXCEPT ![t][c].stage = l] \in [Threads -> [Consumers -> Released]]
<1>1. ASSUME NEW S \in SUBSET Slots
      PROVE  [f EXCEPT ![t][c].offsets = S] \in [Threads -> [Consumers -> Released]]
  <2>1. [f[t][c] EXCEPT !.offsets = S] \in Released
    BY DEF Released
  <2>2. QED
    BY <2>1
<1>2. ASSUME NEW l \in Stages
      PROVE  [f EXCEPT ![t][c].stage = l] \in [Threads -> [Consumers -> Released]]
  <2>1. [f[t][c] EXCEPT !.stage = l] \in Released
    BY DEF Released
  <2>2. QED
    BY <2>1
<1>3. QED
  BY <1>1, <1>2

(* A release command keeps the slots of a device slots. *)
LEMMA ReleaseTypes ==
  ASSUME dcd \in [Consumers -> Device], NEW c \in Consumers, NEW S,
         ReleaseCommand(c, S) \/ UNCHANGED dcd
  PROVE  dcd' \in [Consumers -> Device]
<1>1. PICK T \in SUBSET Slots : dcd' = dcd \/ dcd' = [dcd EXCEPT ![c].releasing = T]
  <2>1. dcd[c].releasing \cup (S \cap dcd[c].present) \in SUBSET Slots
    BY DEF Device
  <2>2. QED
    BY <2>1 DEF ReleaseCommand
<1>2. QED
  BY <1>1 DEF Device

(* Taking areas out of allocated_areas keeps it well typed. *)
LEMMA RemoveTypes ==
  ASSUME areas \in [Consumers -> [Slots -> Ids \cup {0}]], NEW c \in Consumers, NEW S,
         RemoveAreas(c, S)
  PROVE  areas' \in [Consumers -> [Slots -> Ids \cup {0}]]
BY DEF RemoveAreas

(* A thread that takes on an allocation to return keeps duty well typed. *)
LEMMA DutyGrows ==
  ASSUME NEW d \in [Threads -> [Regions -> SUBSET Ids]], NEW t \in Threads, NEW r,
         NEW i \in Ids
  PROVE  [d EXCEPT ![t][r] = @ \cup {i}] \in [Threads -> [Regions -> SUBSET Ids]]
<1>1. [d[t] EXCEPT ![r] = @ \cup {i}] \in [Regions -> SUBSET Ids]
  OBVIOUS
<1>2. QED
  BY <1>1

(* Every step of return_eph_memory_from_consumer, with the releases and *)
(* returns it makes in parallel, keeps the types.                       *)
LEMMA ReturnTypes ==
  ASSUME WellFormed, NEW t \in Threads, ReturnStep(t)
  PROVE  TypeOK'
<1>1. /\ pc \in [Threads -> Labels]
      /\ cont \in [Threads -> {"idle", "unbacked", "respond", "done", "consumer"}]
  BY DEF WellFormed, TypeOK
<1>2. /\ nextId \in Nat /\ region \in [Regions -> Region] /\ alloc \in [Ids -> Allocation]
      /\ areas \in [Consumers -> [Slots -> Ids \cup {0}]]
      /\ todo \in [Threads -> SUBSET Ids]
  BY DEF WellFormed, TypeOK
<1>3. rel \in [Threads -> [Consumers -> Released]]
  BY DEF WellFormed, TypeOK
<1>4. duty \in [Threads -> [Regions -> SUBSET Ids]] /\ book \in [Threads -> [Regions -> BOOLEAN]]
  BY DEF WellFormed, TypeOK
<1>5. budget \in [requests : Nat, revokes : Nat, faults : Nat]
  BY DEF WellFormed, TypeOK
<1>6. \A v \in VMs : IoOk(v) \/ IoErr(v) =>
        budget' \in [requests : Nat, revokes : Nat, faults : Nat]
  BY <1>5 DEF IoOk, IoErr
<1>7. CASE OrganizeOne(t)
  <2>1. PICK i \in todo[t] :
          /\ todo' = [todo EXCEPT ![t] = @ \ {i}]
          /\ \/ rel' = rel
             \/ rel' = [rel EXCEPT ![t][alloc[i].consumer_vm].offsets =
                          @ \cup {alloc[i].consumer_offset}]
          /\ alloc' = [alloc EXCEPT ![i] = abandon(@)]
          /\ \/ duty' = duty
             \/ duty' = [duty EXCEPT ![t][alloc[i].donor_info] = @ \cup {i}]
    BY <1>7 DEF OrganizeOne
  <2>2. i \in Ids /\ alloc[i] \in Allocation
    BY <1>2
  <2>3. alloc[i].consumer_vm \in Consumers /\ alloc[i].consumer_offset \in Slots
    BY <2>2 DEF Allocation
  <2>4. rel' \in [Threads -> [Consumers -> Released]]
    <3>1. PICK c \in Consumers, S \in SUBSET Slots :
            rel' = rel \/ rel' = [rel EXCEPT ![t][c].offsets = S]
      <4>1. rel[t][alloc[i].consumer_vm].offsets \cup {alloc[i].consumer_offset} \in SUBSET Slots
        BY <1>3, <2>3 DEF Released
      <4>2. QED
        BY <2>1, <2>3, <4>1
    <3>2. [rel EXCEPT ![t][c].offsets = S] \in [Threads -> [Consumers -> Released]]
      BY <1>3, ReleasedField
    <3>3. QED
      BY <1>3, <3>1, <3>2
  <2>5. alloc' \in [Ids -> Allocation]
    <3>1. abandon(alloc[i]) \in Allocation
      BY <2>2 DEF abandon, Allocation, AllocState
    <3>2. QED
      BY <1>2, <2>1, <3>1
  <2>6. duty' \in [Threads -> [Regions -> SUBSET Ids]]
    <3>1. [duty EXCEPT ![t][alloc[i].donor_info] = @ \cup {i}]
            \in [Threads -> [Regions -> SUBSET Ids]]
      BY <1>4, <2>2, DutyGrows
    <3>2. QED
      BY <1>4, <2>1, <3>1
  <2>7. todo' \in [Threads -> SUBSET Ids]
    BY <1>2, <2>1
  <2>8. QED
    BY <1>7, <2>4, <2>5, <2>6, <2>7, SameIds DEF OrganizeOne, WellFormed, TypeOK, vmVars
<1>8. CASE OrganizeDone(t)
  <2>1. rel' \in [Threads -> [Consumers -> Released]]
    <3>1. NoRelease \in Released
      BY DEF NoRelease, Released, Stages
    <3>2. ASSUME NEW c \in Consumers PROVE [rel[t][c] EXCEPT !.stage = "claim"] \in Released
      BY <1>3 DEF Released, Stages
    <3>3. rel' = [rel EXCEPT ![t] = [c \in Consumers |->
                    IF rel[t][c].offsets = {} THEN NoRelease
                    ELSE [rel[t][c] EXCEPT !.stage = "claim"]]]
      BY <1>8 DEF OrganizeDone
    <3>4. QED
      BY <1>3, <3>1, <3>2, <3>3
  <2>2. pc' \in [Threads -> Labels]
    BY <1>1, <1>8 DEF OrganizeDone, Goto, Labels
  <2>3. QED
    BY <1>8, <2>1, <2>2, SameIds DEF OrganizeDone, WellFormed, TypeOK, allocVars, vmVars
<1>9. CASE ConsumersDone(t) \/ DonorsDone(t)
  <2>1. pc' \in [Threads -> Labels]
    BY <1>1, <1>9 DEF ConsumersDone, DonorsDone, Goto, Labels
  <2>2. cont' \in [Threads -> {"idle", "unbacked", "respond", "done", "consumer"}]
    BY <1>1, <1>9 DEF ConsumersDone, DonorsDone
  <2>3. QED
    BY <1>9, <2>1, <2>2, SameIds
    DEF ConsumersDone, DonorsDone, WellFormed, TypeOK, allocVars, vmVars
<1>10. ASSUME NEW c \in Consumers, RelClaim(t, c) PROVE TypeOK'
  <2> DEFINE claimed == Claimable(t, c)
             ids     == { areas[c][s] : s \in claimed }
             added   == { s \in claimed : alloc[areas[c][s]].dcd_set }
  <2>1. rel[t][c].offsets \in SUBSET Slots
    BY <1>3 DEF Released
  <2>2. claimed \in SUBSET Slots /\ added \in SUBSET Slots
    BY <2>1 DEF Claimable
  <2> HIDE DEF claimed, added, ids
  <2>3. alloc' \in [Ids -> Allocation]
    <3>1. ASSUME NEW i \in Ids PROVE [alloc[i] EXCEPT !.release_requested = TRUE] \in Allocation
      BY <1>2 DEF Allocation
    <3>2. alloc' = [i \in Ids |-> IF i \in ids
                      THEN [alloc[i] EXCEPT !.release_requested = TRUE] ELSE alloc[i]]
      BY <1>10 DEF RelClaim, claimed, ids
    <3>3. QED
      BY <1>2, <3>1, <3>2
  <2>4. areas' \in [Consumers -> [Slots -> Ids \cup {0}]]
    <3>1. areas' = [areas EXCEPT ![c] = [s \in Slots |->
                      IF s \in claimed \ added THEN 0 ELSE areas[c][s]]]
      BY <1>10 DEF RelClaim, claimed, added
    <3>2. QED
      BY <1>2, <3>1
  <2>5. rel' \in [Threads -> [Consumers -> Released]]
    <3>1. PICK x \in Released : rel' = [rel EXCEPT ![t][c] = x]
      <4>1. NoRelease \in Released /\ [stage |-> "qmp", offsets |-> added] \in Released
        BY <2>2 DEF NoRelease, Released, Stages
      <4>2. rel' = [rel EXCEPT ![t][c] =
                      IF added = {} THEN NoRelease ELSE [stage |-> "qmp", offsets |-> added]]
        BY <1>10 DEF RelClaim, claimed, added
      <4>3. QED
        BY <4>1, <4>2
    <3>2. QED
      BY <1>3, <3>1
  <2>6. QED
    BY <1>10, <2>3, <2>4, <2>5, SameIds DEF RelClaim, WellFormed, TypeOK, vmVars
<1>11. ASSUME NEW c \in Consumers, RelQmp(t, c) PROVE TypeOK'
  <2>1. rel' \in [Threads -> [Consumers -> Released]]
    <3>1. PICK l \in Stages : rel' = [rel EXCEPT ![t][c].stage = l]
      BY <1>11 DEF RelQmp, Stages
    <3>2. QED
      BY <1>3, <3>1, ReleasedField
  <2>2. dcd' \in [Consumers -> Device]
    BY <1>11, ReleaseTypes DEF WellFormed, TypeOK, RelQmp
  <2>3. budget' \in [requests : Nat, revokes : Nat, faults : Nat]
    BY <1>6, <1>11 DEF RelQmp, VMs
  <2>4. QED
    BY <1>11, <2>1, <2>2, <2>3, SameIds DEF RelQmp, WellFormed, TypeOK, allocVars
<1>12. ASSUME NEW c \in Consumers, RelWait(t, c) PROVE TypeOK'
  <2>1. NoRelease \in Released /\ "remove" \in Stages
    BY DEF NoRelease, Released, Stages
  <2>2. \/ rel' = [rel EXCEPT ![t][c] = NoRelease]
        \/ rel' = [rel EXCEPT ![t][c].stage = "remove"]
    BY <1>12 DEF RelWait
  <2>3. [rel EXCEPT ![t][c].stage = "remove"] \in [Threads -> [Consumers -> Released]]
    BY <1>3, <2>1, ReleasedField
  <2>4. rel' \in [Threads -> [Consumers -> Released]]
    BY <1>3, <2>1, <2>2, <2>3
  <2>5. QED
    BY <1>12, <2>4, SameIds DEF RelWait, WellFormed, TypeOK, allocVars, vmVars
<1>13. ASSUME NEW c \in Consumers, RelRemove(t, c) PROVE TypeOK'
  <2>1. rel' \in [Threads -> [Consumers -> Released]]
    <3>1. NoRelease \in Released
      BY DEF NoRelease, Released, Stages
    <3>2. QED
      BY <1>3, <1>13, <3>1 DEF RelRemove
  <2>2. areas' \in [Consumers -> [Slots -> Ids \cup {0}]]
    BY <1>13, RemoveTypes DEF RelRemove, WellFormed, TypeOK
  <2>3. QED
    BY <1>13, <2>1, <2>2, SameIds DEF RelRemove, WellFormed, TypeOK, vmVars
<1>14. ASSUME NEW r \in Regions, DonQmp(t, r) PROVE TypeOK'
  <2>1. Granularity * Cardinality(duty[t][r]) \in Nat
    BY <1>2, <1>4, IdsAreFinite, GranularityAssumption, Products
  <2>2. held' \in [Regions -> Int] /\ asked' \in [Regions -> Nat]
    <3>1. held \in [Regions -> Int] /\ asked \in [Regions -> Nat]
      BY DEF WellFormed, TypeOK
    <3>2. QED
      BY <1>14, <2>1, <3>1 DEF DonQmp, DonorRegains
  <2>3. /\ duty' \in [Threads -> [Regions -> SUBSET Ids]]
        /\ book' \in [Threads -> [Regions -> BOOLEAN]]
    <3>1. /\ duty' = duty \/ duty' = [duty EXCEPT ![t][r] = {}]
          /\ book' = book \/ book' = [book EXCEPT ![t][r] = TRUE]
      BY <1>14 DEF DonQmp
    <3>2. duty' \in [Threads -> [Regions -> SUBSET Ids]]
      BY <1>4, <3>1
    <3>3. book' \in [Threads -> [Regions -> BOOLEAN]]
      <4>1. [book EXCEPT ![t][r] = TRUE] \in [Threads -> [Regions -> BOOLEAN]]
        BY <1>4
      <4>2. QED
        BY <1>4, <3>1, <4>1
    <3>4. QED
      BY <3>2, <3>3
  <2>4. budget' \in [requests : Nat, revokes : Nat, faults : Nat]
    <3>1. DonorOf[r] \in VMs
      BY OrchestratorAssumption DEF VMs
    <3>2. QED
      BY <1>6, <1>14, <3>1 DEF DonQmp
  <2>5. QED
    BY <1>14, <2>2, <2>3, <2>4, SameIds DEF DonQmp, WellFormed, TypeOK, allocVars
<1>15. ASSUME NEW r \in Regions, DonBook(t, r) PROVE TypeOK'
  <2>1. PICK i \in duty[t][r] :
          /\ region' = [region EXCEPT ![r] = bookkeep_returned_eph_memory(@, i)]
          /\ duty' = [duty EXCEPT ![t][r] = @ \ {i}]
          /\ book' = [book EXCEPT ![t][r] = duty[t][r] # {i}]
    BY <1>15 DEF DonBook
  <2>2. region' \in [Regions -> Region]
    <3>1. region[r] \in Region /\ duty[t][r] \in SUBSET Ids
      BY <1>2, <1>4
    <3>2. bookkeep_returned_eph_memory(region[r], i) \in Region
      BY <1>2, <3>1, RegionTypes
    <3>3. QED
      BY <1>2, <2>1, <3>2
  <2>3. /\ duty' \in [Threads -> [Regions -> SUBSET Ids]]
        /\ book' \in [Threads -> [Regions -> BOOLEAN]]
    BY <1>4, <2>1
  <2>4. QED
    BY <1>15, <2>2, <2>3, SameIds DEF DonBook, WellFormed, TypeOK, vmVars
<1>16. QED
  BY <1>7, <1>8, <1>9, <1>10, <1>11, <1>12, <1>13, <1>14, <1>15 DEF ReturnStep

(* No step of return_eph_memory_from_consumer changes what region or VM a *)
(* thread is working on.                                                  *)
LEMMA ReturnKnown ==
  ASSUME WellFormed, NEW t \in Threads, ReturnStep(t)
  PROVE  RegionIsKnown' /\ LeavingIsKnown'
<1>1. /\ pc \in [Threads -> Labels]
      /\ cont \in [Threads -> {"idle", "unbacked", "respond", "done", "consumer"}]
  BY DEF WellFormed, TypeOK
<1>2. UNCHANGED <<req, revoke, leaving>>
  BY DEF ReturnStep, OrganizeOne, OrganizeDone, ConsumersDone, DonorsDone, RelClaim,
         RelQmp, RelWait, RelRemove, DonQmp, DonBook
<1>3. \/ UNCHANGED <<pc, cont>>
      \/ pc[t] = "organize" /\ pc' = [pc EXCEPT ![t] = "consumers"] /\ UNCHANGED cont
      \/ pc[t] = "consumers" /\ pc' = [pc EXCEPT ![t] = "donors"] /\ UNCHANGED cont
      \/ /\ pc[t] = "donors"
         /\ pc' = [pc EXCEPT ![t] = cont[t]] /\ cont' = [cont EXCEPT ![t] = "idle"]
  BY DEF ReturnStep, OrganizeOne, OrganizeDone, ConsumersDone, DonorsDone, RelClaim,
         RelQmp, RelWait, RelRemove, DonQmp, DonBook, Goto
<1>4. /\ Detector \in Threads /\ Revokers \subseteq Threads /\ Consumers \subseteq Threads
  BY DEF Threads
<1>5. LeavingIsKnown'
  BY <1>1, <1>2, <1>3, <1>4 DEF WellFormed, LeavingIsKnown
<1>6. RegionIsKnown'
  BY <1>1, <1>2, <1>3, <1>4 DEF WellFormed, RegionIsKnown
<1>7. QED
  BY <1>5, <1>6

-----------------------------------------------------------------------------
(***************************************************************************)
(* The revoke threads, the detection thread, the event thread and the      *)
(* environment.                                                            *)
(***************************************************************************)

(* A revoke thread, in revoke_eph_memory, keeps the state well formed. *)
LEMMA RevokeWellFormed ==
  ASSUME WellFormed, NEW t \in Revokers, RevokeStep(t)
  PROVE  WellFormed'
<1>1. /\ t \in Threads /\ t \notin Consumers /\ t # Detector
      /\ Consumers \subseteq Threads /\ Revokers \subseteq Threads /\ Detector \in Threads
  BY OrchestratorAssumption DEF Threads, VMs
<1>2. /\ nextId \in Nat /\ region \in [Regions -> Region] /\ alloc \in [Ids -> Allocation]
      /\ todo \in [Threads -> SUBSET Ids] /\ scan \in [Threads -> SUBSET Ids]
  BY DEF WellFormed, TypeOK
<1>3. revoke \in [Revokers -> [region : Regions \cup {NoRegion}, remaining : Nat]]
  BY DEF WellFormed, TypeOK
<1>4. /\ pc \in [Threads -> Labels]
      /\ cont \in [Threads -> {"idle", "unbacked", "respond", "done", "consumer"}]
  BY DEF WellFormed, TypeOK
<1>5. pc[t] \in {"revoke", "select"} => revoke[t].region \in Regions
  BY <1>3 DEF WellFormed, RegionIsKnown
<1>6. /\ \A u \in Threads \ {t} : pc'[u] = pc[u] /\ cont'[u] = cont[u]
      /\ UNCHANGED <<req, leaving>>
  BY <1>1, <1>4 DEF RevokeStep, RevokeLock, RevokeSelect, RevokeReturn, Goto, CallReturn
<1>7. LeavingIsKnown'
  BY <1>1, <1>6 DEF WellFormed, LeavingIsKnown
<1>8. /\ pc' \in [Threads -> Labels]
      /\ cont' \in [Threads -> {"idle", "unbacked", "respond", "done", "consumer"}]
  BY <1>1, <1>4 DEF RevokeStep, RevokeLock, RevokeSelect, RevokeReturn, Goto, CallReturn, Labels
<1>9. CASE RevokeLock(t)
  <2>1. scan' \in [Threads -> SUBSET Ids]
    <3>1. region[revoke[t].region].allocations \in SUBSET Ids
      BY <1>2, <1>5, <1>9 DEF RevokeLock, Region
    <3>2. QED
      BY <1>2, <1>9, <3>1 DEF RevokeLock
  <2>2. TypeOK'
    BY <1>8, <1>9, <2>1, SameIds DEF RevokeLock, WellFormed, TypeOK, allocVars, vmVars
  <2>3. RegionIsKnown'
    BY <1>1, <1>4, <1>6, <1>9 DEF RevokeLock, Goto, WellFormed, RegionIsKnown
  <2>4. QED
    BY <1>7, <2>2, <2>3 DEF WellFormed
<1>10. CASE RevokeSelect(t)
  <2>1. PICK i \in scan[t] :
          /\ scan' = [scan EXCEPT ![t] = @ \ {i}]
          /\ \/ UNCHANGED <<alloc, revoke, todo>>
             \/ /\ alloc' = [alloc EXCEPT ![i] = try_claim_for_revoke(@)]
                /\ revoke' = [revoke EXCEPT ![t].remaining = @ - 1]
                /\ todo' = [todo EXCEPT ![t] = @ \cup {i}]
    BY <1>10 DEF RevokeSelect
  <2>2. i \in Ids
    BY <1>1, <1>2
  <2>3. alloc' \in [Ids -> Allocation]
    <3>1. try_claim_for_revoke(alloc[i]) \in Allocation
      BY <1>2, <2>2 DEF try_claim_for_revoke, Allocation, AllocState
    <3>2. QED
      BY <1>2, <2>1, <3>1
  <2>4. /\ scan' \in [Threads -> SUBSET Ids] /\ todo' \in [Threads -> SUBSET Ids]
    BY <1>1, <1>2, <2>1, <2>2
  <2>5. PICK n \in Nat : revoke' = revoke \/ revoke' = [revoke EXCEPT ![t].remaining = n]
    <3>1. revoke[t].remaining - 1 \in Nat
      BY <1>3, <1>10 DEF RevokeSelect
    <3>2. QED
      BY <2>1, <3>1
  <2>6. revoke' \in [Revokers -> [region : Regions \cup {NoRegion}, remaining : Nat]]
    BY <1>3, <2>5
  <2>7. TypeOK'
    BY <1>10, <2>3, <2>4, <2>6, SameIds DEF RevokeSelect, WellFormed, TypeOK, vmVars
  <2>8. \A u \in Revokers : revoke'[u].region = revoke[u].region
    BY <1>3, <2>5
  <2>9. RegionIsKnown'
    BY <1>10, <2>8 DEF RevokeSelect, WellFormed, RegionIsKnown
  <2>10. QED
    BY <1>7, <2>7, <2>9 DEF WellFormed
<1>11. CASE RevokeReturn(t)
  <2>1. region' \in [Regions -> Region]
    <3>1. revoke[t].region \in Regions /\ revoke[t].remaining \in Nat
      BY <1>3, <1>5, <1>11 DEF RevokeReturn
    <3>2. OweRest(region[revoke[t].region], revoke[t].remaining) \in Region
      BY <1>2, <3>1, RegionTypes
    <3>3. QED
      BY <1>2, <1>11, <3>1, <3>2 DEF RevokeReturn
  <2>2. revoke' \in [Revokers -> [region : Regions \cup {NoRegion}, remaining : Nat]]
    BY <1>3, <1>11 DEF RevokeReturn
  <2>3. scan' \in [Threads -> SUBSET Ids] /\ todo' \in [Threads -> SUBSET Ids]
    BY <1>1, <1>2, <1>11 DEF RevokeReturn, CallReturn
  <2>4. TypeOK'
    BY <1>8, <1>11, <2>1, <2>2, <2>3, SameIds DEF RevokeReturn, WellFormed, TypeOK, vmVars
  <2>5. pc'[t] = "organize" /\ \A u \in Revokers \ {t} : revoke'[u] = revoke[u]
    BY <1>1, <1>3, <1>4, <1>11 DEF RevokeReturn, CallReturn
  <2>6. RegionIsKnown'
    BY <1>1, <1>6, <2>5 DEF WellFormed, RegionIsKnown
  <2>7. QED
    BY <1>7, <2>4, <2>6 DEF WellFormed
<1>12. QED
  BY <1>9, <1>10, <1>11 DEF RevokeStep

(* The detection thread, in remove_vms, keeps the state well formed. *)
LEMMA DetectorWellFormed ==
  ASSUME WellFormed, DetectorStep
  PROVE  WellFormed'
<1>1. /\ Detector \in Threads /\ Detector \notin Consumers /\ Detector \notin Revokers
      /\ Consumers \subseteq Threads /\ Revokers \subseteq Threads
  BY OrchestratorAssumption DEF Threads, VMs
<1>2. /\ region \in [Regions -> Region] /\ areas \in [Consumers -> [Slots -> Ids \cup {0}]]
      /\ todo \in [Threads -> SUBSET Ids] /\ scan \in [Threads -> SUBSET Ids]
  BY DEF WellFormed, TypeOK
<1>3. /\ pc \in [Threads -> Labels]
      /\ cont \in [Threads -> {"idle", "unbacked", "respond", "done", "consumer"}]
  BY DEF WellFormed, TypeOK
<1>4. /\ pc' \in [Threads -> Labels]
      /\ cont' \in [Threads -> {"idle", "unbacked", "respond", "done", "consumer"}]
      /\ \A u \in Threads \ {Detector} : pc'[u] = pc[u]
      /\ UNCHANGED <<req, revoke>>
  BY <1>1, <1>3 DEF DetectorStep, DetRemove, DetExited, DetConsumer, DetDonor, DetSelect,
                    DetReturn, Goto, CallReturn, Labels
<1>5. RegionIsKnown'
  BY <1>1, <1>4 DEF WellFormed, RegionIsKnown
<1>6. ASSUME NEW v \in VMs, DetRemove(v) PROVE TypeOK' /\ LeavingIsKnown'
  <2>1. TypeOK'
    BY <1>4, <1>6, SameIds DEF DetRemove, WellFormed, TypeOK, vmVars
  <2>2. pc'[Detector] = "exit" /\ leaving' = v /\ cont'[Detector] = "idle"
    BY <1>1, <1>3, <1>6 DEF DetRemove, Goto, WellFormed, LeavingIsKnown
  <2>3. QED
    BY <2>1, <2>2 DEF LeavingIsKnown
<1>7. CASE DetExited
  <2>1. leaving \in VMs /\ cont[Detector] = "idle"
    BY <1>7 DEF DetExited, WellFormed, LeavingIsKnown
  <2>2. TypeOK'
    BY <1>4, <1>7, <2>1, SameIds DEF DetExited, WellFormed, TypeOK, vmVars
  <2>3. /\ pc'[Detector] = IF leaving \in Consumers THEN "consumer" ELSE "donor"
        /\ UNCHANGED <<leaving, cont>>
    BY <1>1, <1>3, <1>7 DEF DetExited, Goto
  <2>4. QED
    BY <1>5, <2>1, <2>2, <2>3 DEF WellFormed, LeavingIsKnown
<1>8. CASE DetConsumer
  <2>1. leaving \in Consumers /\ cont[Detector] = "idle"
    BY <1>8 DEF DetConsumer, WellFormed, LeavingIsKnown
  <2>2. todo' \in [Threads -> SUBSET Ids]
    <3>1. { areas[leaving][s] : s \in Slots } \ {0} \in SUBSET Ids
      BY <1>2, <2>1
    <3>2. QED
      BY <1>1, <1>2, <1>8, <3>1 DEF DetConsumer, CallReturn
  <2>3. TypeOK'
    BY <1>4, <1>8, <2>2, SameIds DEF DetConsumer, WellFormed, TypeOK, allocVars, vmVars
  <2>4. /\ UNCHANGED leaving
        /\ \/ pc'[Detector] = "organize" /\ cont'[Detector] = "consumer"
           \/ pc'[Detector] = "donor" /\ cont'[Detector] = "idle"
    BY <1>1, <1>3, <1>8, <2>1 DEF DetConsumer, Goto, CallReturn
  <2>5. QED
    BY <1>5, <2>1, <2>3, <2>4 DEF WellFormed, LeavingIsKnown
<1>9. CASE DetDonor
  <2>1. cont[Detector] = "idle"
    BY <1>9 DEF DetDonor, WellFormed, LeavingIsKnown
  <2>2. scan' \in [Threads -> SUBSET Ids]
    <3>1. UNION { region[r].allocations : r \in { q \in Regions : DonorOf[q] = leaving } }
            \in SUBSET Ids
      BY <1>2 DEF Region
    <3>2. QED
      BY <1>1, <1>2, <1>9, <3>1 DEF DetDonor
  <2>3. leaving' \in VMs \cup {0}
    BY <1>9 DEF DetDonor, WellFormed, TypeOK
  <2>4. TypeOK'
    BY <1>4, <1>9, <2>2, <2>3, SameIds DEF DetDonor, WellFormed, TypeOK, allocVars, vmVars
  <2>5. pc'[Detector] \in {"select", "idle"} /\ cont'[Detector] = "idle"
    BY <1>1, <1>3, <1>9, <2>1 DEF DetDonor, Goto
  <2>6. QED
    BY <1>5, <2>4, <2>5 DEF WellFormed, LeavingIsKnown
<1>10. CASE DetSelect
  <2>1. scan' \in [Threads -> SUBSET Ids] /\ todo' \in [Threads -> SUBSET Ids]
    BY <1>1, <1>2, <1>10 DEF DetSelect
  <2>2. TypeOK'
    BY <1>10, <2>1, SameIds DEF DetSelect, WellFormed, TypeOK, allocVars, vmVars
  <2>3. QED
    BY <1>5, <1>10, <2>2 DEF DetSelect, WellFormed, LeavingIsKnown
<1>11. CASE DetReturn
  <2>1. todo' \in [Threads -> SUBSET Ids]
    BY <1>1, <1>2, <1>11 DEF DetReturn, CallReturn
  <2>2. TypeOK'
    BY <1>4, <1>11, <2>1, SameIds DEF DetReturn, WellFormed, TypeOK, allocVars, vmVars
  <2>3. pc'[Detector] = "organize" /\ cont'[Detector] = "idle"
    BY <1>1, <1>3, <1>11 DEF DetReturn, CallReturn
  <2>4. QED
    BY <1>5, <2>2, <2>3 DEF WellFormed, LeavingIsKnown
<1>12. QED
  BY <1>5, <1>6, <1>7, <1>8, <1>9, <1>10, <1>11 DEF DetectorStep, WellFormed

(* The event thread, in handle_event, keeps the state well formed. *)
LEMMA EventWellFormed ==
  ASSUME WellFormed, EventStep
  PROVE  WellFormed'
<1> DEFINE Event == DcEvent \cup RevokeEvent
<1>1. events \in [VMs -> Seq(Event)] /\ evt \in DcEvent \cup {NoEvent}
  BY DEF WellFormed, TypeOK
<1>2. /\ pc \in [Threads -> Labels] /\ Detector \in Threads
      /\ Consumers \subseteq Threads /\ Revokers \subseteq Threads
      /\ Revokers \cap Consumers = {} /\ Detector \notin Revokers
  BY OrchestratorAssumption DEF WellFormed, TypeOK, Threads, VMs
<1>3. evt.type \in {"add", "gap", "release"} =>
        evt \in DcEvent /\ evt.vm \in Consumers /\ evt.offsets \in SUBSET Slots
  BY <1>1 DEF DcEvent, NoEvent
<1>4. /\ alloc \in [Ids -> Allocation] /\ areas \in [Consumers -> [Slots -> Ids \cup {0}]]
      /\ dcd \in [Consumers -> Device]
  BY DEF WellFormed, TypeOK
<1>5. ASSUME NEW v \in VMs, EvtTake(v) PROVE WellFormed'
  <2> DEFINE e == Head(events[v])
  <2>1. events[v] \in Seq(Event) /\ events[v] # <<>>
    BY <1>1, <1>5 DEF EvtTake
  <2> HIDE DEF Event
  <2>2. e \in Event /\ Tail(events[v]) \in Seq(Event)
    BY <2>1
  <2>3. events' \in [VMs -> Seq(Event)]
    BY <1>1, <1>5, <2>2 DEF EvtTake
  <2>4. evt' \in DcEvent \cup {NoEvent}
    <3>1. e.type # "revoke" => e \in DcEvent
      BY <2>2 DEF Event, RevokeEvent
    <3>2. evt' = evt \/ (e.type # "revoke" /\ evt' = e)
      BY <1>5 DEF EvtTake
    <3>3. QED
      BY <1>1, <3>1, <3>2
  <2>5. \/ UNCHANGED <<pc, revoke>>
        \/ \E t \in Revokers : \E r \in Regions, n \in Nat :
             /\ pc' = [pc EXCEPT ![t] = "revoke"]
             /\ revoke' = [revoke EXCEPT ![t] = [region |-> r, remaining |-> n]]
    <3>1. e.type = "revoke" => e.region \in Regions /\ RevokeGranules(e.size) \in Nat
      <4>1. SUFFICES ASSUME e.type = "revoke"
                     PROVE  e.region \in Regions /\ RevokeGranules(e.size) \in Nat
        OBVIOUS
      <4>2. e \in RevokeEvent
        BY <2>2, <4>1 DEF Event, DcEvent
      <4>3. e.region \in Regions /\ e.size \in Nat
        BY <4>2 DEF RevokeEvent
      <4>4. e.size + Granularity - 1 \in Nat
        BY <4>3, GranularityAssumption
      <4>5. QED
        BY <4>3, <4>4, Remainders DEF RevokeGranules
    <3>2. QED
      BY <1>5, <3>1 DEF EvtTake, Goto
  <2>6. pc' \in [Threads -> Labels]
    BY <1>2, <2>5 DEF Labels
  <2>7. revoke' \in [Revokers -> [region : Regions \cup {NoRegion}, remaining : Nat]]
    <3>1. revoke \in [Revokers -> [region : Regions \cup {NoRegion}, remaining : Nat]]
      BY DEF WellFormed, TypeOK
    <3>2. QED
      BY <2>5, <3>1
  <2>8. TypeOK'
    BY <1>5, <2>3, <2>4, <2>6, <2>7, SameIds
    DEF EvtTake, Event, WellFormed, TypeOK, allocVars
  <2>9. LeavingIsKnown'
    <3>1. pc'[Detector] = pc[Detector] /\ UNCHANGED <<cont, leaving>>
      BY <1>2, <1>5, <2>5 DEF EvtTake
    <3>2. QED
      BY <3>1 DEF WellFormed, LeavingIsKnown
  <2>10. RegionIsKnown'
    <3>1. \A c \in Consumers : pc'[c] = pc[c] /\ req'[c] = req[c]
      BY <1>2, <1>5, <2>5 DEF EvtTake
    <3>2. ASSUME NEW u \in Revokers
          PROVE  pc'[u] \in {"revoke", "select"} => revoke'[u].region # NoRegion
      <4>1. revoke \in [Revokers -> [region : Regions \cup {NoRegion}, remaining : Nat]]
        BY DEF WellFormed, TypeOK
      <4>2. NoRegion \notin Regions
        BY AllocationAssumption DEF NoRegion
      <4>3. QED
        BY <1>2, <2>5, <4>1, <4>2 DEF WellFormed, RegionIsKnown
    <3>3. QED
      BY <3>1, <3>2 DEF WellFormed, RegionIsKnown
  <2>11. QED
    BY <2>8, <2>9, <2>10 DEF WellFormed
<1>6. EvtAdd \/ EvtGap \/ EvtRelease => UNCHANGED <<pc, cont, req, revoke, leaving, nextId>>
  BY DEF EvtAdd, EvtGap, EvtRelease, allocVars
<1>7. EvtAdd \/ EvtGap \/ EvtRelease => RegionIsKnown' /\ LeavingIsKnown'
  BY <1>6 DEF WellFormed, RegionIsKnown, LeavingIsKnown
<1>8. CASE EvtAdd
  <2> DEFINE known == { s \in evt.offsets : areas[evt.vm][s] # 0 }
             ids   == { areas[evt.vm][s] : s \in known }
  <2>1. evt \in DcEvent /\ evt.offsets \in SUBSET Slots
    BY <1>3, <1>8 DEF EvtAdd
  <2>2. alloc' \in [Ids -> Allocation]
    <3>1. ASSUME NEW i \in Ids PROVE [alloc[i] EXCEPT !.dcd_set = TRUE] \in Allocation
      BY <1>4 DEF Allocation
    <3>2. alloc' = [i \in Ids |-> IF i \in ids
                      THEN [alloc[i] EXCEPT !.dcd_set = TRUE] ELSE alloc[i]]
      BY <1>8 DEF EvtAdd
    <3> HIDE DEF ids
    <3>3. QED
      BY <1>4, <3>1, <3>2
  <2>3. evt' \in DcEvent \cup {NoEvent}
    <3>1. PICK S \in SUBSET Slots :
            evt' = NoEvent \/ evt' = [evt EXCEPT !.type = "gap", !.offsets = S]
      <4>1. evt.offsets \ known \in SUBSET Slots
        BY <2>1
      <4>2. evt' = NoEvent \/ evt' = [evt EXCEPT !.type = "gap", !.offsets = evt.offsets \ known]
        BY <1>8 DEF EvtAdd
      <4>3. QED
        BY <4>1, <4>2
    <3>2. [evt EXCEPT !.type = "gap", !.offsets = S] \in DcEvent
      BY <2>1 DEF DcEvent
    <3>3. QED
      BY <3>1, <3>2
  <2>4. TypeOK'
    BY <1>8, <2>2, <2>3, SameIds DEF EvtAdd, WellFormed, TypeOK, vmVars
  <2>5. QED
    BY <1>7, <1>8, <2>4 DEF WellFormed
<1>9. CASE EvtGap
  <2>1. evt.vm \in Consumers
    BY <1>3, <1>9 DEF EvtGap
  <2>2. dcd' \in [Consumers -> Device]
    BY <1>4, <1>9, <2>1, ReleaseTypes DEF EvtGap
  <2>3. budget' \in [requests : Nat, revokes : Nat, faults : Nat]
    <3>1. budget \in [requests : Nat, revokes : Nat, faults : Nat]
      BY DEF WellFormed, TypeOK
    <3>2. QED
      BY <1>9, <3>1 DEF EvtGap, IoOk, IoErr
  <2>4. TypeOK'
    BY <1>9, <2>2, <2>3, SameIds DEF EvtGap, WellFormed, TypeOK, allocVars
  <2>5. QED
    BY <1>7, <1>9, <2>4 DEF WellFormed
<1>10. CASE EvtRelease
  <2>1. evt.vm \in Consumers
    BY <1>3, <1>10 DEF EvtRelease
  <2>2. areas' \in [Consumers -> [Slots -> Ids \cup {0}]]
    BY <1>4, <1>10, <2>1, RemoveTypes DEF EvtRelease
  <2>3. TypeOK'
    BY <1>10, <2>2, SameIds DEF EvtRelease, WellFormed, TypeOK, vmVars
  <2>4. QED
    BY <1>7, <1>10, <2>3 DEF WellFormed
<1>11. QED
  BY <1>5, <1>8, <1>9, <1>10 DEF EventStep

(* Requests, guests, donors and exits keep the state well formed. *)
LEMMA EnvironmentWellFormed ==
  ASSUME WellFormed, Environment
  PROVE  WellFormed'
<1> DEFINE Event == DcEvent \cup RevokeEvent
<1>1. /\ events \in [VMs -> Seq(Event)] /\ dcd \in [Consumers -> Device]
      /\ budget \in [requests : Nat, revokes : Nat, faults : Nat]
      /\ req \in [Consumers -> Request] /\ pc \in [Threads -> Labels]
      /\ asked \in [Regions -> Nat]
  BY DEF WellFormed, TypeOK
<1>2. ASSUME NEW v \in VMs, NEW e \in Event, Send(v, e)
      PROVE  events' \in [VMs -> Seq(Event)]
  <2>1. events[v] \in Seq(Event)
    BY <1>1
  <2> HIDE DEF Event
  <2>2. Append(events[v], e) \in Seq(Event)
    BY <2>1
  <2>3. QED
    BY <1>1, <1>2, <2>2 DEF Send
<1>3. UNCHANGED <<pc, cont, req, revoke, leaving>> => RegionIsKnown' /\ LeavingIsKnown'
  BY DEF WellFormed, RegionIsKnown, LeavingIsKnown
<1>4. ASSUME NEW c \in Consumers, NEW n \in 1..MaxRequestSize, RequestArrives(c, n)
      PROVE  WellFormed'
  <2>1. /\ c \in Threads /\ c # Detector /\ c \notin Revokers
        /\ Consumers \subseteq Threads /\ Revokers \subseteq Threads /\ Detector \in Threads
    BY OrchestratorAssumption DEF Threads, VMs
  <2>2. pc' \in [Threads -> Labels]
    BY <1>1, <1>4, <2>1 DEF RequestArrives, Goto, Labels
  <2>3. req' \in [Consumers -> Request]
    <3>1. n \in Nat
      BY OrchestratorAssumption
    <3>2. [NoRequest EXCEPT !.left = n] \in Request
      BY <3>1 DEF NoRequest, Request
    <3>3. QED
      BY <1>1, <1>4, <3>2 DEF RequestArrives
  <2>4. budget' \in [requests : Nat, revokes : Nat, faults : Nat]
    <3>1. budget \in [requests : Nat, revokes : Nat, faults : Nat]
      BY <1>1
    <3>2. budget' = [budget EXCEPT !.requests = @ - 1] /\ budget.requests - 1 \in Nat
      BY <1>4, <3>1 DEF RequestArrives
    <3>3. QED
      BY <3>1, <3>2
  <2>5. TypeOK'
    BY <1>4, <2>2, <2>3, <2>4, SameIds DEF RequestArrives, WellFormed, TypeOK, allocVars
  <2>6. /\ pc'[c] = "reserve" /\ \A t \in Threads \ {c} : pc'[t] = pc[t]
        /\ \A b \in Consumers \ {c} : req'[b] = req[b]
        /\ UNCHANGED <<cont, revoke, leaving>>
    BY <1>1, <1>4, <2>1 DEF RequestArrives, Goto
  <2>7. LeavingIsKnown'
    BY <2>1, <2>6 DEF WellFormed, LeavingIsKnown
  <2>8. RegionIsKnown'
    BY <2>1, <2>6 DEF WellFormed, RegionIsKnown
  <2>9. QED
    BY <2>5, <2>7, <2>8 DEF WellFormed
<1>5. ASSUME NEW c \in Consumers, NEW S \in SUBSET Slots, GuestAdds(c, S) \/ GuestReleases(c, S)
      PROVE  WellFormed'
  <2>1. PICK e \in DcEvent : Send(c, e)
    BY <1>5 DEF GuestAdds, GuestReleases, DcEvent
  <2>2. events' \in [VMs -> Seq(Event)]
    BY <1>2, <2>1 DEF VMs
  <2>3. dcd' \in [Consumers -> Device]
    <3>1. /\ dcd[c].offered \in SUBSET Slots /\ dcd[c].present \in SUBSET Slots
          /\ dcd[c].releasing \in SUBSET Slots
      BY <1>1 DEF Device
    <3>2. PICK A, B \in SUBSET Slots :
            \/ dcd' = [dcd EXCEPT ![c].offered = A, ![c].present = B]
            \/ dcd' = [dcd EXCEPT ![c].releasing = A, ![c].present = B]
      BY <1>5, <3>1 DEF GuestAdds, GuestReleases
    <3>3. dcd \in [Consumers -> Device]
      BY <1>1
    <3>4. QED
      BY <3>2, <3>3 DEF Device
  <2>4. TypeOK'
    BY <1>5, <2>2, <2>3, SameIds
    DEF GuestAdds, GuestReleases, WellFormed, TypeOK, allocVars, threadVars
  <2>5. QED
    BY <1>3, <1>5, <2>4 DEF GuestAdds, GuestReleases, WellFormed, threadVars
<1>6. ASSUME NEW r \in Regions, NEW n \in 1..RegionSize[r], DonorRevokes(r, n)
      PROVE  WellFormed'
  <2>1. n \in Nat /\ DonorOf[r] \in VMs
    BY OrchestratorAssumption DEF VMs
  <2>2. [type |-> "revoke", region |-> r, size |-> n] \in Event
    BY <2>1 DEF RevokeEvent
  <2>3. events' \in [VMs -> Seq(Event)]
    BY <1>2, <1>6, <2>1, <2>2 DEF DonorRevokes
  <2>4. asked' \in [Regions -> Nat]
    BY <1>1, <1>6, <2>1 DEF DonorRevokes
  <2>5. budget' \in [requests : Nat, revokes : Nat, faults : Nat]
    <3>1. budget \in [requests : Nat, revokes : Nat, faults : Nat]
      BY <1>1
    <3>2. budget' = [budget EXCEPT !.revokes = @ - 1] /\ budget.revokes - 1 \in Nat
      BY <1>6, <3>1 DEF DonorRevokes
    <3>3. QED
      BY <3>1, <3>2
  <2>6. TypeOK'
    BY <1>6, <2>3, <2>4, <2>5, SameIds
    DEF DonorRevokes, WellFormed, TypeOK, allocVars, threadVars
  <2>7. QED
    BY <1>3, <1>6, <2>6 DEF DonorRevokes, WellFormed, threadVars
<1>7. ASSUME NEW v \in VMs, VmExits(v) PROVE WellFormed'
  <2>1. TypeOK'
    BY <1>7, SameIds DEF VmExits, WellFormed, TypeOK, allocVars, threadVars
  <2>2. QED
    BY <1>3, <1>7, <2>1 DEF VmExits, WellFormed, threadVars
<1>8. QED
  BY <1>4, <1>5, <1>6, <1>7 DEF Environment

-----------------------------------------------------------------------------
(* Every step of the system keeps the state well formed. *)
LEMMA NextWellFormed ==
  ASSUME WellFormed, [Next]_vars
  PROVE  WellFormed'
<1>1. ASSUME NEW c \in Consumers, RequestStep(c) PROVE WellFormed'
  BY <1>1, RequestTypes, RequestKnown DEF WellFormed
<1>2. ASSUME NEW t \in Threads, ReturnStep(t) PROVE WellFormed'
  BY <1>2, ReturnTypes, ReturnKnown DEF WellFormed
<1>3. CASE UNCHANGED vars
  <2>1. TypeOK'
    BY <1>3, SameIds DEF vars, allocVars, threadVars, vmVars, WellFormed, TypeOK
  <2>2. RegionIsKnown' /\ LeavingIsKnown'
    BY <1>3 DEF vars, allocVars, threadVars, vmVars, WellFormed, RegionIsKnown, LeavingIsKnown
  <2>3. QED
    BY <2>1, <2>2 DEF WellFormed
<1>4. QED
  BY <1>1, <1>2, <1>3, RevokeWellFormed, DetectorWellFormed, EventWellFormed,
     EnvironmentWellFormed DEF Next

(* The state is always well formed: it has its types, a request or revoke *)
(* thread that works on a region has one, and the detection thread that   *)
(* releases the areas of a consumer is removing one.                      *)
THEOREM WellFormedAlways == Spec => []WellFormed
<1>1. Init => WellFormed
  BY InitWellFormed
<1>2. WellFormed /\ [Next]_vars => WellFormed'
  BY NextWellFormed
<1>3. QED
  BY <1>1, <1>2, PTL DEF Spec

(***************************************************************************)
(* Whatever the number of VMs, regions and slots and whatever the          *)
(* interleaving of the orchestrator's threads, its state keeps its types:  *)
(* in particular none of the unsigned counters of donor.rs (donated,       *)
(* revoked_owed) and of a revoke's remaining size ever goes below zero.    *)
(***************************************************************************)
THEOREM TypesAlways == Spec => []TypeOK
<1>1. WellFormed => TypeOK
  BY DEF WellFormed
<1>2. QED
  BY <1>1, WellFormedAlways, PTL

-----------------------------------------------------------------------------
(* The life cycle of an allocation. *)

Working == {"donate", "confirm", "give_back", "commit"}

-----------------------------------------------------------------------------
(* Initially there is no allocation, so the invariant holds. *)
LEMMA InitLifecycle ==
  ASSUME Init PROVE Lifecycle
<1>1. Ids = {} /\ WellFormed
  BY InitWellFormed DEF Init, Ids
<1>2. \A c \in Consumers : req[c] = NoRequest /\ pc[c] = "idle"
  BY OrchestratorAssumption DEF Init, Threads, VMs
<1>3. PendingIsUncommitted /\ ReservingIsUnbacked /\ ChunkIsTracked
  BY <1>2 DEF NoRequest, PendingIsUncommitted, ReservingIsUnbacked, ChunkIsTracked
<1>4. \A t \in Threads, r \in Regions : duty[t][r] = {}
  BY DEF Init
<1>5. DutyIsAbandoned /\ SingleReturner
  BY <1>4 DEF DutyIsAbandoned, SingleReturner
<1>6. CommittedIsTracked
  BY <1>1 DEF CommittedIsTracked
<1>7. QED
  BY <1>1, <1>3, <1>5, <1>6 DEF Lifecycle

(***************************************************************************)
(* A step keeps Lifecycle when it changes no allocation's state, donor or  *)
(* consumer, gives no thread more to commit or to return, and takes out of *)
(* a region's map only what a thread returns.                              *)
(***************************************************************************)
LEMMA Frame ==
  ASSUME Lifecycle, WellFormed',
         UNCHANGED nextId,
         \A i \in Ids : /\ alloc'[i].state = alloc[i].state
                        /\ alloc'[i].donor_info = alloc[i].donor_info
                        /\ alloc'[i].consumer_vm = alloc[i].consumer_vm,
         \A r \in Regions : \A i \in region[r].allocations \ region'[r].allocations :
           \E t \in Threads, q \in Regions : i \in duty[t][q],
         \A c \in Consumers :
           /\ req'[c].unbacked \subseteq req[c].unbacked
           /\ req'[c].chunk \subseteq req[c].chunk
           /\ pc'[c] = "reserve" => req'[c].rsvd = req'[c].unbacked
           /\ pc'[c] \in Working => pc[c] \in Working /\ req'[c].region = req[c].region,
         \A t \in Threads, r \in Regions : duty'[t][r] \subseteq duty[t][r]
  PROVE  Lifecycle'
<1>1. Ids' = Ids
  BY DEF Ids
<1>2. \A c \in Consumers : /\ req[c].unbacked \subseteq Ids /\ req[c].chunk \subseteq Ids
                           /\ req[c].region \in Regions \cup {NoRegion}
  BY DEF Lifecycle, WellFormed, TypeOK, Request
<1>3. \A t \in Threads, r \in Regions : duty[t][r] \subseteq Ids
  BY DEF Lifecycle, WellFormed, TypeOK
<1>4. PendingIsUncommitted'
  BY <1>2 DEF Lifecycle, PendingIsUncommitted, MayCommit
<1>5. ReservingIsUnbacked'
  BY DEF ReservingIsUnbacked
<1>6. DutyIsAbandoned'
  BY <1>3 DEF Lifecycle, DutyIsAbandoned
<1>7. SingleReturner'
  BY DEF Lifecycle, SingleReturner
<1>8. NoRegion \notin Regions
  BY AllocationAssumption DEF NoRegion
<1>9. ChunkIsTracked'
  <2>1. SUFFICES ASSUME NEW c \in Consumers, pc'[c] \in Working, NEW i \in req'[c].chunk
                 PROVE  i \in region'[req'[c].region].allocations
    BY DEF ChunkIsTracked, Working
  <2>2. pc[c] \in Working /\ req'[c].region = req[c].region /\ i \in req[c].chunk
    BY <2>1
  <2>3. req[c].region \in Regions /\ i \in region[req[c].region].allocations
    BY <1>2, <2>2 DEF Lifecycle, WellFormed, RegionIsKnown, ChunkIsTracked, Working
  <2>4. alloc[i].donor_info = NoRegion
    BY <2>2 DEF Lifecycle, PendingIsUncommitted, MayCommit
  <2>5. \A t \in Threads, q \in Regions : i \notin duty[t][q]
    BY <1>8, <2>4 DEF Lifecycle, DutyIsAbandoned
  <2>6. QED
    BY <2>2, <2>3, <2>5
<1>10. CommittedIsTracked'
  <2>1. SUFFICES ASSUME NEW i \in Ids, alloc[i].state \in {"Committed", "PendingRelease"}
                 PROVE  /\ alloc[i].donor_info # NoRegion
                        /\ i \in region'[alloc[i].donor_info].allocations
    BY <1>1 DEF CommittedIsTracked
  <2>2. /\ alloc[i].donor_info # NoRegion
        /\ i \in region[alloc[i].donor_info].allocations
    BY <2>1 DEF Lifecycle, CommittedIsTracked
  <2>3. alloc[i].donor_info \in Regions
    BY <2>2 DEF Lifecycle, WellFormed, TypeOK, Allocation
  <2>4. \A t \in Threads, q \in Regions : i \notin duty[t][q]
    BY <2>1 DEF Lifecycle, DutyIsAbandoned
  <2>5. QED
    BY <2>2, <2>3, <2>4
<1>11. QED
  BY <1>4, <1>5, <1>6, <1>7, <1>9, <1>10 DEF Lifecycle

-----------------------------------------------------------------------------
(***************************************************************************)
(* The request thread.                                                     *)
(***************************************************************************)

(* The steps of a request thread that change no state of an allocation and *)
(* take nothing more on keep the invariant.                                *)
LEMMA RequestFrame ==
  ASSUME Lifecycle, WellFormed', NEW c \in Consumers,
         \/ InnerSkip(c) \/ InnerNone(c) \/ Donate(c) \/ GiveBack(c) \/ CommitDone(c)
         \/ Unbacked(c) \/ UnbackedDone(c) \/ Retain(c) \/ RetainNone(c)
         \/ AddCapacity(c) \/ WaitAdd(c) \/ Partition(c) \/ PartitionDone(c) \/ Respond(c)
  PROVE  Lifecycle'
<1>1. req \in [Consumers -> Request] /\ pc \in [Threads -> Labels]
      /\ c \in Threads /\ Consumers \subseteq Threads
  BY DEF Lifecycle, WellFormed, TypeOK, Threads
<1>2. UNCHANGED <<alloc, nextId, region, duty>>
  BY DEF InnerSkip, InnerNone, Donate, GiveBack, CommitDone, Unbacked, UnbackedDone, Retain,
         RetainNone, AddCapacity, WaitAdd, Partition, PartitionDone, Respond, allocVars
<1> DEFINE Keeps == /\ \A b \in Consumers \ {c} : req'[b] = req[b] /\ pc'[b] = pc[b]
                    /\ req'[c].unbacked \subseteq req[c].unbacked
                    /\ req'[c].chunk \subseteq req[c].chunk
                    /\ pc'[c] # "reserve"
                    /\ pc'[c] \in Working => pc[c] \in Working /\ req'[c].region = req[c].region
<1>3. Keeps
  <2>1. CASE InnerSkip(c)
    BY <1>1, <2>1 DEF InnerSkip, Request, Working
  <2>2. CASE InnerNone(c)
    BY <1>1, <2>2 DEF InnerNone, Goto, Working
  <2>3. CASE Donate(c)
    <3>1. PICK g : req' = [req EXCEPT ![c].granted = g]
      BY <2>3 DEF Donate
    <3>2. pc' = [pc EXCEPT ![c] = "confirm"] /\ pc[c] = "donate"
      BY <2>3 DEF Donate, Goto
    <3>3. QED
      BY <1>1, <3>1, <3>2 DEF Request, Working
  <2>4. CASE GiveBack(c)
    BY <1>1, <2>4 DEF GiveBack, Goto, Request, Working
  <2>5. CASE CommitDone(c)
    BY <1>1, <2>5 DEF CommitDone, Goto, Request, Working
  <2>6. CASE Unbacked(c)
    BY <1>1, <2>6 DEF Unbacked, Goto, Working
  <2>7. CASE UnbackedDone(c)
    BY <1>1, <2>7 DEF UnbackedDone, Goto, Request, Working
  <2>8. CASE Retain(c)
    BY <1>1, <2>8 DEF Retain, Request, Working
  <2>9. CASE RetainNone(c)
    BY <1>1, <2>9 DEF RetainNone, Goto, NoRequest, Working
  <2>10. CASE AddCapacity(c)
    BY <1>1, <2>10 DEF AddCapacity, Goto, CallReturn, NoRequest, Working
  <2>11. CASE WaitAdd(c)
    BY <1>1, <2>11 DEF WaitAdd, Goto, Working
  <2>12. CASE Partition(c)
    <3>1. PICK rest, live :
            req' = req \/ req' = [req EXCEPT ![c].rsvd = rest, ![c].live = live]
      BY <2>12 DEF Partition
    <3>2. UNCHANGED pc /\ pc[c] = "partition"
      BY <2>12 DEF Partition
    <3>3. QED
      BY <1>1, <3>1, <3>2 DEF Request, Working
  <2>13. CASE PartitionDone(c)
    BY <1>1, <2>13 DEF PartitionDone, Goto, CallReturn, Request, Working
  <2>14. CASE Respond(c)
    BY <1>1, <2>14 DEF Respond, Goto, CallReturn, NoRequest, Working
  <2>15. QED
    BY <2>1, <2>2, <2>3, <2>4, <2>5, <2>6, <2>7, <2>8, <2>9, <2>10, <2>11, <2>12,
       <2>13, <2>14
<1>4. \A b \in Consumers : pc'[b] = "reserve" => req'[b].rsvd = req'[b].unbacked
  BY <1>3 DEF Lifecycle, ReservingIsUnbacked
<1>5. QED
  BY <1>2, <1>3, <1>4, Frame

(* New allocations are pending, have no donor and belong to their consumer. *)
LEMMA ReserveContigKeeps ==
  ASSUME Lifecycle, WellFormed', NEW c \in Consumers, ReserveContig(c)
  PROVE  Lifecycle'
<1> DEFINE n    == ContigRun(c)[2] - ContigRun(c)[1]
           new  == nextId..(nextId + n - 1)
           rsvd == req[c].rsvd \cup new
<1>1. /\ req \in [Consumers -> Request] /\ pc \in [Threads -> Labels] /\ nextId \in Nat \ {0}
      /\ c \in Threads /\ Consumers \subseteq Threads
  BY DEF Lifecycle, WellFormed, TypeOK, Threads
<1>2. nextId' = nextId + n /\ nextId' \in Nat /\ alloc' \in [Ids' -> Allocation]
  BY DEF ReserveContig, WellFormed, TypeOK
<1>3. /\ alloc' = [i \in 1..(nextId + n - 1) |->
                     IF i < nextId THEN alloc[i]
                     ELSE NewAllocation(c, ContigRun(c)[1] + (i - nextId))]
      /\ UNCHANGED <<region, duty>>
  BY DEF ReserveContig
<1>4. n \in Nat
  <2>1. PICK lo, hi \in 0..NumSlots : ContigRun(c) = <<lo, hi>> /\ lo <= hi
    BY ReserveRun DEF Lifecycle, WellFormed
  <2>2. QED
    BY <2>1, AllocationAssumption
<1> HIDE DEF n
<1>ids. Ids = 1..(nextId - 1) /\ Ids' = 1..(nextId + n - 1)
  BY <1>1, <1>2, <1>4 DEF Ids
<1>5. \A i \in Ids' : i \in Ids => alloc'[i] = alloc[i]
  BY <1>1, <1>3, <1>4, <1>ids
<1>6. \A i \in Ids' : i \notin Ids =>
        alloc'[i].state = "PendingCommit" /\ MayCommit(alloc'[i]) /\ alloc'[i].consumer_vm = c
  BY <1>1, <1>3, <1>4, <1>ids DEF NewAllocation, MayCommit
<1>7. /\ \A b \in Consumers \ {c} : req'[b] = req[b] /\ pc'[b] = pc[b]
      /\ \/ req'[c] = NoRequest /\ pc'[c] = "idle"
         \/ /\ req'[c].rsvd = rsvd /\ req'[c].unbacked = rsvd
            /\ req'[c].chunk = req[c].chunk /\ pc'[c] \in {"reserve", "inner"}
  <2> DEFINE ended == n = 0 \/ n = req[c].left
             left  == IF ended THEN 0 ELSE req[c].left - n
  <2>1. req' = [req EXCEPT ![c] = IF ended /\ rsvd = {} THEN NoRequest
                  ELSE [req[c] EXCEPT !.left = left, !.rsvd = rsvd, !.unbacked = rsvd]]
    BY DEF ReserveContig, n
  <2>2. pc' = [pc EXCEPT ![c] = IF ~ended THEN "reserve" ELSE IF rsvd = {} THEN "idle" ELSE "inner"]
    BY DEF ReserveContig, Goto, n
  <2> HIDE DEF ended, left, rsvd
  <2>3. QED
    BY <1>1, <2>1, <2>2 DEF Request
<1>8. /\ \A b \in Consumers : req'[b].unbacked \subseteq Ids' /\ req'[b].chunk \subseteq Ids'
      /\ \A b \in Consumers : req[b].unbacked \subseteq Ids /\ req[b].chunk \subseteq Ids
  BY DEF Lifecycle, WellFormed, TypeOK, Request
<1>9. pc[c] = "reserve" /\ req[c].rsvd = req[c].unbacked
  BY DEF ReserveContig, Lifecycle, ReservingIsUnbacked
<1>10. \A b \in Consumers : \A i \in req'[b].unbacked \cup req'[b].chunk :
         i \in Ids => i \in req[b].unbacked \cup req[b].chunk
  <2>1. new \cap Ids = {}
    BY <1>1 DEF Ids
  <2>2. QED
    BY <1>7, <1>9, <2>1 DEF NoRequest
<1>11. PendingIsUncommitted'
  <2>1. SUFFICES ASSUME NEW b \in Consumers, NEW i \in req'[b].unbacked \cup req'[b].chunk
                 PROVE  MayCommit(alloc'[i]) /\ alloc'[i].consumer_vm = b
    BY DEF PendingIsUncommitted
  <2>2. i \in Ids'
    BY <1>8
  <2>3. CASE i \in Ids
    BY <1>5, <1>10, <2>2, <2>3 DEF Lifecycle, PendingIsUncommitted
  <2>4. CASE i \notin Ids
    <3>1. b = c
      BY <1>7, <1>8, <2>1, <2>4
    <3>2. QED
      BY <1>6, <2>2, <2>4, <3>1
  <2>5. QED
    BY <2>3, <2>4
<1>12. ReservingIsUnbacked'
  BY <1>7 DEF Lifecycle, ReservingIsUnbacked
<1>13. ChunkIsTracked'
  BY <1>3, <1>7 DEF Lifecycle, ChunkIsTracked
<1>14. Ids \subseteq Ids'
  BY <1>1, <1>4, <1>ids
<1>15. \A t \in Threads, r \in Regions : duty[t][r] \subseteq Ids
  BY DEF Lifecycle, WellFormed, TypeOK
<1>16. DutyIsAbandoned' /\ SingleReturner'
  BY <1>3, <1>5, <1>14, <1>15 DEF Lifecycle, DutyIsAbandoned, SingleReturner
<1>17. CommittedIsTracked'
  BY <1>3, <1>5, <1>6 DEF Lifecycle, CommittedIsTracked
<1>18. QED
  BY <1>11, <1>12, <1>13, <1>16, <1>17 DEF Lifecycle

(* A chunk of the unbacked allocations enters the map of a region. *)
LEMMA InnerTakeKeeps ==
  ASSUME Lifecycle, WellFormed', NEW c \in Consumers, InnerTake(c)
  PROVE  Lifecycle'
<1>1. /\ req \in [Consumers -> Request] /\ pc \in [Threads -> Labels]
      /\ region \in [Regions -> Region] /\ c \in Threads /\ Consumers \subseteq Threads
  BY DEF Lifecycle, WellFormed, TypeOK, Threads
<1>2. PICK r \in Regions, chunk \in SUBSET req[c].unbacked :
        /\ region' = [region EXCEPT ![r] = Reserve(@, chunk)]
        /\ req' = [req EXCEPT ![c].region = r, ![c].chunk = chunk]
  BY DEF InnerTake, Lowest
<1>3. Ids' = Ids /\ UNCHANGED <<alloc, duty>> /\ pc' = [pc EXCEPT ![c] = "donate"]
  BY DEF InnerTake, Goto, Ids
<1>4. /\ \A b \in Consumers \ {c} : req'[b] = req[b] /\ pc'[b] = pc[b]
      /\ req'[c].unbacked = req[c].unbacked /\ req'[c].chunk = chunk /\ req'[c].region = r
      /\ pc'[c] = "donate"
  BY <1>1, <1>2, <1>3 DEF Request
<1>5. /\ \A q \in Regions : region[q].allocations \subseteq region'[q].allocations
      /\ chunk \subseteq region'[r].allocations
  <2>1. Reserve(region[r], chunk).allocations = region[r].allocations \cup chunk
    BY <1>1 DEF Reserve, Region
  <2>2. QED
    BY <1>1, <1>2, <2>1
<1>6. PendingIsUncommitted'
  BY <1>3, <1>4 DEF Lifecycle, PendingIsUncommitted
<1>7. ReservingIsUnbacked'
  BY <1>4 DEF Lifecycle, ReservingIsUnbacked
<1>8. ChunkIsTracked'
  <2>1. \A b \in Consumers : pc[b] \in Working => req[b].region \in Regions
    BY <1>1 DEF Lifecycle, WellFormed, RegionIsKnown, Working, Request
  <2>2. QED
    BY <1>4, <1>5, <2>1 DEF Lifecycle, ChunkIsTracked, Working
<1>9. DutyIsAbandoned' /\ SingleReturner'
  BY <1>3 DEF Lifecycle, DutyIsAbandoned, SingleReturner
<1>10. CommittedIsTracked'
  <2>1. \A i \in Ids : alloc[i].donor_info \in Regions \cup {NoRegion}
    BY DEF Lifecycle, WellFormed, TypeOK, Allocation
  <2>2. QED
    BY <1>3, <1>5, <2>1 DEF Lifecycle, CommittedIsTracked
<1>11. QED
  BY <1>6, <1>7, <1>8, <1>9, <1>10 DEF Lifecycle

(* What is not confirmed leaves the map, but no other thread's chunk. *)
LEMMA ConfirmKeeps ==
  ASSUME Lifecycle, WellFormed', NEW c \in Consumers, Confirm(c)
  PROVE  Lifecycle'
<1> DEFINE r    == req[c].region
           ids  == req[c].chunk
           conf == Confirmed(region[r], ids, req[c].granted)
<1>1. /\ req \in [Consumers -> Request] /\ pc \in [Threads -> Labels]
      /\ region \in [Regions -> Region] /\ c \in Threads /\ Consumers \subseteq Threads
  BY DEF Lifecycle, WellFormed, TypeOK, Threads
<1>2. r \in Regions
  BY <1>1 DEF Confirm, Lifecycle, WellFormed, RegionIsKnown, Request
<1>3. conf \subseteq ids
  BY DEF Confirmed, Lowest
<1>4. /\ region' = [region EXCEPT ![r] = handle_reserved_alloc(@, ids, req[c].granted)]
      /\ req' = [req EXCEPT ![c].chunk = conf, ![c].granted = 0,
                            ![c].give_back = GiveBackUnits(region[r], ids, req[c].granted)]
      /\ pc[c] = "confirm"
      /\ \A b \in Threads \ {c} : pc'[b] = pc[b]
      /\ pc'[c] \in {"give_back", "commit"}
  BY <1>1 DEF Confirm, Goto
<1>5. Ids' = Ids /\ UNCHANGED <<alloc, duty>>
  BY DEF Confirm, Ids
<1>6. /\ \A q \in Regions \ {r} : region'[q] = region[q]
      /\ region'[r].allocations = region[r].allocations \ (ids \ conf)
  <2>1. handle_reserved_alloc(region[r], ids, req[c].granted).allocations
          = region[r].allocations \ (ids \ conf)
    BY <1>1, <1>2 DEF handle_reserved_alloc, Region
  <2>2. QED
    BY <1>1, <1>2, <1>4, <2>1
<1> HIDE DEF conf
<1>7. /\ \A b \in Consumers \ {c} : req'[b] = req[b]
      /\ req'[c].unbacked = req[c].unbacked /\ req'[c].chunk = conf /\ req'[c].region = r
  BY <1>1, <1>4 DEF Request
<1>8. PendingIsUncommitted'
  BY <1>3, <1>5, <1>7 DEF Lifecycle, PendingIsUncommitted
<1>9. ReservingIsUnbacked'
  BY <1>1, <1>4, <1>7 DEF Lifecycle, ReservingIsUnbacked
<1>10. ChunkIsTracked'
  <2>1. SUFFICES ASSUME NEW b \in Consumers, pc'[b] \in Working, NEW i \in req'[b].chunk
                 PROVE  i \in region'[req'[b].region].allocations
    BY DEF ChunkIsTracked, Working
  <2>2. CASE b = c
    <3>1. ids \subseteq region[r].allocations
      BY <1>4 DEF Lifecycle, ChunkIsTracked
    <3>2. QED
      BY <1>3, <1>6, <1>7, <2>1, <2>2, <3>1
  <2>3. CASE b # c
    <3>1. pc[b] \in Working /\ req'[b] = req[b]
      BY <1>1, <1>4, <1>7, <2>1, <2>3
    <3>2. i \in region[req[b].region].allocations /\ req[b].region \in Regions
      BY <1>1, <2>1, <3>1
      DEF Lifecycle, WellFormed, ChunkIsTracked, RegionIsKnown, Working, Request
    <3>3. alloc[i].consumer_vm = b /\ \A j \in ids : alloc[j].consumer_vm = c
      BY <2>1, <3>1 DEF Lifecycle, PendingIsUncommitted
    <3>4. QED
      BY <1>6, <2>3, <3>1, <3>2, <3>3
  <2>4. QED
    BY <2>2, <2>3
<1>11. DutyIsAbandoned' /\ SingleReturner'
  BY <1>5 DEF Lifecycle, DutyIsAbandoned, SingleReturner
<1>12. CommittedIsTracked'
  <2>1. \A i \in Ids : alloc[i].donor_info \in Regions \cup {NoRegion}
    BY DEF Lifecycle, WellFormed, TypeOK, Allocation
  <2>2. \A i \in ids : alloc[i].state \notin {"Committed", "PendingRelease"}
    BY DEF Lifecycle, PendingIsUncommitted, MayCommit
  <2>3. QED
    BY <1>5, <1>6, <2>1, <2>2 DEF Lifecycle, CommittedIsTracked
<1>13. QED
  BY <1>8, <1>9, <1>10, <1>11, <1>12 DEF Lifecycle

(* A commit records the donor, or leaves an abandoned allocation to be     *)
(* returned by this thread alone.                                          *)
LEMMA CommitOneKeeps ==
  ASSUME Lifecycle, WellFormed', NEW c \in Consumers, CommitOne(c)
  PROVE  Lifecycle'
<1> DEFINE r == req[c].region
<1>1. /\ req \in [Consumers -> Request] /\ pc \in [Threads -> Labels]
      /\ alloc \in [Ids -> Allocation] /\ duty \in [Threads -> [Regions -> SUBSET Ids]]
      /\ c \in Threads /\ Consumers \subseteq Threads
  BY DEF Lifecycle, WellFormed, TypeOK, Threads
<1>2. r \in Regions /\ NoRegion \notin Regions
  BY <1>1, AllocationAssumption
  DEF CommitOne, Lifecycle, WellFormed, RegionIsKnown, Request, NoRegion
<1>3. PICK i \in req[c].chunk :
        /\ MayCommit(alloc[i])
        /\ alloc' = [alloc EXCEPT ![i] = commit_allocation(@, r)]
        /\ duty' = IF alloc[i].state = "Abandoned"
                   THEN [duty EXCEPT ![c][r] = @ \cup {i}] ELSE duty
        /\ req' = [req EXCEPT ![c].chunk = @ \ {i}, ![c].unbacked = @ \ {i}]
  BY DEF CommitOne
<1>4. Ids' = Ids /\ UNCHANGED <<region, pc>> /\ pc[c] = "commit" /\ i \in Ids
  BY <1>1 DEF CommitOne, Ids, Request
<1>5. /\ \A j \in Ids \ {i} : alloc'[j] = alloc[j]
      /\ alloc'[i].donor_info = r /\ alloc'[i].consumer_vm = alloc[i].consumer_vm
      /\ alloc[i].state = "PendingCommit" => alloc'[i].state = "Committed"
      /\ alloc[i].state = "Abandoned" => alloc'[i].state = "Abandoned"
      /\ alloc[i].state \in {"PendingCommit", "Abandoned"} /\ alloc[i].donor_info = NoRegion
  BY <1>1, <1>3, <1>4 DEF commit_allocation, Allocation, MayCommit
<1>6. /\ \A b \in Consumers \ {c} : req'[b] = req[b]
      /\ req'[c].unbacked = req[c].unbacked \ {i} /\ req'[c].chunk = req[c].chunk \ {i}
      /\ req'[c].region = r /\ req'[c].rsvd = req[c].rsvd
  BY <1>1, <1>3 DEF Request
<1>7. \A t \in Threads, q \in Regions : i \notin duty[t][q]
  BY <1>2, <1>5 DEF Lifecycle, DutyIsAbandoned
<1>8. \A t \in Threads, q \in Regions :
        duty'[t][q] = IF t = c /\ q = r /\ alloc[i].state = "Abandoned"
                      THEN duty[t][q] \cup {i} ELSE duty[t][q]
  BY <1>1, <1>2, <1>3
<1>9. PendingIsUncommitted'
  <2>1. SUFFICES ASSUME NEW b \in Consumers, NEW j \in req'[b].unbacked \cup req'[b].chunk
                 PROVE  MayCommit(alloc'[j]) /\ alloc'[j].consumer_vm = b
    BY DEF PendingIsUncommitted
  <2>2. j \in req[b].unbacked \cup req[b].chunk /\ j \in Ids
    BY <1>1, <1>6, <2>1 DEF Request
  <2>3. MayCommit(alloc[j]) /\ alloc[j].consumer_vm = b
    BY <2>2 DEF Lifecycle, PendingIsUncommitted
  <2>4. alloc[i].consumer_vm = c
    BY DEF Lifecycle, PendingIsUncommitted
  <2>5. j # i
    BY <1>6, <2>1, <2>3, <2>4
  <2>6. QED
    BY <1>5, <2>2, <2>3, <2>5
<1>10. ReservingIsUnbacked'
  BY <1>4, <1>6 DEF Lifecycle, ReservingIsUnbacked
<1>11. ChunkIsTracked'
  BY <1>4, <1>6 DEF Lifecycle, ChunkIsTracked
<1>12. DutyIsAbandoned'
  <2>1. SUFFICES ASSUME NEW t \in Threads, NEW q \in Regions, NEW j \in duty'[t][q]
                 PROVE  alloc'[j].state = "Abandoned" /\ alloc'[j].donor_info = q
    BY DEF DutyIsAbandoned
  <2>2. CASE j = i
    <3>1. i \in duty'[t][q]
      BY <2>1, <2>2
    <3>2. t = c /\ q = r /\ alloc[i].state = "Abandoned"
      BY <1>7, <1>8, <3>1
    <3>3. QED
      BY <1>5, <2>2, <3>2
  <2>3. CASE j # i
    <3>1. duty'[t][q] = duty[t][q] \/ duty'[t][q] = duty[t][q] \cup {i}
      BY <1>8, Zenon
    <3>2. j \in duty[t][q]
      BY <2>1, <2>3, <3>1, Zenon
    <3>3. duty[t][q] \in SUBSET Ids
      BY <1>1
    <3>4. alloc[j].state = "Abandoned" /\ alloc[j].donor_info = q
      BY <3>2, Zenon DEF Lifecycle, DutyIsAbandoned
    <3>5. QED
      BY <1>5, <2>3, <3>2, <3>3, <3>4
  <2>4. QED
    BY <2>2, <2>3
<1>13. SingleReturner'
  <2>1. SUFFICES ASSUME NEW t \in Threads, NEW u \in Threads, NEW q \in Regions,
                        NEW s \in Regions, t # u \/ q # s,
                        NEW j \in duty'[t][q] \cap duty'[u][s]
                 PROVE  FALSE
    BY DEF SingleReturner
  <2>2. duty[t][q] \cap duty[u][s] = {}
    BY <2>1 DEF Lifecycle, SingleReturner
  <2>3. CASE j = i
    <3>1. i \in duty'[t][q] /\ i \in duty'[u][s]
      BY <2>1, <2>3
    <3>2. t = c /\ q = r
      BY <1>7, <1>8, <3>1
    <3>3. u = c /\ s = r
      BY <1>7, <1>8, <3>1
    <3>4. QED
      BY <2>1, <3>2, <3>3
  <2>4. CASE j # i
    <3>1. j \in duty[t][q] /\ j \in duty[u][s]
      BY <1>8, <2>1, <2>4
    <3>2. QED
      BY <2>2, <3>1
  <2>5. QED
    BY <2>3, <2>4
<1>14. CommittedIsTracked'
  <2>1. i \in region[r].allocations
    BY <1>4 DEF Lifecycle, ChunkIsTracked
  <2>2. QED
    BY <1>2, <1>4, <1>5, <2>1 DEF Lifecycle, CommittedIsTracked
<1>15. QED
  BY <1>9, <1>10, <1>11, <1>12, <1>13, <1>14 DEF Lifecycle

-----------------------------------------------------------------------------
(***************************************************************************)
(* The return of allocations.                                              *)
(***************************************************************************)

(* The thread that abandons an allocation takes its donor, if it has one   *)
(* and no thread took it before.                                           *)
LEMMA OrganizeOneKeeps ==
  ASSUME Lifecycle, WellFormed', NEW t \in Threads, OrganizeOne(t)
  PROVE  Lifecycle'
<1>1. /\ alloc \in [Ids -> Allocation] /\ duty \in [Threads -> [Regions -> SUBSET Ids]]
      /\ req \in [Consumers -> Request] /\ todo[t] \subseteq Ids
  BY DEF Lifecycle, WellFormed, TypeOK
<1>2. PICK i \in todo[t] :
        /\ alloc' = [alloc EXCEPT ![i] = abandon(@)]
        /\ duty' = IF TakesDonor(alloc[i]) /\ DonorOf[alloc[i].donor_info] \notin exited
                   THEN [duty EXCEPT ![t][alloc[i].donor_info] = @ \cup {i}] ELSE duty
  BY DEF OrganizeOne
<1> DEFINE d     == alloc[i].donor_info
           taken == TakesDonor(alloc[i]) /\ DonorOf[d] \notin exited
<1>3. Ids' = Ids /\ UNCHANGED <<region, pc, req>> /\ i \in Ids
  BY <1>1 DEF OrganizeOne, Ids
<1>4. /\ \A j \in Ids \ {i} : alloc'[j] = alloc[j]
      /\ alloc'[i].state = "Abandoned" /\ alloc'[i].donor_info = d
      /\ alloc'[i].consumer_vm = alloc[i].consumer_vm
  BY <1>1, <1>2, <1>3 DEF abandon, Allocation
<1>5. taken => /\ d \in Regions
               /\ \A u \in Threads, q \in Regions : i \notin duty[u][q]
  <2>1. SUFFICES ASSUME taken
                 PROVE  d \in Regions /\ \A u \in Threads, q \in Regions : i \notin duty[u][q]
    OBVIOUS
  <2>2. alloc[i].state \in {"Committed", "PendingRelease"}
    BY <2>1 DEF TakesDonor
  <2>3. d # NoRegion /\ d \in Regions \cup {NoRegion}
    BY <1>1, <1>3, <2>2 DEF Lifecycle, CommittedIsTracked, Allocation
  <2>4. \A u \in Threads, q \in Regions : i \notin duty[u][q]
    BY <2>2 DEF Lifecycle, DutyIsAbandoned
  <2>5. QED
    BY <2>3, <2>4
<1>6. \A u \in Threads, q \in Regions :
        duty'[u][q] = IF u = t /\ q = d /\ taken THEN duty[u][q] \cup {i} ELSE duty[u][q]
  BY <1>1, <1>2, <1>5
<1> HIDE DEF d, taken
<1>7. PendingIsUncommitted'
  <2>1. SUFFICES ASSUME NEW b \in Consumers, NEW j \in req[b].unbacked \cup req[b].chunk
                 PROVE  MayCommit(alloc'[j]) /\ alloc'[j].consumer_vm = b
    BY <1>3 DEF PendingIsUncommitted
  <2>2. j \in Ids
    BY <1>1 DEF Request
  <2>3. MayCommit(alloc[j]) /\ alloc[j].consumer_vm = b
    BY DEF Lifecycle, PendingIsUncommitted
  <2>4. QED
    BY <1>4, <2>2, <2>3 DEF MayCommit, d
<1>8. ReservingIsUnbacked' /\ ChunkIsTracked'
  BY <1>3 DEF Lifecycle, ReservingIsUnbacked, ChunkIsTracked
<1>9. DutyIsAbandoned'
  <2>1. SUFFICES ASSUME NEW u \in Threads, NEW q \in Regions, NEW j \in duty'[u][q]
                 PROVE  alloc'[j].state = "Abandoned" /\ alloc'[j].donor_info = q
    BY DEF DutyIsAbandoned
  <2>2. CASE j \in duty[u][q]
    <3>1. alloc[j].state = "Abandoned" /\ alloc[j].donor_info = q /\ j \in Ids
      BY <1>1, <2>2 DEF Lifecycle, DutyIsAbandoned
    <3>2. QED
      BY <1>4, <3>1 DEF d
  <2>3. CASE j \notin duty[u][q]
    <3>1. j = i /\ q = d
      BY <1>6, <2>1, <2>3
    <3>2. QED
      BY <1>4, <3>1
  <2>4. QED
    BY <2>2, <2>3
<1>10. SingleReturner'
  <2>1. SUFFICES ASSUME NEW u \in Threads, NEW v \in Threads, NEW q \in Regions,
                        NEW s \in Regions, u # v \/ q # s,
                        NEW j \in duty'[u][q] \cap duty'[v][s]
                 PROVE  FALSE
    BY DEF SingleReturner
  <2>2. duty[u][q] \cap duty[v][s] = {}
    BY <2>1 DEF Lifecycle, SingleReturner
  <2>3. CASE j \in duty[u][q] \/ j \in duty[v][s]
    <3>1. j # i \/ ~taken
      BY <1>5, <2>3
    <3>2. j \in duty[u][q] /\ j \in duty[v][s]
      BY <1>6, <2>1, <3>1
    <3>3. QED
      BY <2>2, <3>2
  <2>4. CASE j \notin duty[u][q] /\ j \notin duty[v][s]
    <3>1. u = t /\ q = d
      BY <1>6, <2>1, <2>4
    <3>2. v = t /\ s = d
      BY <1>6, <2>1, <2>4
    <3>3. QED
      BY <2>1, <3>1, <3>2
  <2>5. QED
    BY <2>3, <2>4
<1>11. CommittedIsTracked'
  BY <1>3, <1>4 DEF Lifecycle, CommittedIsTracked
<1>12. QED
  BY <1>7, <1>8, <1>9, <1>10, <1>11 DEF Lifecycle

(* return_eph_memory_from_consumer keeps the invariant: only its first loop *)
(* abandons allocations, and only its last one takes them out of a region.  *)
LEMMA ReturnKeeps ==
  ASSUME Lifecycle, WellFormed', NEW t \in Threads, ReturnStep(t)
  PROVE  Lifecycle'
<1>1. /\ alloc \in [Ids -> Allocation] /\ duty \in [Threads -> [Regions -> SUBSET Ids]]
      /\ region \in [Regions -> Region] /\ pc \in [Threads -> Labels]
      /\ cont \in [Threads -> {"idle", "unbacked", "respond", "done", "consumer"}]
      /\ Consumers \subseteq Threads
  BY DEF Lifecycle, WellFormed, TypeOK, Threads
<1>2. CASE OrganizeOne(t)
  BY <1>2, OrganizeOneKeeps
<1>3. /\ UNCHANGED <<req, nextId>>
      /\ \A c \in Consumers : /\ pc'[c] = "reserve" => pc[c] = "reserve"
                              /\ pc'[c] \in Working => pc[c] \in Working
  <2>1. UNCHANGED <<req, nextId>>
    BY DEF ReturnStep, OrganizeOne, OrganizeDone, ConsumersDone, DonorsDone, RelClaim, RelQmp,
           RelWait, RelRemove, DonQmp, DonBook, allocVars
  <2>2. pc' = pc \/ \E l \in {"consumers", "donors", cont[t]} : pc' = [pc EXCEPT ![t] = l]
    BY DEF ReturnStep, OrganizeOne, OrganizeDone, ConsumersDone, DonorsDone, RelClaim, RelQmp,
           RelWait, RelRemove, DonQmp, DonBook, Goto
  <2>3. QED
    BY <1>1, <2>1, <2>2 DEF Working
<1>4. \A c \in Consumers : pc'[c] = "reserve" => req'[c].rsvd = req'[c].unbacked
  BY <1>3 DEF Lifecycle, ReservingIsUnbacked
<1>5. CASE OrganizeDone(t) \/ ConsumersDone(t) \/ DonorsDone(t)
  <2>1. UNCHANGED <<alloc, region, duty>>
    BY <1>5 DEF OrganizeDone, ConsumersDone, DonorsDone, allocVars
  <2>2. QED
    BY <1>3, <1>4, <2>1, Frame
<1>6. ASSUME NEW c \in Consumers, RelClaim(t, c) PROVE Lifecycle'
  <2>1. UNCHANGED <<region, duty>>
    BY <1>6 DEF RelClaim
  <2>2. \A i \in Ids : /\ alloc'[i].state = alloc[i].state
                       /\ alloc'[i].donor_info = alloc[i].donor_info
                       /\ alloc'[i].consumer_vm = alloc[i].consumer_vm
    <3>1. \A i \in Ids : \/ alloc'[i] = alloc[i]
                         \/ alloc'[i] = [alloc[i] EXCEPT !.release_requested = TRUE]
      BY <1>6 DEF RelClaim
    <3>2. alloc \in [Ids -> Allocation]
      BY <1>1
    <3>3. QED
      BY <3>1, <3>2 DEF Allocation
  <2>3. QED
    BY <1>3, <1>4, <2>1, <2>2, Frame
<1>7. ASSUME NEW c \in Consumers, RelQmp(t, c) \/ RelWait(t, c) \/ RelRemove(t, c)
      PROVE  Lifecycle'
  <2>1. UNCHANGED <<alloc, region, duty>>
    BY <1>7 DEF RelQmp, RelWait, RelRemove, allocVars
  <2>2. QED
    BY <1>3, <1>4, <2>1, Frame
<1>8. ASSUME NEW r \in Regions, DonQmp(t, r) PROVE Lifecycle'
  <2>1. UNCHANGED <<alloc, region>>
    BY <1>8 DEF DonQmp, allocVars
  <2>2. duty' = duty \/ duty' = [duty EXCEPT ![t][r] = {}]
    BY <1>8 DEF DonQmp
  <2>3. \A u \in Threads, q \in Regions : duty'[u][q] \subseteq duty[u][q]
    BY <1>1, <2>2
  <2>4. QED
    BY <1>3, <1>4, <2>1, <2>3, Frame
<1>9. ASSUME NEW r \in Regions, DonBook(t, r) PROVE Lifecycle'
  <2>1. PICK i \in duty[t][r] :
          /\ region' = [region EXCEPT ![r] = bookkeep_returned_eph_memory(@, i)]
          /\ duty' = [duty EXCEPT ![t][r] = @ \ {i}]
    BY <1>9 DEF DonBook
  <2>2. UNCHANGED alloc
    BY <1>9 DEF DonBook
  <2>3. \A u \in Threads, q \in Regions : duty'[u][q] \subseteq duty[u][q]
    BY <1>1, <2>1
  <2>4. \A q \in Regions : region[q].allocations \ region'[q].allocations \subseteq {i}
    <3>1. region[r].allocations \ bookkeep_returned_eph_memory(region[r], i).allocations
            \subseteq {i}
      BY <1>1 DEF bookkeep_returned_eph_memory, Region
    <3>2. QED
      BY <1>1, <2>1, <3>1
  <2>5. QED
    BY <1>3, <1>4, <2>1, <2>2, <2>3, <2>4, Frame
<1>10. QED
  BY <1>2, <1>5, <1>6, <1>7, <1>8, <1>9 DEF ReturnStep

-----------------------------------------------------------------------------
(***************************************************************************)
(* The other threads and the environment.                                  *)
(***************************************************************************)

(* A revoke claims only allocations that are committed. *)
LEMMA RevokeSelectKeeps ==
  ASSUME Lifecycle, WellFormed', NEW t \in Revokers, RevokeSelect(t)
  PROVE  Lifecycle'
<1>1. /\ alloc \in [Ids -> Allocation] /\ duty \in [Threads -> [Regions -> SUBSET Ids]]
      /\ req \in [Consumers -> Request] /\ scan[t] \subseteq Ids
  BY DEF Lifecycle, WellFormed, TypeOK, Threads
<1>2. PICK i \in scan[t] :
        \/ UNCHANGED alloc
        \/ is_committed(alloc[i]) /\ alloc' = [alloc EXCEPT ![i] = try_claim_for_revoke(@)]
  BY DEF RevokeSelect
<1>3. Ids' = Ids /\ UNCHANGED <<nextId, region, pc, req, duty>> /\ i \in Ids
  BY <1>1 DEF RevokeSelect, Ids
<1>4. CASE UNCHANGED alloc
  BY <1>3, <1>4, Frame DEF Lifecycle, ReservingIsUnbacked
<1>5. CASE is_committed(alloc[i]) /\ alloc' = [alloc EXCEPT ![i] = try_claim_for_revoke(@)]
  <2>1. /\ \A j \in Ids \ {i} : alloc'[j] = alloc[j]
        /\ alloc[i].state = "Committed" /\ alloc'[i].donor_info = alloc[i].donor_info
    BY <1>1, <1>3, <1>5 DEF is_committed, try_claim_for_revoke, Allocation
  <2>2. PendingIsUncommitted'
    <3>1. \A b \in Consumers : \A j \in req[b].unbacked \cup req[b].chunk : j \in Ids \ {i}
      BY <1>1, <2>1 DEF Lifecycle, PendingIsUncommitted, MayCommit, Request
    <3>2. QED
      BY <1>3, <2>1, <3>1 DEF Lifecycle, PendingIsUncommitted
  <2>3. DutyIsAbandoned'
    <3>1. \A u \in Threads, q \in Regions : duty[u][q] \subseteq Ids \ {i}
      BY <1>1, <2>1 DEF Lifecycle, DutyIsAbandoned
    <3>2. QED
      BY <1>3, <2>1, <3>1 DEF Lifecycle, DutyIsAbandoned
  <2>4. CommittedIsTracked'
    BY <1>3, <2>1 DEF Lifecycle, CommittedIsTracked
  <2>5. ReservingIsUnbacked' /\ ChunkIsTracked' /\ SingleReturner'
    BY <1>3 DEF Lifecycle, ReservingIsUnbacked, ChunkIsTracked, SingleReturner
  <2>6. QED
    BY <2>2, <2>3, <2>4, <2>5 DEF Lifecycle
<1>6. QED
  BY <1>2, <1>4, <1>5

(* revoke_eph_memory keeps the invariant. *)
LEMMA RevokeKeeps ==
  ASSUME Lifecycle, WellFormed', NEW t \in Revokers, RevokeStep(t)
  PROVE  Lifecycle'
<1>1. /\ pc \in [Threads -> Labels] /\ t \in Threads /\ t \notin Consumers
      /\ Consumers \subseteq Threads /\ region \in [Regions -> Region]
  BY OrchestratorAssumption DEF Lifecycle, WellFormed, TypeOK, Threads, VMs
<1>2. CASE RevokeLock(t) \/ RevokeReturn(t)
  <2>1. UNCHANGED <<nextId, alloc, req, duty>> /\ \A c \in Consumers : pc'[c] = pc[c]
    BY <1>1, <1>2 DEF RevokeLock, RevokeReturn, Goto, CallReturn, allocVars
  <2>2. \A r \in Regions : region'[r].allocations = region[r].allocations
    BY <1>1, <1>2 DEF RevokeLock, RevokeReturn, OweRest, Region, allocVars
  <2>3. QED
    BY <2>1, <2>2, Frame DEF Lifecycle, ReservingIsUnbacked
<1>3. QED
  BY <1>2, RevokeSelectKeeps DEF RevokeStep

(* The detection thread, the event thread and the VMs change no state that *)
(* the invariant is about.                                                 *)
LEMMA OthersKeep ==
  ASSUME Lifecycle, WellFormed', DetectorStep \/ EventStep \/ Environment
  PROVE  Lifecycle'
<1>1. /\ pc \in [Threads -> Labels] /\ Consumers \subseteq Threads /\ Detector \notin Consumers
      /\ Revokers \cap Consumers = {} /\ req \in [Consumers -> Request]
      /\ alloc \in [Ids -> Allocation]
  BY OrchestratorAssumption DEF Lifecycle, WellFormed, TypeOK, Threads, VMs
<1>2. CASE DetectorStep
  <2>1. UNCHANGED <<nextId, alloc, region, req, duty>> /\ \A c \in Consumers : pc'[c] = pc[c]
    BY <1>1, <1>2 DEF DetectorStep, DetRemove, DetExited, DetConsumer, DetDonor, DetSelect,
                      DetReturn, Goto, CallReturn, allocVars
  <2>2. QED
    BY <2>1, Frame DEF Lifecycle, ReservingIsUnbacked
<1>3. CASE EventStep
  <2>1. UNCHANGED <<nextId, region, req, duty>> /\ \A c \in Consumers : pc'[c] = pc[c]
    BY <1>1, <1>3 DEF EventStep, EvtTake, EvtAdd, EvtGap, EvtRelease, Goto, allocVars
  <2>2. \A i \in Ids : /\ alloc'[i].state = alloc[i].state
                       /\ alloc'[i].donor_info = alloc[i].donor_info
                       /\ alloc'[i].consumer_vm = alloc[i].consumer_vm
    <3>1. CASE EvtAdd
      <4>1. SUFFICES ASSUME NEW i \in Ids
                     PROVE  /\ alloc'[i].state = alloc[i].state
                            /\ alloc'[i].donor_info = alloc[i].donor_info
                            /\ alloc'[i].consumer_vm = alloc[i].consumer_vm
        OBVIOUS
      <4>2. alloc'[i] = alloc[i] \/ alloc'[i] = [alloc[i] EXCEPT !.dcd_set = TRUE]
        BY <3>1 DEF EvtAdd
      <4>3. alloc[i] \in Allocation
        BY <1>1
      <4>4. QED
        BY <4>2, <4>3 DEF Allocation
    <3>2. CASE ~EvtAdd
      BY <1>3, <3>2 DEF EventStep, EvtTake, EvtGap, EvtRelease, allocVars
    <3>3. QED
      BY <3>1, <3>2
  <2>3. QED
    BY <2>1, <2>2, Frame DEF Lifecycle, ReservingIsUnbacked
<1>4. ASSUME NEW c \in Consumers, NEW n \in 1..MaxRequestSize, RequestArrives(c, n)
      PROVE  Lifecycle'
  <2>1. UNCHANGED <<nextId, alloc, region, duty>>
    BY <1>4 DEF RequestArrives, allocVars
  <2>2. /\ \A b \in Consumers \ {c} : pc'[b] = pc[b] /\ req'[b] = req[b]
        /\ pc'[c] = "reserve" /\ req'[c] = [NoRequest EXCEPT !.left = n]
    BY <1>1, <1>4 DEF RequestArrives, Goto
  <2>3. req'[c].unbacked = {} /\ req'[c].chunk = {} /\ req'[c].rsvd = {}
    BY <2>2 DEF NoRequest
  <2>4. QED
    BY <2>1, <2>2, <2>3, Frame DEF Lifecycle, ReservingIsUnbacked, Working
<1>5. ASSUME UNCHANGED <<allocVars, threadVars>> PROVE Lifecycle'
  <2>1. UNCHANGED <<nextId, alloc, region, req, duty, pc>>
    BY <1>5 DEF allocVars, threadVars
  <2>2. QED
    BY <2>1, Frame DEF Lifecycle, ReservingIsUnbacked
<1>6. CASE Environment
  BY <1>4, <1>5, <1>6 DEF Environment, GuestAdds, GuestReleases, DonorRevokes, VmExits
<1>7. QED
  BY <1>2, <1>3, <1>6

-----------------------------------------------------------------------------
(* Every step of the system keeps the invariant. *)
LEMMA NextLifecycle ==
  ASSUME Lifecycle, [Next]_vars
  PROVE  Lifecycle'
<1>1. WellFormed'
  BY NextWellFormed DEF Lifecycle
<1>2. ASSUME NEW c \in Consumers, RequestStep(c) PROVE Lifecycle'
  BY <1>1, <1>2, RequestFrame, ReserveContigKeeps, InnerTakeKeeps, ConfirmKeeps,
     CommitOneKeeps DEF RequestStep
<1>3. CASE UNCHANGED vars
  <2>1. UNCHANGED <<nextId, alloc, region, req, duty, pc>>
    BY <1>3 DEF vars, allocVars, threadVars
  <2>2. QED
    BY <1>1, <2>1, Frame DEF Lifecycle, ReservingIsUnbacked
<1>4. QED
  BY <1>1, <1>2, <1>3, ReturnKeeps, RevokeKeeps, OthersKeep DEF Next

(***************************************************************************)
(* The inductive invariant: what a request thread has still to commit is   *)
(* its own and has no donor, what a thread has to return was abandoned and *)
(* has that donor, and what is in use is in the map of its region.         *)
(***************************************************************************)
THEOREM LifecycleAlways == Spec => []Lifecycle
<1>1. Init => Lifecycle
  BY InitLifecycle
<1>2. Lifecycle /\ [Next]_vars => Lifecycle'
  BY NextLifecycle
<1>3. QED
  BY <1>1, <1>2, PTL DEF Spec

(***************************************************************************)
(* However many revokes, requests and removals of VMs try to return an     *)
(* allocation, one thread takes it out of abandon_or_take_donor and tells  *)
(* its donor.                                                              *)
(***************************************************************************)
THEOREM SingleReturnerAlways == Spec => []SingleReturner
<1>1. Lifecycle => SingleReturner
  BY DEF Lifecycle
<1>2. QED
  BY <1>1, LifecycleAlways, PTL

(***************************************************************************)
(* An allocation that is committed, or claimed by a revoke, is always in   *)
(* the map of the region recorded as its donor.                            *)
(***************************************************************************)
THEOREM CommittedIsTrackedAlways == Spec => []CommittedIsTracked
<1>1. Lifecycle => CommittedIsTracked
  BY DEF Lifecycle
<1>2. QED
  BY <1>1, LifecycleAlways, PTL

(***************************************************************************)
(* commit_allocation neither panics nor meets a donor that is already set, *)
(* whatever other threads did to the allocation since it was reserved.     *)
(***************************************************************************)
THEOREM CommitNeverPanicsAlways == Spec => []CommitNeverPanics
<1>1. Lifecycle => CommitNeverPanics
  BY DEF Lifecycle, PendingIsUncommitted, CommitNeverPanics
<1>2. QED
  BY <1>1, LifecycleAlways, PTL

-----------------------------------------------------------------------------
(***************************************************************************)
(* The slots of a consumer.  What a listed consumer has at a slot is in    *)
(* use, or some thread will take it away: SlotsKept is inductive, and when *)
(* no thread works every slot is committed.                                *)
(***************************************************************************)

(* Initially every slot is free. *)
LEMMA InitSlots ==
  ASSUME Init PROVE SlotsKept
<1>1. \A c \in Consumers, s \in Slots : areas[c][s] = 0
  BY DEF Init
<1>2. \A t \in Threads, c \in Consumers : rel[t][c].stage = "idle" /\ rel[t][c].offsets = {}
  BY DEF Init, NoRelease
<1>3. \A c \in Consumers : req[c].unbacked = {}
  BY DEF Init, NoRequest
<1>4. exited = {} /\ pc[Detector] = "idle"
  BY OrchestratorAssumption DEF Init, Threads
<1>5. QED
  BY <1>1, <1>2, <1>3, <1>4 DEF SlotsKept, AreasInPlace, ReleaseIsTimely, UnbackedIsTimely,
                                ExitedIsUnlisted, SlotsAreAnswered

(* A VM is taken out of the list before it is marked as exited. *)
LEMMA UnlistedStep ==
  ASSUME WellFormed, ExitedIsUnlisted, [Next]_vars
  PROVE  ExitedIsUnlisted' /\ vms' \subseteq vms
<1>1. pc \in [Threads -> Labels] /\ Detector \in Threads /\ Detector \notin Consumers
      /\ Detector \notin Revokers
      /\ cont \in [Threads -> {"idle", "unbacked", "respond", "done", "consumer"}]
  BY OrchestratorAssumption DEF WellFormed, TypeOK, Threads, VMs
<1>2. ASSUME NEW c \in Consumers, RequestStep(c)
      PROVE  UNCHANGED <<vms, exited, leaving>> /\ pc'[Detector] = pc[Detector]
  BY <1>1, <1>2 DEF RequestStep, ReserveContig, InnerSkip, InnerTake, InnerNone, Donate, Confirm,
       GiveBack, CommitOne, CommitDone, Unbacked, UnbackedDone, Retain, RetainNone, AddCapacity,
       WaitAdd, Partition, PartitionDone, Respond, Goto, CallReturn, allocVars
<1>3. ASSUME NEW t \in Threads, ReturnStep(t)
      PROVE  /\ UNCHANGED <<vms, exited, leaving>>
             /\ pc'[Detector] = "exit" => pc[Detector] = "exit"
  <2>1. UNCHANGED <<vms, exited, leaving>>
    BY <1>3 DEF ReturnStep, OrganizeOne, OrganizeDone, ConsumersDone, DonorsDone, RelClaim, RelQmp,
           RelWait, RelRemove, DonQmp, DonBook, allocVars
  <2>2. pc' = pc \/ \E l \in {"consumers", "donors", cont[t]} : pc' = [pc EXCEPT ![t] = l]
    BY <1>3 DEF ReturnStep, OrganizeOne, OrganizeDone, ConsumersDone, DonorsDone, RelClaim, RelQmp,
           RelWait, RelRemove, DonQmp, DonBook, Goto
  <2>3. QED
    BY <1>1, <2>1, <2>2
<1>4. ASSUME NEW t \in Revokers, RevokeStep(t)
      PROVE  UNCHANGED <<vms, exited, leaving>> /\ pc'[Detector] = pc[Detector]
  BY <1>1, <1>4 DEF RevokeStep, RevokeLock, RevokeSelect, RevokeReturn, Goto, CallReturn, allocVars
<1>5. CASE DetectorStep
  <2>1. CASE \E v \in VMs : DetRemove(v)
    BY <1>1, <2>1 DEF DetRemove, Goto, ExitedIsUnlisted
  <2>2. CASE DetExited
    BY <1>1, <2>2 DEF DetExited, Goto, ExitedIsUnlisted
  <2>3. CASE DetConsumer \/ DetDonor \/ DetSelect \/ DetReturn
    BY <1>1, <2>3 DEF DetConsumer, DetDonor, DetSelect, DetReturn, Goto, CallReturn, allocVars,
                      ExitedIsUnlisted
  <2>4. QED
    BY <1>5, <2>1, <2>2, <2>3 DEF DetectorStep
<1>6. CASE EventStep
  <2>1. UNCHANGED <<vms, exited, leaving>> /\ pc'[Detector] = pc[Detector]
    BY <1>1, <1>6 DEF EventStep, EvtTake, EvtAdd, EvtGap, EvtRelease, Goto, allocVars
  <2>2. QED
    BY <2>1 DEF ExitedIsUnlisted
<1>7. CASE Environment
  <2>1. UNCHANGED <<vms, exited, leaving>> /\ pc'[Detector] = pc[Detector]
    BY <1>1, <1>7 DEF Environment, RequestArrives, GuestAdds, GuestReleases, DonorRevokes, VmExits,
                      Goto, allocVars, threadVars
  <2>2. QED
    BY <2>1 DEF ExitedIsUnlisted
<1>8. CASE UNCHANGED vars
  BY <1>8 DEF ExitedIsUnlisted, vars, allocVars, threadVars
<1>9. QED
  BY <1>2, <1>3, <1>4, <1>5, <1>6, <1>7, <1>8 DEF Next, ExitedIsUnlisted

(* A request gives up its unbacked allocations only by releasing them. *)
LEMMA SeekingStep ==
  ASSUME WellFormed, UnbackedIsTimely, [Next]_vars
  PROVE  UnbackedIsTimely'
<1>1. /\ pc \in [Threads -> Labels] /\ Detector \notin Consumers /\ Consumers \subseteq Threads
      /\ Revokers \cap Consumers = {} /\ req \in [Consumers -> Request]
      /\ cont \in [Threads -> {"idle", "unbacked", "respond", "done", "consumer"}]
  BY OrchestratorAssumption DEF WellFormed, TypeOK, Threads, VMs
<1>2. ASSUME NEW c \in Consumers, RequestStep(c)
      PROVE  UnbackedIsTimely'
  <2> DEFINE Moved == req'[c].unbacked # {} =>
                        \/ Seeking(pc'[c], cont'[c])
                        \/ req[c].unbacked # {} /\ pc[c] = pc'[c]
  <2>1. /\ \A b \in Consumers \ {c} : pc'[b] = pc[b] /\ cont'[b] = cont[b]
        /\ \A b \in Consumers \ {c} : req'[b] = req[b]
        /\ pc[c] = pc'[c] => cont'[c] = cont[c]
    <3>1. ReserveContig(c) \/ InnerSkip(c) \/ InnerTake(c) \/ InnerNone(c) \/ Donate(c)
          \/ Confirm(c) \/ GiveBack(c) \/ CommitOne(c) => UNCHANGED cont
      BY DEF ReserveContig, InnerSkip, InnerTake, InnerNone, Donate, Confirm, GiveBack, CommitOne
    <3>2. Unbacked(c) \/ UnbackedDone(c) \/ Retain(c) \/ RetainNone(c)
          \/ WaitAdd(c) \/ Partition(c) => UNCHANGED cont
      BY DEF Unbacked, UnbackedDone, Retain, RetainNone, WaitAdd, Partition
    <3>3. CommitDone(c) => \/ UNCHANGED cont
                           \/ pc[c] # pc'[c] /\ cont' = [cont EXCEPT ![c] = "unbacked"]
      BY <1>1 DEF CommitDone, Goto
    <3>4. AddCapacity(c) \/ PartitionDone(c) \/ Respond(c) =>
            \/ UNCHANGED cont
            \/ pc[c] # pc'[c] /\ \E k : cont' = [cont EXCEPT ![c] = k]
      BY <1>1 DEF AddCapacity, PartitionDone, Respond, CallReturn
    <3>5. \E l : pc' = pc \/ pc' = [pc EXCEPT ![c] = l]
      BY <1>2 DEF RequestStep, ReserveContig, InnerSkip, InnerTake, InnerNone, Donate, Confirm,
           GiveBack, CommitOne, CommitDone, Unbacked, UnbackedDone, Retain, RetainNone, AddCapacity,
           WaitAdd, Partition, PartitionDone, Respond, Goto, CallReturn
    <3>6. \E q : req' = req \/ req' = [req EXCEPT ![c] = q]
      BY <1>1, <1>2 DEF RequestStep, ReserveContig, InnerSkip, InnerTake, InnerNone, Donate,
           Confirm, GiveBack, CommitOne, CommitDone, Unbacked, UnbackedDone, Retain, RetainNone,
           AddCapacity, WaitAdd, Partition, PartitionDone, Respond
    <3>7. QED
      BY <1>1, <1>2, <3>1, <3>2, <3>3, <3>4, <3>5, <3>6 DEF RequestStep
  <2>2. Moved
    <3>1. CASE InnerSkip(c) \/ Retain(c) \/ Partition(c)
      <4>1. PICK at, rest, live :
              \/ req' = req \/ req' = [req EXCEPT ![c].at = at]
              \/ req' = [req EXCEPT ![c].rsvd = rest]
              \/ req' = [req EXCEPT ![c].rsvd = rest, ![c].live = live]
        BY <3>1 DEF InnerSkip, Retain, Partition
      <4>2. UNCHANGED pc
        BY <3>1 DEF InnerSkip, Retain, Partition
      <4>3. req'[c].unbacked = req[c].unbacked
        BY <1>1, <4>1 DEF Request
      <4>4. QED
        BY <4>2, <4>3
    <3>2. CASE ReserveContig(c)
      <4>1. \/ pc'[c] \in {"reserve", "inner"}
            \/ req'[c] = NoRequest
        BY <1>1, <3>2 DEF ReserveContig, Goto
      <4>2. QED
        BY <4>1 DEF Seeking, NoRequest
    <3>3. CASE InnerTake(c) \/ InnerNone(c) \/ Donate(c) \/ Confirm(c) \/ GiveBack(c) \/ Unbacked(c)
      BY <1>1, <3>3 DEF InnerTake, InnerNone, Donate, Confirm, GiveBack, Unbacked, Goto, Seeking
    <3>4. CASE CommitOne(c)
      BY <1>1, <3>4 DEF CommitOne, Seeking
    <3>5. CASE CommitDone(c)
      BY <1>1, <3>5 DEF CommitDone, Goto, Seeking
    <3>6. CASE UnbackedDone(c) \/ RetainNone(c)
      BY <1>1, <3>6 DEF UnbackedDone, RetainNone, NoRequest, Request
    <3>7. CASE AddCapacity(c) \/ WaitAdd(c) \/ PartitionDone(c) \/ Respond(c)
      <4>1. pc[c] \in {"retain", "wait_add", "partition", "respond"}
        BY <3>7 DEF AddCapacity, WaitAdd, PartitionDone, Respond
      <4>2. req[c].unbacked = {}
        BY <4>1 DEF UnbackedIsTimely, Seeking
      <4>3. \/ req' = req \/ req' = [req EXCEPT ![c] = NoRequest]
            \/ req' = [req EXCEPT ![c].rsvd = {}]
        BY <3>7 DEF AddCapacity, WaitAdd, PartitionDone, Respond
      <4>4. QED
        BY <1>1, <4>2, <4>3 DEF NoRequest, Request
    <3>8. QED
      BY <1>2, <3>1, <3>2, <3>3, <3>4, <3>5, <3>6, <3>7 DEF RequestStep
  <2>3. QED
    BY <2>1, <2>2 DEF UnbackedIsTimely
<1>3. ASSUME NEW t \in Threads, ReturnStep(t)
      PROVE  UnbackedIsTimely'
  <2>1. UNCHANGED req
    BY <1>3 DEF ReturnStep, OrganizeOne, OrganizeDone, ConsumersDone, DonorsDone, RelClaim, RelQmp,
           RelWait, RelRemove, DonQmp, DonBook
  <2>2. \/ pc' = pc /\ cont' = cont
        \/ /\ pc[t] \in {"organize", "consumers"} /\ cont' = cont
           /\ \E l \in {"consumers", "donors"} : pc' = [pc EXCEPT ![t] = l]
        \/ /\ pc[t] = "donors"
           /\ pc' = [pc EXCEPT ![t] = cont[t]] /\ cont' = [cont EXCEPT ![t] = "idle"]
    BY <1>3 DEF ReturnStep, OrganizeOne, OrganizeDone, ConsumersDone, DonorsDone, RelClaim, RelQmp,
           RelWait, RelRemove, DonQmp, DonBook, Goto
  <2>3. QED
    BY <1>1, <2>1, <2>2 DEF UnbackedIsTimely, Seeking
<1>4. ASSUME \A c \in Consumers : pc'[c] = pc[c] /\ cont'[c] = cont[c] /\ req'[c] = req[c]
      PROVE  UnbackedIsTimely'
  BY <1>4 DEF UnbackedIsTimely
<1>5. ASSUME NEW t \in Revokers, RevokeStep(t)
      PROVE  UnbackedIsTimely'
  BY <1>1, <1>4, <1>5 DEF RevokeStep, RevokeLock, RevokeSelect, RevokeReturn, Goto, CallReturn
<1>6. CASE DetectorStep
  BY <1>1, <1>4, <1>6 DEF DetectorStep, DetRemove, DetExited, DetConsumer, DetDonor, DetSelect,
                          DetReturn, Goto, CallReturn
<1>7. CASE EventStep
  BY <1>1, <1>4, <1>7 DEF EventStep, EvtTake, EvtAdd, EvtGap, EvtRelease, Goto
<1>8. CASE Environment
  <2>1. ASSUME NEW c \in Consumers, NEW n \in 1..MaxRequestSize, RequestArrives(c, n)
        PROVE  UnbackedIsTimely'
    <3>1. pc'[c] = "reserve" /\ UNCHANGED cont
      BY <1>1, <2>1 DEF RequestArrives, Goto
    <3>2. \A b \in Consumers \ {c} : pc'[b] = pc[b] /\ req'[b] = req[b]
      BY <1>1, <2>1 DEF RequestArrives, Goto
    <3>3. QED
      BY <3>1, <3>2 DEF UnbackedIsTimely, Seeking
  <2>2. ASSUME UNCHANGED threadVars PROVE UnbackedIsTimely'
    BY <1>4, <2>2 DEF threadVars
  <2>3. QED
    BY <1>8, <2>1, <2>2 DEF Environment, GuestAdds, GuestReleases, DonorRevokes, VmExits
<1>9. CASE UNCHANGED vars
  BY <1>4, <1>9 DEF vars, threadVars
<1>10. QED
  BY <1>2, <1>3, <1>5, <1>6, <1>7, <1>8, <1>9 DEF Next

-----------------------------------------------------------------------------
(* The step of thread t drops nothing that t has to release or organize. *)
Idle(t) == \A c \in Consumers : rel[t][c].stage = "idle" /\ rel[t][c].offsets = {}

Onward(t) ==
  /\ pc'[t] = "unbacking" => pc[t] = "unbacking"
  /\ pc[t] \in {"select", "organize"} =>
       pc'[t] \in {"select", "organize"} /\ todo[t] \subseteq todo'[t]
  /\ pc[t] \in {"organize", "consumers", "unbacking"} => pc'[t] = pc[t] \/ Idle(t)

SameFate(i) ==
  /\ alloc'[i].consumer_vm = alloc[i].consumer_vm
  /\ alloc'[i].consumer_offset = alloc[i].consumer_offset
  /\ alloc'[i].state = alloc[i].state
  /\ alloc'[i].release_requested = alloc[i].release_requested

(* A step that changes no allocation's fate and no release keeps the slots. *)
LEMMA SlotsFrame ==
  ASSUME TypeOK, SlotsKept, UnbackedIsTimely', ExitedIsUnlisted', vms' \subseteq vms,
         \A c \in Consumers, s \in Slots : areas'[c][s] = 0 \/ areas'[c][s] = areas[c][s],
         \A i \in Ids : SameFate(i),
         UNCHANGED rel,
         \A c \in Consumers : req[c].unbacked \subseteq req'[c].unbacked,
         \A t \in Threads : Onward(t)
  PROVE  SlotsKept'
<1>1. \A c \in Consumers, s \in Slots : areas[c][s] # 0 => areas[c][s] \in Ids
  BY DEF TypeOK
<1>2. AreasInPlace'
  BY <1>1 DEF SlotsKept, AreasInPlace, SameFate
<1>3. ReleaseIsTimely'
  BY DEF SlotsKept, ReleaseIsTimely, Onward, Idle
<1>4. SlotsAreAnswered'
  <2>1. SUFFICES ASSUME NEW c \in Consumers, c \in vms', NEW s \in Slots, areas'[c][s] # 0
                 PROVE  Answered(c, s, areas[c][s])'
    BY DEF SlotsAreAnswered
  <2>2. PICK i : i = areas[c][s]
    OBVIOUS
  <2>3. areas'[c][s] = i /\ i \in Ids /\ Answered(c, s, i)
    BY <1>1, <2>1, <2>2 DEF SlotsKept, SlotsAreAnswered
  <2>4. c \in Threads
    BY DEF Threads
  <2>5. /\ \A t \in Threads : Releasing(t, c, s) => Releasing(t, c, s)'
        /\ \A t \in Threads : ToRelease(t, c, s) => ToRelease(t, c, s)'
        /\ \A t \in Threads : ToOrganize(t, i) => ToOrganize(t, i)'
    BY DEF Releasing, ToRelease, ToOrganize, Onward
  <2>6. Answered(c, s, i)'
    BY <2>3, <2>4, <2>5 DEF Answered, Onward, SameFate
  <2>7. QED
    BY <2>2, <2>3, <2>6
<1>5. QED
  BY <1>2, <1>3, <1>4 DEF SlotsKept

(* The steps of a request that only look at its allocations, or hand them  *)
(* over to a return.                                                       *)
LEMMA RequestSlots ==
  ASSUME WellFormed, SlotsKept, UnbackedIsTimely', ExitedIsUnlisted', vms' \subseteq vms,
         NEW c \in Consumers,
         \/ InnerSkip(c) \/ InnerTake(c) \/ InnerNone(c) \/ Donate(c) \/ Confirm(c)
         \/ GiveBack(c) \/ CommitDone(c) \/ Retain(c) \/ RetainNone(c) \/ AddCapacity(c)
         \/ WaitAdd(c) \/ Partition(c) \/ PartitionDone(c) \/ Respond(c)
  PROVE  SlotsKept'
<1>1. /\ pc \in [Threads -> Labels] /\ Consumers \subseteq Threads
      /\ req \in [Consumers -> Request] /\ todo \in [Threads -> SUBSET Ids] /\ TypeOK
  BY DEF WellFormed, TypeOK, Threads
<1>2. UNCHANGED <<alloc, areas, rel>>
  BY DEF InnerSkip, InnerTake, InnerNone, Donate, Confirm, GiveBack, CommitDone, Retain,
         RetainNone, AddCapacity, WaitAdd, Partition, PartitionDone, Respond, allocVars
<1>3. \A t \in Threads : Onward(t)
  <2>1. pc[c] \in {"inner", "donate", "confirm", "give_back", "commit", "retain", "wait_add",
                   "partition", "respond"}
    BY DEF InnerSkip, InnerTake, InnerNone, Donate, Confirm, GiveBack, CommitDone, Retain,
           RetainNone, AddCapacity, WaitAdd, Partition, PartitionDone, Respond
  <2>2. PICK l \in Labels \ {"unbacking"} : pc' = pc \/ pc' = [pc EXCEPT ![c] = l]
    BY DEF InnerSkip, InnerTake, InnerNone, Donate, Confirm, GiveBack, CommitDone, Retain,
           RetainNone, AddCapacity, WaitAdd, Partition, PartitionDone, Respond, Goto, CallReturn,
           Labels
  <2>3. PICK ids : todo' = todo \/ todo' = [todo EXCEPT ![c] = ids]
    BY DEF InnerSkip, InnerTake, InnerNone, Donate, Confirm, GiveBack, CommitDone, Retain,
           RetainNone, AddCapacity, WaitAdd, Partition, PartitionDone, Respond, CallReturn
  <2>4. QED
    BY <1>1, <2>1, <2>2, <2>3 DEF Onward
<1>4. \A b \in Consumers : req[b].unbacked \subseteq req'[b].unbacked
  <2>1. CASE RetainNone(c) \/ AddCapacity(c) \/ Respond(c)
    <3>1. req[c].unbacked = {}
      BY <2>1 DEF SlotsKept, UnbackedIsTimely, Seeking, RetainNone, AddCapacity, Respond
    <3>2. \A b \in Consumers \ {c} : req'[b] = req[b]
      BY <1>1, <2>1 DEF RetainNone, AddCapacity, Respond
    <3>3. QED
      BY <3>1, <3>2
  <2>2. CASE Partition(c) \/ Retain(c) \/ PartitionDone(c)
    <3>1. PICK rest, live :
            \/ req' = req \/ req' = [req EXCEPT ![c].rsvd = rest]
            \/ req' = [req EXCEPT ![c].rsvd = rest, ![c].live = live]
      BY <2>2 DEF Partition, Retain, PartitionDone
    <3>2. QED
      BY <1>1, <3>1 DEF Request
  <2>3. CASE Donate(c) \/ GiveBack(c) \/ InnerNone(c) \/ WaitAdd(c) \/ InnerSkip(c)
    <3>1. PICK g : \/ req' = req \/ req' = [req EXCEPT ![c].granted = g]
                   \/ req' = [req EXCEPT ![c].give_back = 0] \/ req' = [req EXCEPT ![c].at = g]
      BY <2>3 DEF Donate, GiveBack, InnerNone, WaitAdd, InnerSkip
    <3>2. QED
      BY <1>1, <3>1 DEF Request
  <2>4. CASE InnerTake(c) \/ Confirm(c) \/ CommitDone(c)
    <3>1. PICK r, chunk, back, d :
            \/ req' = [req EXCEPT ![c].region = r, ![c].chunk = chunk]
            \/ req' = [req EXCEPT ![c].chunk = chunk, ![c].granted = 0, ![c].give_back = back]
            \/ req' = [req EXCEPT ![c].region = NoRegion, ![c].last_path = d, ![c].at = d]
      BY <2>4 DEF InnerTake, Confirm, CommitDone
    <3>2. req'[c].unbacked = req[c].unbacked
      BY <1>1, <3>1 DEF Request
    <3>3. \A b \in Consumers \ {c} : req'[b] = req[b]
      BY <1>1, <3>1
    <3>4. QED
      BY <3>2, <3>3
  <2>5. QED
    BY <2>1, <2>2, <2>3, <2>4
<1>5. QED
  BY <1>1, <1>2, <1>3, <1>4, SlotsFrame DEF SameFate

(* The steps of a return that come after its releases. *)
LEMMA ReturnSlots ==
  ASSUME WellFormed, SlotsKept, UnbackedIsTimely', ExitedIsUnlisted', vms' \subseteq vms,
         NEW t \in Threads,
         ConsumersDone(t) \/ DonorsDone(t) \/ \E r \in Regions : DonQmp(t, r) \/ DonBook(t, r)
  PROVE  SlotsKept'
<1>1. /\ pc \in [Threads -> Labels] /\ TypeOK
      /\ cont \in [Threads -> {"idle", "unbacked", "respond", "done", "consumer"}]
  BY DEF WellFormed, TypeOK
<1>2. UNCHANGED <<alloc, areas, rel, req, todo>>
  BY DEF ConsumersDone, DonorsDone, DonQmp, DonBook, allocVars
<1>3. \A u \in Threads : Onward(u)
  <2>1. \/ pc' = pc
        \/ pc[t] = "consumers" /\ Idle(t) /\ pc' = [pc EXCEPT ![t] = "donors"]
        \/ pc[t] = "donors" /\ pc' = [pc EXCEPT ![t] = cont[t]]
    BY DEF ConsumersDone, DonorsDone, DonQmp, DonBook, Goto, Idle, SlotsKept, ReleaseIsTimely
  <2>2. QED
    BY <1>1, <1>2, <2>1 DEF Onward
<1>4. QED
  BY <1>1, <1>2, <1>3, SlotsFrame DEF SameFate

(* The other threads, but for the claims of a revoke, and the environment. *)
LEMMA OtherSlots ==
  ASSUME WellFormed, SlotsKept, UnbackedIsTimely', ExitedIsUnlisted', vms' \subseteq vms,
         \/ \E t \in Revokers : RevokeLock(t) \/ RevokeReturn(t)
         \/ DetectorStep \/ EventStep \/ Environment \/ UNCHANGED vars
  PROVE  SlotsKept'
<1>1. /\ pc \in [Threads -> Labels] /\ TypeOK /\ todo \in [Threads -> SUBSET Ids]
      /\ Consumers \subseteq Threads /\ Detector \in Threads /\ Revokers \subseteq Threads
      /\ Revokers \cap Consumers = {} /\ Detector \notin Consumers
      /\ req \in [Consumers -> Request]
      /\ areas \in [Consumers -> [Slots -> Ids \cup {0}]]
  BY OrchestratorAssumption DEF WellFormed, TypeOK, Threads, VMs
<1>2. UNCHANGED rel
  BY DEF RevokeLock, RevokeReturn, DetectorStep, DetRemove, DetExited, DetConsumer, DetDonor,
         DetSelect, DetReturn, EventStep, EvtTake, EvtAdd, EvtGap, EvtRelease, Environment,
         RequestArrives, GuestAdds, GuestReleases, DonorRevokes, VmExits, threadVars, vars
<1>3. \A i \in Ids : SameFate(i)
  <2>1. CASE EvtAdd
    <3>1. SUFFICES ASSUME NEW i \in Ids PROVE SameFate(i)
      OBVIOUS
    <3>2. alloc'[i] = alloc[i] \/ alloc'[i] = [alloc[i] EXCEPT !.dcd_set = TRUE]
      BY <2>1 DEF EvtAdd
    <3>3. alloc[i] \in Allocation
      BY <1>1 DEF TypeOK
    <3>4. QED
      BY <3>2, <3>3 DEF Allocation, SameFate
  <2>2. CASE ~EvtAdd
    BY <2>2 DEF RevokeLock, RevokeReturn, DetectorStep, DetRemove, DetExited, DetConsumer,
         DetDonor, DetSelect, DetReturn, EventStep, EvtTake, EvtGap, EvtRelease, Environment,
         RequestArrives, GuestAdds, GuestReleases, DonorRevokes, VmExits, allocVars, vars, SameFate
  <2>3. QED
    BY <2>1, <2>2
<1>4. \A c \in Consumers, s \in Slots : areas'[c][s] = 0 \/ areas'[c][s] = areas[c][s]
  <2>1. CASE EvtRelease
    BY <1>1, <2>1 DEF EvtRelease, RemoveAreas
  <2>2. CASE ~EvtRelease
    <3>1. UNCHANGED areas
      BY <2>2 DEF RevokeLock, RevokeReturn, DetectorStep, DetRemove, DetExited, DetConsumer,
         DetDonor, DetSelect, DetReturn, EventStep, EvtTake, EvtGap, EvtAdd, Environment,
         RequestArrives, GuestAdds, GuestReleases, DonorRevokes, VmExits, allocVars, vars
    <3>2. QED
      BY <3>1
  <2>3. QED
    BY <2>1, <2>2
<1>5. \A c \in Consumers : req[c].unbacked \subseteq req'[c].unbacked
  <2>1. ASSUME NEW c \in Consumers, NEW n \in 1..MaxRequestSize, RequestArrives(c, n)
        PROVE  \A b \in Consumers : req[b].unbacked \subseteq req'[b].unbacked
    <3>1. req[c].unbacked = {}
      BY <2>1 DEF RequestArrives, SlotsKept, UnbackedIsTimely, Seeking
    <3>2. \A b \in Consumers \ {c} : req'[b] = req[b]
      BY <1>1, <2>1 DEF RequestArrives
    <3>3. QED
      BY <3>1, <3>2
  <2>2. \/ UNCHANGED req
        \/ \E c \in Consumers : \E n \in 1..MaxRequestSize : RequestArrives(c, n)
    BY DEF RevokeLock, RevokeReturn, DetectorStep, DetRemove, DetExited, DetConsumer,
         DetDonor, DetSelect, DetReturn, EventStep, EvtTake, EvtAdd, EvtGap, EvtRelease,
         Environment, GuestAdds, GuestReleases, DonorRevokes, VmExits, threadVars, vars
  <2>3. QED
    BY <2>1, <2>2
<1>6. \A t \in Threads : Onward(t)
  <2>1. CASE UNCHANGED <<pc, todo>>
    BY <2>1 DEF Onward
  <2>2. CASE \E t \in Revokers : RevokeLock(t) \/ RevokeReturn(t)
    <3>1. PICK t \in Revokers : RevokeLock(t) \/ RevokeReturn(t)
      BY <2>2
    <3>2. \/ /\ pc[t] = "revoke" /\ UNCHANGED todo /\ pc' = [pc EXCEPT ![t] = "select"]
          \/ /\ pc[t] = "select" /\ todo' = [todo EXCEPT ![t] = todo[t]]
             /\ pc' = [pc EXCEPT ![t] = "organize"]
      BY <3>1 DEF RevokeLock, RevokeReturn, Goto, CallReturn
    <3>3. QED
      BY <1>1, <3>2 DEF Onward
  <2>3. CASE DetectorStep
    <3>1. \/ UNCHANGED <<pc>> /\ pc[Detector] = "select"
             /\ \E i : todo' = todo \/ todo' = [todo EXCEPT ![Detector] = @ \cup {i}]
          \/ /\ pc[Detector] \in {"idle", "exit", "consumer", "donor"}
             /\ \E l \in Labels \ {"unbacking"} : pc' = [pc EXCEPT ![Detector] = l]
             /\ \E ids : todo' = todo \/ todo' = [todo EXCEPT ![Detector] = ids]
          \/ /\ pc[Detector] = "select" /\ todo' = [todo EXCEPT ![Detector] = todo[Detector]]
             /\ pc' = [pc EXCEPT ![Detector] = "organize"]
      BY <2>3 DEF DetectorStep, DetRemove, DetExited, DetConsumer, DetDonor, DetSelect, DetReturn,
                  Goto, CallReturn, Labels
    <3>2. QED
      BY <1>1, <3>1 DEF Onward
  <2>4. CASE EventStep
    <3>1. /\ UNCHANGED todo
          /\ \/ pc' = pc
             \/ \E t \in Revokers : pc[t] = "unused" /\ pc' = [pc EXCEPT ![t] = "revoke"]
      BY <2>4 DEF EventStep, EvtTake, EvtAdd, EvtGap, EvtRelease, Goto
    <3>2. QED
      BY <1>1, <3>1 DEF Onward
  <2>5. CASE Environment
    <3>1. /\ UNCHANGED todo
          /\ \/ pc' = pc
             \/ \E c \in Consumers : pc[c] = "idle" /\ pc' = [pc EXCEPT ![c] = "reserve"]
      BY <2>5 DEF Environment, RequestArrives, GuestAdds, GuestReleases, DonorRevokes, VmExits,
                  threadVars, Goto
    <3>2. QED
      BY <1>1, <3>1 DEF Onward
  <2>6. CASE UNCHANGED vars
    BY <2>1, <2>6 DEF vars, threadVars
  <2>7. QED
    BY <2>2, <2>3, <2>4, <2>5, <2>6
<1>7. QED
  BY <1>1, <1>2, <1>3, <1>4, <1>5, <1>6, SlotsFrame

-----------------------------------------------------------------------------
(* A release goes on to the next stage, or ends with its slots free. *)
LEMMA ReleaseGoesOn ==
  ASSUME WellFormed, SlotsKept, UnbackedIsTimely', ExitedIsUnlisted', vms' \subseteq vms,
         NEW t \in Threads, NEW b \in Consumers,
         RelQmp(t, b) \/ RelWait(t, b) \/ RelRemove(t, b)
  PROVE  SlotsKept'
<1>1. /\ rel \in [Threads -> [Consumers -> Released]] /\ Consumers \subseteq Threads
      /\ areas \in [Consumers -> [Slots -> Ids \cup {0}]]
  BY DEF WellFormed, TypeOK, Threads
<1>2. UNCHANGED <<alloc, pc, req, todo>>
  BY DEF RelQmp, RelWait, RelRemove, allocVars
<1>3. PICK S : S = rel[t][b].offsets
  OBVIOUS
<1>4. /\ \A c \in Consumers, s \in Slots : areas'[c][s] = 0 \/ areas'[c][s] = areas[c][s]
      /\ rel[t][b].stage \in {"qmp", "wait", "remove"}
      /\ \/ \E l \in {"wait", "remove"} : rel' = [rel EXCEPT ![t][b].stage = l]
         \/ rel' = [rel EXCEPT ![t][b] = NoRelease] /\ \A s \in S \cap Slots : areas'[b][s] = 0
  <2>1. CASE RelQmp(t, b)
    BY <2>1 DEF RelQmp, allocVars
  <2>2. CASE RelWait(t, b)
    BY <1>3, <2>2 DEF RelWait, allocVars
  <2>3. CASE RelRemove(t, b)
    BY <1>1, <1>3, <2>3 DEF RelRemove, RemoveAreas
  <2>4. QED
    BY <2>1, <2>2, <2>3
<1>5. /\ \A u \in Threads, c \in Consumers : <<u, c>> # <<t, b>> => rel'[u][c] = rel[u][c]
      /\ \/ rel'[t][b].stage \in {"wait", "remove"} /\ rel'[t][b].offsets = S
         \/ /\ rel'[t][b].stage = "idle" /\ rel'[t][b].offsets = {}
            /\ \A s \in S \cap Slots : areas'[b][s] = 0
  <2>1. \A u \in Threads, c \in Consumers : <<u, c>> # <<t, b>> => rel'[u][c] = rel[u][c]
    BY <1>1, <1>4
  <2>2. CASE \E l \in {"wait", "remove"} : rel' = [rel EXCEPT ![t][b].stage = l]
    <3>1. PICK l \in {"wait", "remove"} : rel' = [rel EXCEPT ![t][b].stage = l]
      BY <2>2
    <3>2. rel[t][b] \in Released /\ rel'[t][b] = [rel[t][b] EXCEPT !.stage = l]
      BY <1>1, <3>1
    <3>3. QED
      BY <1>3, <2>1, <3>2 DEF Released
  <2>3. CASE ~\E l \in {"wait", "remove"} : rel' = [rel EXCEPT ![t][b].stage = l]
    <3>1. rel'[t][b] = NoRelease /\ \A s \in S \cap Slots : areas'[b][s] = 0
      BY <1>1, <1>4, <2>3
    <3>2. QED
      BY <2>1, <3>1 DEF NoRelease
  <2>4. QED
    BY <2>2, <2>3
<1>6. AreasInPlace'
  BY <1>2, <1>4 DEF SlotsKept, AreasInPlace
<1>7. ReleaseIsTimely'
  <2>1. SUFFICES ASSUME NEW u \in Threads, NEW c \in Consumers
                 PROVE  /\ rel'[u][c].stage # "idle" =>
                             pc[u] = "consumers" \/ (pc[u] = "unbacking" /\ c = u)
                        /\ rel'[u][c].stage = "idle" /\ rel'[u][c].offsets # {} =>
                             pc[u] = "organize"
    BY <1>2 DEF ReleaseIsTimely
  <2>2. CASE u = t /\ c = b
    BY <1>4, <1>5, <2>2 DEF SlotsKept, ReleaseIsTimely
  <2>3. CASE ~(u = t /\ c = b)
    BY <1>5, <2>3 DEF SlotsKept, ReleaseIsTimely
  <2>4. QED
    BY <2>2, <2>3
<1>8. SlotsAreAnswered'
  <2>1. SUFFICES ASSUME NEW c \in Consumers, c \in vms', NEW s \in Slots, areas'[c][s] # 0
                 PROVE  Answered(c, s, areas[c][s])'
    BY DEF SlotsAreAnswered
  <2>2. PICK i : i = areas[c][s]
    OBVIOUS
  <2>3. areas'[c][s] = i /\ Answered(c, s, i)
    BY <1>4, <2>1, <2>2 DEF SlotsKept, SlotsAreAnswered
  <2>4. \A u \in Threads : Releasing(u, c, s) => Releasing(u, c, s)'
    <3>1. SUFFICES ASSUME NEW u \in Threads, Releasing(u, c, s) PROVE Releasing(u, c, s)'
      OBVIOUS
    <3>2. CASE u = t /\ c = b
      BY <1>3, <1>5, <2>1, <3>1, <3>2 DEF Releasing
    <3>3. CASE ~(u = t /\ c = b)
      BY <1>5, <3>1, <3>3 DEF Releasing
    <3>4. QED
      BY <3>2, <3>3
  <2>5. \A u \in Threads : rel[u][c].stage \in {"idle", "claim"} => rel'[u][c] = rel[u][c]
    BY <1>4, <1>5
  <2>6. /\ \A u \in Threads : ToRelease(u, c, s) => ToRelease(u, c, s)'
        /\ \A u \in Threads : ToOrganize(u, i) => ToOrganize(u, i)'
    BY <1>2, <2>5 DEF ToRelease, ToOrganize
  <2>7. Answered(c, s, i)'
    BY <1>1, <1>2, <2>3, <2>4, <2>5, <2>6 DEF Answered
  <2>8. QED
    BY <2>2, <2>3, <2>7
<1>9. QED
  BY <1>6, <1>7, <1>8 DEF SlotsKept

(* A release claims what no other release has claimed: what it passes over *)
(* is being released by another thread.                                    *)
LEMMA RelClaimSlots ==
  ASSUME WellFormed, SlotsKept, UnbackedIsTimely', ExitedIsUnlisted', vms' \subseteq vms,
         NEW t \in Threads, NEW b \in Consumers, RelClaim(t, b)
  PROVE  SlotsKept'
<1> DEFINE S     == rel[t][b].offsets
           C     == Claimable(t, b)
           ids   == { areas[b][s] : s \in C }
           added == { s \in C : alloc[areas[b][s]].dcd_set }
<1>1. /\ rel \in [Threads -> [Consumers -> Released]] /\ Consumers \subseteq Threads
      /\ areas \in [Consumers -> [Slots -> Ids \cup {0}]] /\ alloc \in [Ids -> Allocation]
      /\ S \subseteq Slots /\ C \subseteq S
  BY DEF WellFormed, TypeOK, Threads, Released, Claimable
<1>2. /\ UNCHANGED <<pc, req, todo>> /\ rel[t][b].stage = "claim"
      /\ alloc' = [i \in Ids |-> IF i \in ids
                     THEN [alloc[i] EXCEPT !.release_requested = TRUE] ELSE alloc[i]]
      /\ areas' = [areas EXCEPT ![b] = [s \in Slots |->
                     IF s \in C \ added THEN 0 ELSE @[s]]]
      /\ rel' = [rel EXCEPT ![t][b] =
                   IF added = {} THEN NoRelease ELSE [stage |-> "qmp", offsets |-> added]]
  BY DEF RelClaim
<1>3. /\ \A s \in S : s \notin C => areas[b][s] = 0 \/ alloc[areas[b][s]].release_requested
      /\ \A s \in C : areas[b][s] # 0
  BY DEF Claimable
<1>4. /\ \A c \in Consumers, s \in Slots : areas'[c][s] = 0 \/ areas'[c][s] = areas[c][s]
      /\ \A s \in C \ added : areas'[b][s] = 0
  BY <1>1, <1>2
<1>5. /\ \A u \in Threads, c \in Consumers : <<u, c>> # <<t, b>> => rel'[u][c] = rel[u][c]
      /\ rel'[t][b] = IF added = {} THEN NoRelease ELSE [stage |-> "qmp", offsets |-> added]
  BY <1>1, <1>2
<1>6. \A i \in Ids : /\ alloc'[i].consumer_vm = alloc[i].consumer_vm
                     /\ alloc'[i].consumer_offset = alloc[i].consumer_offset
                     /\ alloc'[i].state = alloc[i].state
                     /\ i \notin ids => alloc'[i] = alloc[i]
                     /\ i \in ids => alloc'[i].release_requested
  <2>1. SUFFICES ASSUME NEW i \in Ids
                 PROVE  /\ alloc'[i].consumer_vm = alloc[i].consumer_vm
                        /\ alloc'[i].consumer_offset = alloc[i].consumer_offset
                        /\ alloc'[i].state = alloc[i].state
                        /\ i \notin ids => alloc'[i] = alloc[i]
                        /\ i \in ids => alloc'[i].release_requested
    OBVIOUS
  <2>2. alloc[i] \in Allocation
    BY <1>1
  <2>3. alloc'[i] = IF i \in ids THEN [alloc[i] EXCEPT !.release_requested = TRUE] ELSE alloc[i]
    BY <1>2
  <2> HIDE DEF ids
  <2>4. QED
    BY <2>2, <2>3 DEF Allocation
<1>7. AreasInPlace'
  BY <1>1, <1>4, <1>6 DEF SlotsKept, AreasInPlace
<1>8. ReleaseIsTimely'
  <2>1. SUFFICES ASSUME NEW u \in Threads, NEW c \in Consumers
                 PROVE  /\ rel'[u][c].stage # "idle" =>
                             pc[u] = "consumers" \/ (pc[u] = "unbacking" /\ c = u)
                        /\ rel'[u][c].stage = "idle" /\ rel'[u][c].offsets # {} =>
                             pc[u] = "organize"
    BY <1>2 DEF ReleaseIsTimely
  <2>2. CASE u = t /\ c = b
    BY <1>2, <1>5, <2>2 DEF SlotsKept, ReleaseIsTimely, NoRelease
  <2>3. CASE ~(u = t /\ c = b)
    BY <1>5, <2>3 DEF SlotsKept, ReleaseIsTimely
  <2>4. QED
    BY <2>2, <2>3
<1> HIDE DEF S, C, ids, added
<1>9. SlotsAreAnswered'
  <2>1. SUFFICES ASSUME NEW c \in Consumers, c \in vms', NEW s \in Slots, areas'[c][s] # 0
                 PROVE  Answered(c, s, areas[c][s])'
    BY DEF SlotsAreAnswered
  <2>2. PICK i : i = areas[c][s]
    OBVIOUS
  <2>3. areas'[c][s] = i /\ i \in Ids /\ Answered(c, s, i)
    BY <1>1, <1>4, <2>1, <2>2 DEF SlotsKept, SlotsAreAnswered
  <2>4. CASE c = b /\ s \in C
    <3>1. s \in added /\ i \in ids
      BY <1>4, <2>1, <2>2, <2>4 DEF ids
    <3>2. rel'[t][b].stage = "qmp" /\ s \in rel'[t][b].offsets
      BY <1>5, <3>1
    <3>3. Releasing(t, c, s)' /\ alloc'[i].release_requested
      BY <1>6, <2>3, <2>4, <3>1, <3>2 DEF Releasing
    <3>4. QED
      BY <2>2, <2>3, <3>3 DEF Answered
  <2>5. CASE ~(c = b /\ s \in C)
    <3>1. i \notin ids
      <4>1. SUFFICES ASSUME NEW x \in C, areas[b][x] = i PROVE FALSE
        BY DEF ids
      <4>2. x \in Slots /\ areas[b][x] # 0
        BY <1>1, <1>3
      <4>3. c = b /\ s = x
        BY <2>1, <2>2, <2>3, <4>1, <4>2 DEF SlotsKept, AreasInPlace
      <4>4. QED
        BY <2>5, <4>3
    <3>2. alloc'[i] = alloc[i]
      BY <1>6, <2>3, <3>1
    <3>3. \A u \in Threads : Releasing(u, c, s) => Releasing(u, c, s)'
      BY <1>2, <1>5 DEF Releasing
    <3>4. \A u \in Threads : ToOrganize(u, i) => ToOrganize(u, i)'
      BY <1>2 DEF ToOrganize
    <3>5. ~alloc[i].release_requested =>
            \A u \in Threads : s \in rel[u][c].offsets => rel'[u][c] = rel[u][c]
      <4>1. ASSUME ~alloc[i].release_requested, c = b PROVE s \notin S
        BY <1>3, <2>1, <2>2, <2>3, <2>5, <4>1
      <4>2. QED
        BY <1>5, <4>1 DEF S
    <3>6. ~alloc[i].release_requested =>
            \A u \in Threads : ToRelease(u, c, s) => ToRelease(u, c, s)'
      BY <3>5 DEF ToRelease
    <3>7. Answered(c, s, i)'
      BY <1>1, <1>2, <2>3, <3>2, <3>3, <3>4, <3>5, <3>6 DEF Answered
    <3>8. QED
      BY <2>2, <2>3, <3>7
  <2>6. QED
    BY <2>4, <2>5
<1>10. QED
  BY <1>7, <1>8, <1>9 DEF SlotsKept

-----------------------------------------------------------------------------
(* New allocations are at free slots and are unbacked. *)
LEMMA ReserveContigSlots ==
  ASSUME Lifecycle, WellFormed', SlotsKept, UnbackedIsTimely', ExitedIsUnlisted',
         vms' \subseteq vms, NEW b \in Consumers, ReserveContig(b)
  PROVE  SlotsKept'
<1> DEFINE rsvd(n) == req[b].rsvd \cup nextId..(nextId + n - 1)
<1>1. /\ req \in [Consumers -> Request] /\ pc \in [Threads -> Labels] /\ nextId \in Nat \ {0}
      /\ b \in Threads /\ Consumers \subseteq Threads /\ alloc \in [Ids -> Allocation]
      /\ areas \in [Consumers -> [Slots -> Ids \cup {0}]]
  BY DEF Lifecycle, WellFormed, TypeOK, Threads
<1>2. PICK lo, hi \in 0..NumSlots : ContigRun(b) = <<lo, hi>> /\ lo <= hi
  BY ReserveRun DEF Lifecycle, WellFormed
<1>3. PICK n : n = hi - lo
  OBVIOUS
<1>4. n \in Nat /\ lo \in Nat /\ hi \in Nat /\ hi = lo + n
  BY <1>2, <1>3, AllocationAssumption
<1>5. ContigRun(b)[1] = lo /\ ContigRun(b)[2] = hi
  BY <1>2
<1>6. /\ alloc' = [i \in 1..(nextId + n - 1) |->
                     IF i < nextId THEN alloc[i] ELSE NewAllocation(b, lo + (i - nextId))]
      /\ areas' = [areas EXCEPT ![b] = [s \in Slots |->
                     IF lo <= s /\ s < hi THEN nextId + (s - lo) ELSE @[s]]]
      /\ UNCHANGED <<rel, todo, cont>> /\ pc[b] = "reserve"
  BY <1>3, <1>5 DEF ReserveContig
<1>7. /\ \A c \in Consumers \ {b} : req'[c] = req[c]
      /\ \A t \in Threads \ {b} : pc'[t] = pc[t]
      /\ \/ req'[b] = NoRequest /\ pc'[b] = "idle" /\ rsvd(n) = {}
         \/ /\ req'[b].rsvd = rsvd(n) /\ req'[b].unbacked = rsvd(n)
            /\ pc'[b] \in {"reserve", "inner"}
  <2> DEFINE ended == n = 0 \/ n = req[b].left
             left  == IF ended THEN 0 ELSE req[b].left - n
  <2>1. req' = [req EXCEPT ![b] = IF ended /\ rsvd(n) = {} THEN NoRequest
                  ELSE [req[b] EXCEPT !.left = left, !.rsvd = rsvd(n), !.unbacked = rsvd(n)]]
    BY <1>3, <1>5 DEF ReserveContig
  <2>2. pc' = [pc EXCEPT ![b] = IF ~ended THEN "reserve"
                                ELSE IF rsvd(n) = {} THEN "idle" ELSE "inner"]
    BY <1>3, <1>5 DEF ReserveContig, Goto
  <2> HIDE DEF ended, left, rsvd
  <2>3. QED
    BY <1>1, <2>1, <2>2 DEF Request
<1>8. Ids = 1..(nextId - 1)
  BY DEF Ids
<1>9. \A i \in Ids : alloc'[i] = alloc[i]
  BY <1>1, <1>4, <1>6, <1>8
<1>10. \A c \in Consumers, s \in Slots :
         \/ areas'[c][s] = areas[c][s]
         \/ c = b /\ lo <= s /\ s < hi /\ areas'[c][s] = nextId + (s - lo)
  BY <1>1, <1>6
<1>11. \A s \in Slots : lo <= s /\ s < hi =>
         /\ nextId + (s - lo) \in nextId..(nextId + n - 1)
         /\ alloc'[nextId + (s - lo)] = NewAllocation(b, s)
  <2>1. SUFFICES ASSUME NEW s \in Slots, lo <= s, s < hi
                 PROVE  /\ nextId + (s - lo) \in nextId..(nextId + n - 1)
                        /\ alloc'[nextId + (s - lo)] = NewAllocation(b, s)
    OBVIOUS
  <2>2. s \in Nat
    BY AllocationAssumption DEF Slots
  <2>3. PICK j : j = nextId + (s - lo)
    OBVIOUS
  <2>4. /\ j \in nextId..(nextId + n - 1) /\ j \in 1..(nextId + n - 1)
        /\ ~(j < nextId) /\ lo + (j - nextId) = s
    BY <1>1, <1>4, <2>1, <2>2, <2>3
  <2>5. alloc'[j] = NewAllocation(b, s)
    BY <1>6, <2>4
  <2>6. QED
    BY <2>3, <2>4, <2>5
<1>12. AreasInPlace'
  <2>1. SUFFICES ASSUME NEW c \in Consumers, NEW s \in Slots, areas'[c][s] # 0
                 PROVE  /\ alloc'[areas'[c][s]].consumer_vm = c
                        /\ alloc'[areas'[c][s]].consumer_offset = s
    BY DEF AreasInPlace
  <2>2. CASE areas'[c][s] = areas[c][s]
    BY <1>1, <1>9, <2>1, <2>2 DEF SlotsKept, AreasInPlace
  <2>3. CASE areas'[c][s] # areas[c][s]
    <3>1. c = b /\ alloc'[areas'[c][s]] = NewAllocation(b, s)
      BY <1>10, <1>11, <2>3
    <3>2. QED
      BY <3>1 DEF NewAllocation
  <2>4. QED
    BY <2>2, <2>3
<1>13. ReleaseIsTimely'
  BY <1>6, <1>7 DEF SlotsKept, ReleaseIsTimely
<1>14. SlotsAreAnswered'
  <2>1. SUFFICES ASSUME NEW c \in Consumers, c \in vms', NEW s \in Slots, areas'[c][s] # 0
                 PROVE  Answered(c, s, areas[c][s])'
    BY DEF SlotsAreAnswered
  <2>2. PICK i : i = areas'[c][s]
    OBVIOUS
  <2>3. CASE i = areas[c][s]
    <3>1. i \in Ids /\ Answered(c, s, i)
      BY <1>1, <2>1, <2>2, <2>3 DEF SlotsKept, SlotsAreAnswered
    <3>2. req[c].unbacked \subseteq req'[c].unbacked
      <4>1. req[b].rsvd = req[b].unbacked
        BY <1>6 DEF Lifecycle, ReservingIsUnbacked
      <4>2. QED
        BY <1>7, <4>1
    <3>3. pc'[c] # "unbacking" \/ pc'[c] = pc[c]
      BY <1>1, <1>7
    <3>4. /\ \A u \in Threads : Releasing(u, c, s) => Releasing(u, c, s)'
          /\ \A u \in Threads : ToRelease(u, c, s) => ToRelease(u, c, s)'
          /\ \A u \in Threads : ToOrganize(u, i) => ToOrganize(u, i)'
      BY <1>6, <1>7 DEF Releasing, ToRelease, ToOrganize
    <3>5. Answered(c, s, i)'
      BY <1>6, <1>9, <3>1, <3>2, <3>3, <3>4 DEF Answered
    <3>6. QED
      BY <2>2, <3>5
  <2>4. CASE i # areas[c][s]
    <3>1. c = b /\ i \in nextId..(nextId + n - 1) /\ alloc'[i] = NewAllocation(b, s)
      BY <1>10, <1>11, <2>2, <2>4
    <3>2. i \in req'[c].unbacked /\ pc'[c] # "unbacking"
      BY <1>7, <3>1
    <3>3. ~alloc'[i].release_requested /\ alloc'[i].state = "PendingCommit"
      BY <3>1 DEF NewAllocation
    <3>4. Answered(c, s, i)'
      BY <3>2, <3>3 DEF Answered
    <3>5. QED
      BY <2>2, <3>4
  <2>5. QED
    BY <2>3, <2>4
<1>15. QED
  BY <1>12, <1>13, <1>14 DEF SlotsKept

(* A commit takes an allocation from the unbacked ones to those in use. *)
LEMMA CommitOneSlots ==
  ASSUME WellFormed, SlotsKept, UnbackedIsTimely', ExitedIsUnlisted', vms' \subseteq vms,
         NEW b \in Consumers, CommitOne(b)
  PROVE  SlotsKept'
<1>1. /\ req \in [Consumers -> Request] /\ alloc \in [Ids -> Allocation]
      /\ areas \in [Consumers -> [Slots -> Ids \cup {0}]]
  BY DEF WellFormed, TypeOK
<1>2. PICK j, r :
        /\ j \in req[b].chunk
        /\ alloc' = [alloc EXCEPT ![j] = commit_allocation(@, r)]
        /\ req' = [req EXCEPT ![b].chunk = @ \ {j}, ![b].unbacked = @ \ {j}]
        /\ MayCommit(alloc[j])
  BY DEF CommitOne
<1>3. UNCHANGED <<areas, rel, pc, cont, todo>>
  BY DEF CommitOne
<1>4. j \in Ids /\ alloc[j] \in Allocation
  BY <1>1, <1>2 DEF Request
<1>5. /\ \A i \in Ids \ {j} : alloc'[i] = alloc[i]
      /\ alloc'[j] = commit_allocation(alloc[j], r)
  BY <1>1, <1>2, <1>4
<1>6. /\ alloc'[j].consumer_vm = alloc[j].consumer_vm
      /\ alloc'[j].consumer_offset = alloc[j].consumer_offset
      /\ alloc'[j].release_requested = alloc[j].release_requested
      /\ alloc'[j].state = "Committed" \/ alloc'[j].state = "Abandoned"
      /\ alloc'[j].state = "Abandoned" => alloc[j].state = "Abandoned"
  <2>1. PICK st \in {"Committed", "Abandoned"} :
          /\ alloc'[j] = [alloc[j] EXCEPT !.donor_info = r, !.state = st]
          /\ st = "Abandoned" => alloc[j].state = "Abandoned"
    BY <1>2, <1>5 DEF commit_allocation, MayCommit
  <2>2. QED
    BY <1>4, <2>1 DEF Allocation
<1>7. \A c \in Consumers : req[c].unbacked \ {j} \subseteq req'[c].unbacked
  BY <1>1, <1>2 DEF Request
<1>8. AreasInPlace'
  BY <1>1, <1>3, <1>5, <1>6 DEF SlotsKept, AreasInPlace
<1>9. ReleaseIsTimely'
  BY <1>3 DEF SlotsKept, ReleaseIsTimely
<1>10. SlotsAreAnswered'
  <2>1. SUFFICES ASSUME NEW c \in Consumers, c \in vms', NEW s \in Slots, areas[c][s] # 0
                 PROVE  Answered(c, s, areas[c][s])'
    BY <1>3 DEF SlotsAreAnswered
  <2>2. PICK i : i = areas[c][s]
    OBVIOUS
  <2>3. i \in Ids /\ Answered(c, s, i)
    BY <1>1, <2>1, <2>2 DEF SlotsKept, SlotsAreAnswered
  <2>4. /\ \A u \in Threads : Releasing(u, c, s) => Releasing(u, c, s)'
        /\ \A u \in Threads : ToRelease(u, c, s) => ToRelease(u, c, s)'
        /\ \A u \in Threads : ToOrganize(u, i) => ToOrganize(u, i)'
    BY <1>3 DEF Releasing, ToRelease, ToOrganize
  <2>5. Answered(c, s, i)'
    <3>1. CASE i = j
      BY <1>3, <1>6, <2>3, <2>4, <3>1 DEF Answered
    <3>2. CASE i # j
      BY <1>3, <1>5, <1>7, <2>3, <2>4, <3>2 DEF Answered
    <3>3. QED
      BY <3>1, <3>2
  <2>6. QED
    BY <1>3, <2>2, <2>5
<1>11. QED
  BY <1>8, <1>9, <1>10 DEF SlotsKept

(* release_reserved_memory is called for all unbacked allocations. *)
LEMMA UnbackedSlots ==
  ASSUME WellFormed, SlotsKept, UnbackedIsTimely', ExitedIsUnlisted', vms' \subseteq vms,
         NEW b \in Consumers, Unbacked(b)
  PROVE  SlotsKept'
<1>1. /\ pc \in [Threads -> Labels] /\ b \in Threads
      /\ rel \in [Threads -> [Consumers -> Released]]
  BY DEF WellFormed, TypeOK, Threads
<1>2. PICK S : S = OffsetsOf(req[b].unbacked)
  OBVIOUS
<1>3. /\ UNCHANGED <<alloc, areas, req, todo>>
      /\ pc[b] = "unbacked" /\ pc' = [pc EXCEPT ![b] = "unbacking"]
      /\ rel' = [rel EXCEPT ![b][b] = [stage |-> "claim", offsets |-> S]]
  BY <1>2 DEF Unbacked, Goto, allocVars
<1>4. /\ \A u \in Threads, c \in Consumers : <<u, c>> # <<b, b>> => rel'[u][c] = rel[u][c]
      /\ rel'[b][b].stage = "claim" /\ rel'[b][b].offsets = S
  BY <1>1, <1>3
<1>5. \A c \in Consumers : rel[b][c].stage = "idle" /\ rel[b][c].offsets = {}
  BY <1>1, <1>3 DEF SlotsKept, ReleaseIsTimely
<1>6. /\ \A t \in Threads \ {b} : pc'[t] = pc[t]
      /\ pc'[b] = "unbacking"
  BY <1>1, <1>3
<1>7. AreasInPlace'
  BY <1>3 DEF SlotsKept, AreasInPlace
<1>8. ReleaseIsTimely'
  <2>1. SUFFICES ASSUME NEW u \in Threads, NEW c \in Consumers
                 PROVE  /\ rel'[u][c].stage # "idle" =>
                             pc'[u] = "consumers" \/ (pc'[u] = "unbacking" /\ c = u)
                        /\ rel'[u][c].stage = "idle" /\ rel'[u][c].offsets # {} =>
                             pc'[u] = "organize"
    BY DEF ReleaseIsTimely
  <2>2. CASE u = b
    BY <1>4, <1>5, <1>6, <2>2
  <2>3. CASE u # b
    BY <1>4, <1>6, <2>3 DEF SlotsKept, ReleaseIsTimely
  <2>4. QED
    BY <2>2, <2>3
<1>9. SlotsAreAnswered'
  <2>1. SUFFICES ASSUME NEW c \in Consumers, c \in vms', NEW s \in Slots, areas[c][s] # 0
                 PROVE  Answered(c, s, areas[c][s])'
    BY <1>3 DEF SlotsAreAnswered
  <2>2. PICK i : i = areas[c][s]
    OBVIOUS
  <2>3. Answered(c, s, i) /\ alloc[i].consumer_offset = s
    BY <2>1, <2>2 DEF SlotsKept, SlotsAreAnswered, AreasInPlace
  <2>4. /\ \A u \in Threads : Releasing(u, c, s) => Releasing(u, c, s)'
        /\ \A u \in Threads : ToRelease(u, c, s) => ToRelease(u, c, s)'
    BY <1>4, <1>5 DEF Releasing, ToRelease
  <2>5. \A u \in Threads : ToOrganize(u, i) => ToOrganize(u, i)'
    BY <1>3, <1>6 DEF ToOrganize
  <2>6. c = b /\ i \in req[b].unbacked => s \in S
    BY <1>2, <2>3 DEF OffsetsOf
  <2>7. c # b => rel'[c][c] = rel[c][c] /\ pc'[c] = pc[c]
    BY <1>4, <1>6 DEF Threads
  <2>8. Answered(c, s, i)'
    BY <1>3, <1>4, <2>3, <2>4, <2>5, <2>6, <2>7 DEF Answered
  <2>9. QED
    BY <1>3, <2>2, <2>8
<1>10. QED
  BY <1>7, <1>8, <1>9 DEF SlotsKept

(* When that release is over, no unbacked allocation is left at its slot   *)
(* that nobody releases.                                                   *)
LEMMA UnbackedDoneSlots ==
  ASSUME WellFormed, SlotsKept, UnbackedIsTimely', ExitedIsUnlisted', vms' \subseteq vms,
         NEW b \in Consumers, UnbackedDone(b)
  PROVE  SlotsKept'
<1>1. /\ pc \in [Threads -> Labels] /\ b \in Threads /\ req \in [Consumers -> Request]
  BY DEF WellFormed, TypeOK, Threads
<1>2. /\ UNCHANGED <<alloc, areas, rel, todo>> /\ rel[b][b].stage = "idle"
      /\ pc[b] = "unbacking" /\ pc' = [pc EXCEPT ![b] = "retain"]
      /\ req' = [req EXCEPT ![b].unbacked = {}, ![b].last_path = 0, ![b].at = 0]
  BY DEF UnbackedDone, Goto, allocVars
<1>3. /\ \A t \in Threads \ {b} : pc'[t] = pc[t]
      /\ pc'[b] = "retain" /\ \A c \in Consumers \ {b} : req'[c] = req[c]
  BY <1>1, <1>2
<1>4. AreasInPlace'
  BY <1>2 DEF SlotsKept, AreasInPlace
<1>5. ReleaseIsTimely'
  BY <1>2, <1>3 DEF SlotsKept, ReleaseIsTimely
<1>6. SlotsAreAnswered'
  <2>1. SUFFICES ASSUME NEW c \in Consumers, c \in vms', NEW s \in Slots, areas[c][s] # 0
                 PROVE  Answered(c, s, areas[c][s])'
    BY <1>2 DEF SlotsAreAnswered
  <2>2. PICK i : i = areas[c][s]
    OBVIOUS
  <2>3. Answered(c, s, i)
    BY <2>1, <2>2 DEF SlotsKept, SlotsAreAnswered
  <2>4. /\ \A u \in Threads : Releasing(u, c, s) => Releasing(u, c, s)'
        /\ \A u \in Threads : ToRelease(u, c, s) => ToRelease(u, c, s)'
        /\ \A u \in Threads : ToOrganize(u, i) => ToOrganize(u, i)'
    BY <1>2, <1>3 DEF Releasing, ToRelease, ToOrganize
  <2>5. c # b => pc'[c] = pc[c] /\ req'[c] = req[c]
    BY <1>3 DEF Threads
  <2>6. Answered(c, s, i)'
    BY <1>2, <2>3, <2>4, <2>5 DEF Answered
  <2>7. QED
    BY <1>2, <2>2, <2>6
<1>7. QED
  BY <1>4, <1>5, <1>6 DEF SlotsKept

-----------------------------------------------------------------------------
(* An allocation that is abandoned has its slot put into the group of its  *)
(* consumer, which has not exited.                                         *)
LEMMA OrganizeOneSlots ==
  ASSUME WellFormed, SlotsKept, UnbackedIsTimely', ExitedIsUnlisted', vms' \subseteq vms,
         NEW t \in Threads, OrganizeOne(t)
  PROVE  SlotsKept'
<1>1. /\ alloc \in [Ids -> Allocation] /\ todo \in [Threads -> SUBSET Ids]
      /\ areas \in [Consumers -> [Slots -> Ids \cup {0}]]
      /\ rel \in [Threads -> [Consumers -> Released]]
  BY DEF WellFormed, TypeOK
<1>2. PICK j \in todo[t] :
        /\ todo' = [todo EXCEPT ![t] = @ \ {j}]
        /\ alloc' = [alloc EXCEPT ![j] = abandon(@)]
        /\ rel' = IF alloc[j].consumer_vm \in exited THEN rel
                  ELSE [rel EXCEPT ![t][alloc[j].consumer_vm].offsets =
                          @ \cup {alloc[j].consumer_offset}]
  BY DEF OrganizeOne
<1>3. UNCHANGED <<areas, pc, req>> /\ pc[t] = "organize"
  BY DEF OrganizeOne
<1>4. j \in Ids /\ alloc[j] \in Allocation
  BY <1>1
<1>5. PICK b \in Consumers, x \in Slots : b = alloc[j].consumer_vm /\ x = alloc[j].consumer_offset
  BY <1>4 DEF Allocation
<1>6. /\ \A i \in Ids \ {j} : alloc'[i] = alloc[i]
      /\ alloc'[j].state = "Abandoned"
      /\ alloc'[j].consumer_vm = b /\ alloc'[j].consumer_offset = x
      /\ alloc'[j].release_requested = alloc[j].release_requested
  BY <1>1, <1>2, <1>4, <1>5 DEF abandon, Allocation
<1>7. /\ \A u \in Threads, c \in Consumers : <<u, c>> # <<t, b>> => rel'[u][c] = rel[u][c]
      /\ rel'[t][b].stage = rel[t][b].stage
      /\ rel[t][b].offsets \subseteq rel'[t][b].offsets
      /\ b \notin exited => x \in rel'[t][b].offsets
  <2>1. CASE b \in exited
    BY <1>2, <1>5, <2>1
  <2>2. CASE b \notin exited
    <3>1. rel' = [rel EXCEPT ![t][b].offsets = @ \cup {x}]
      BY <1>2, <1>5, <2>2
    <3>2. rel[t][b] \in Released /\ rel'[t][b] = [rel[t][b] EXCEPT !.offsets = @ \cup {x}]
      BY <1>1, <3>1
    <3>3. \A u \in Threads, c \in Consumers : <<u, c>> # <<t, b>> => rel'[u][c] = rel[u][c]
      BY <1>1, <3>1
    <3>4. QED
      BY <3>2, <3>3 DEF Released
  <2>3. QED
    BY <2>1, <2>2
<1>8. \A c \in Consumers : rel[t][c].stage = "idle"
  BY <1>3 DEF SlotsKept, ReleaseIsTimely
<1>9. AreasInPlace'
  BY <1>1, <1>3, <1>5, <1>6 DEF SlotsKept, AreasInPlace
<1>10. ReleaseIsTimely'
  <2>1. SUFFICES ASSUME NEW u \in Threads, NEW c \in Consumers
                 PROVE  /\ rel'[u][c].stage # "idle" =>
                             pc[u] = "consumers" \/ (pc[u] = "unbacking" /\ c = u)
                        /\ rel'[u][c].stage = "idle" /\ rel'[u][c].offsets # {} =>
                             pc[u] = "organize"
    BY <1>3 DEF ReleaseIsTimely
  <2>2. CASE u = t
    BY <1>3, <1>7, <1>8, <2>2
  <2>3. CASE u # t
    BY <1>7, <2>3 DEF SlotsKept, ReleaseIsTimely
  <2>4. QED
    BY <2>2, <2>3
<1>11. SlotsAreAnswered'
  <2>1. SUFFICES ASSUME NEW c \in Consumers, c \in vms', NEW s \in Slots, areas[c][s] # 0
                 PROVE  Answered(c, s, areas[c][s])'
    BY <1>3 DEF SlotsAreAnswered
  <2>2. PICK i : i = areas[c][s]
    OBVIOUS
  <2>3. /\ i \in Ids /\ Answered(c, s, i)
        /\ alloc[i].consumer_vm = c /\ alloc[i].consumer_offset = s
    BY <1>1, <2>1, <2>2 DEF SlotsKept, SlotsAreAnswered, AreasInPlace
  <2>4. /\ \A u \in Threads : Releasing(u, c, s) => Releasing(u, c, s)'
        /\ \A u \in Threads : ToRelease(u, c, s) => ToRelease(u, c, s)'
    BY <1>7 DEF Releasing, ToRelease
  <2>5. Answered(c, s, i)'
    <3>1. CASE i = j
      <4>1. c = b /\ s = x /\ b \notin exited
        BY <1>5, <2>1, <2>3, <3>1 DEF SlotsKept, ExitedIsUnlisted
      <4>2. ToRelease(t, c, s)'
        BY <1>7, <1>8, <4>1 DEF ToRelease
      <4>3. QED
        BY <1>6, <2>3, <2>4, <3>1, <4>2 DEF Answered
    <3>2. CASE i # j
      <4>1. \A u \in Threads : ToOrganize(u, i) => ToOrganize(u, i)'
        BY <1>1, <1>2, <1>3, <3>2 DEF ToOrganize
      <4>2. pc[c] = "unbacking" => rel'[c][c] = rel[c][c]
        <5>1. c \in Threads
          BY DEF Threads
        <5>2. QED
          BY <1>3, <1>7, <5>1
      <4>3. QED
        BY <1>3, <1>6, <2>3, <2>4, <3>2, <4>1, <4>2 DEF Answered
    <3>3. QED
      BY <3>1, <3>2
  <2>6. QED
    BY <1>3, <2>2, <2>5
<1>12. QED
  BY <1>9, <1>10, <1>11 DEF SlotsKept

(* The groups are handed to release_reserved_memory as they are. *)
LEMMA OrganizeDoneSlots ==
  ASSUME WellFormed, SlotsKept, UnbackedIsTimely', ExitedIsUnlisted', vms' \subseteq vms,
         NEW t \in Threads, OrganizeDone(t)
  PROVE  SlotsKept'
<1>1. /\ rel \in [Threads -> [Consumers -> Released]] /\ pc \in [Threads -> Labels]
  BY DEF WellFormed, TypeOK
<1>2. /\ UNCHANGED <<alloc, areas, req, todo>> /\ pc[t] = "organize" /\ todo[t] = {}
      /\ pc' = [pc EXCEPT ![t] = "consumers"]
      /\ rel' = [rel EXCEPT ![t] = [c \in Consumers |->
           IF @[c].offsets = {} THEN NoRelease ELSE [@[c] EXCEPT !.stage = "claim"]]]
  BY DEF OrganizeDone, Goto, allocVars
<1>3. \A u \in Threads \ {t} : rel'[u] = rel[u] /\ pc'[u] = pc[u]
  BY <1>1, <1>2
<1>4. pc'[t] = "consumers"
  BY <1>1, <1>2
<1>5. \A c \in Consumers : /\ rel'[t][c].offsets = rel[t][c].offsets
                           /\ rel'[t][c].stage \in {"idle", "claim"}
                           /\ rel'[t][c].stage = "idle" => rel'[t][c].offsets = {}
  <2>1. SUFFICES ASSUME NEW c \in Consumers
                 PROVE  /\ rel'[t][c].offsets = rel[t][c].offsets
                        /\ rel'[t][c].stage \in {"idle", "claim"}
                        /\ rel'[t][c].stage = "idle" => rel'[t][c].offsets = {}
    OBVIOUS
  <2>2. rel'[t][c] = IF rel[t][c].offsets = {} THEN NoRelease
                     ELSE [rel[t][c] EXCEPT !.stage = "claim"]
    BY <1>1, <1>2
  <2>3. rel[t][c] \in Released
    BY <1>1
  <2>4. QED
    BY <2>2, <2>3 DEF Released, NoRelease
<1>6. \A c \in Consumers : rel[t][c].stage = "idle"
  BY <1>2 DEF SlotsKept, ReleaseIsTimely
<1>7. AreasInPlace'
  BY <1>2 DEF SlotsKept, AreasInPlace
<1>8. ReleaseIsTimely'
  BY <1>3, <1>4, <1>5 DEF SlotsKept, ReleaseIsTimely
<1>9. SlotsAreAnswered'
  <2>1. SUFFICES ASSUME NEW c \in Consumers, c \in vms', NEW s \in Slots, areas[c][s] # 0
                 PROVE  Answered(c, s, areas[c][s])'
    BY <1>2 DEF SlotsAreAnswered
  <2>2. PICK i : i = areas[c][s]
    OBVIOUS
  <2>3. Answered(c, s, i)
    BY <2>1, <2>2 DEF SlotsKept, SlotsAreAnswered
  <2>4. /\ \A u \in Threads : Releasing(u, c, s) => Releasing(u, c, s)'
        /\ \A u \in Threads : ToRelease(u, c, s) => ToRelease(u, c, s)'
    BY <1>3, <1>5, <1>6 DEF Releasing, ToRelease
  <2>5. \A u \in Threads : ToOrganize(u, i) => ToOrganize(u, i)'
    BY <1>2, <1>3 DEF ToOrganize
  <2>6. pc'[c] = "unbacking" => pc[c] = "unbacking" /\ rel'[c][c] = rel[c][c]
    BY <1>3, <1>4 DEF Threads
  <2>7. Answered(c, s, i)'
    BY <1>2, <2>3, <2>4, <2>5, <2>6 DEF Answered
  <2>8. QED
    BY <1>2, <2>2, <2>7
<1>10. QED
  BY <1>7, <1>8, <1>9 DEF SlotsKept

(* A revoke will organize what it claims. *)
LEMMA RevokeSelectSlots ==
  ASSUME WellFormed, SlotsKept, UnbackedIsTimely', ExitedIsUnlisted', vms' \subseteq vms,
         NEW t \in Revokers, RevokeSelect(t)
  PROVE  SlotsKept'
<1>1. /\ alloc \in [Ids -> Allocation] /\ todo \in [Threads -> SUBSET Ids]
      /\ areas \in [Consumers -> [Slots -> Ids \cup {0}]]
      /\ scan[t] \subseteq Ids /\ t \in Threads
  BY DEF WellFormed, TypeOK, Threads
<1>2. PICK j \in scan[t] :
        \/ UNCHANGED <<alloc, todo>>
        \/ /\ is_committed(alloc[j]) /\ alloc' = [alloc EXCEPT ![j] = try_claim_for_revoke(@)]
           /\ todo' = [todo EXCEPT ![t] = @ \cup {j}]
  BY DEF RevokeSelect
<1>3. UNCHANGED <<areas, rel, pc, req>> /\ pc[t] = "select"
  BY DEF RevokeSelect
<1>4. j \in Ids /\ alloc[j] \in Allocation
  BY <1>1
<1>5. /\ \A i \in Ids \ {j} : alloc'[i] = alloc[i]
      /\ alloc'[j].consumer_vm = alloc[j].consumer_vm
      /\ alloc'[j].consumer_offset = alloc[j].consumer_offset
      /\ alloc'[j].release_requested = alloc[j].release_requested
      /\ \/ alloc'[j].state = alloc[j].state
         \/ alloc'[j].state = "PendingRelease" /\ j \in todo'[t]
      /\ \A u \in Threads : todo[u] \subseteq todo'[u]
  <2>1. CASE UNCHANGED <<alloc, todo>>
    BY <2>1
  <2>2. CASE /\ alloc' = [alloc EXCEPT ![j] = try_claim_for_revoke(@)]
             /\ todo' = [todo EXCEPT ![t] = @ \cup {j}]
    BY <1>1, <1>4, <2>2 DEF try_claim_for_revoke, Allocation
  <2>3. QED
    BY <1>2, <2>1, <2>2
<1>6. AreasInPlace'
  BY <1>1, <1>3, <1>5 DEF SlotsKept, AreasInPlace
<1>7. ReleaseIsTimely'
  BY <1>3 DEF SlotsKept, ReleaseIsTimely
<1>8. SlotsAreAnswered'
  <2>1. SUFFICES ASSUME NEW c \in Consumers, c \in vms', NEW s \in Slots, areas[c][s] # 0
                 PROVE  Answered(c, s, areas[c][s])'
    BY <1>3 DEF SlotsAreAnswered
  <2>2. PICK i : i = areas[c][s]
    OBVIOUS
  <2>3. i \in Ids /\ Answered(c, s, i)
    BY <1>1, <2>1, <2>2 DEF SlotsKept, SlotsAreAnswered
  <2>4. /\ \A u \in Threads : Releasing(u, c, s) => Releasing(u, c, s)'
        /\ \A u \in Threads : ToRelease(u, c, s) => ToRelease(u, c, s)'
        /\ \A u \in Threads : ToOrganize(u, i) => ToOrganize(u, i)'
        /\ j \in todo'[t] => ToOrganize(t, j)'
    BY <1>3, <1>5 DEF Releasing, ToRelease, ToOrganize
  <2>5. Answered(c, s, i)'
    <3>1. CASE i = j
      BY <1>1, <1>3, <1>5, <2>3, <2>4, <3>1 DEF Answered
    <3>2. CASE i # j
      BY <1>3, <1>5, <2>3, <2>4, <3>2 DEF Answered
    <3>3. QED
      BY <3>1, <3>2
  <2>6. QED
    BY <1>3, <2>2, <2>5
<1>9. QED
  BY <1>6, <1>7, <1>8 DEF SlotsKept

-----------------------------------------------------------------------------
(* Every step of the system keeps the slots. *)
LEMMA NextSlots ==
  ASSUME Lifecycle, SlotsKept, [Next]_vars
  PROVE  SlotsKept'
<1>1. WellFormed /\ WellFormed'
  BY NextWellFormed DEF Lifecycle
<1>2. ExitedIsUnlisted' /\ vms' \subseteq vms
  BY <1>1, UnlistedStep DEF SlotsKept
<1>3. UnbackedIsTimely'
  BY <1>1, SeekingStep DEF SlotsKept
<1>4. ASSUME NEW c \in Consumers, RequestStep(c) PROVE SlotsKept'
  BY <1>1, <1>2, <1>3, <1>4, RequestSlots, ReserveContigSlots, CommitOneSlots, UnbackedSlots,
     UnbackedDoneSlots DEF RequestStep
<1>5. ASSUME NEW t \in Threads, ReturnStep(t) PROVE SlotsKept'
  BY <1>1, <1>2, <1>3, <1>5, ReturnSlots, OrganizeOneSlots, OrganizeDoneSlots, RelClaimSlots,
     ReleaseGoesOn DEF ReturnStep
<1>6. ASSUME NEW t \in Revokers, RevokeStep(t) PROVE SlotsKept'
  BY <1>1, <1>2, <1>3, <1>6, RevokeSelectSlots, OtherSlots DEF RevokeStep
<1>7. QED
  BY <1>1, <1>2, <1>3, <1>4, <1>5, <1>6, OtherSlots DEF Next

(***************************************************************************)
(* The inductive invariant of allocated_areas: whatever is at a slot of a  *)
(* VM in the list is in use, or some thread is going to release it; a      *)
(* release that passes over an area leaves it to the one that claimed it.  *)
(***************************************************************************)
THEOREM SlotsKeptAlways == Spec => []SlotsKept
<1>1. Init => SlotsKept
  BY InitSlots
<1>2. Lifecycle /\ SlotsKept /\ [Next]_vars => SlotsKept'
  BY NextSlots
<1>3. QED
  BY <1>1, <1>2, LifecycleAlways, PTL DEF Spec

(***************************************************************************)
(* When the orchestrator is quiet, each slot taken in a consumer's device  *)
(* is taken by a committed allocation: neither a failed request, nor a     *)
(* revoke, nor the exit of a donor leaks one, even if guests are slow and  *)
(* commands fail.                                                          *)
(***************************************************************************)
THEOREM SlotsAreCommittedAlways == Spec => []SlotsAreCommitted
<1>1. Lifecycle /\ SlotsKept => SlotsAreCommitted
  <2>1. SUFFICES ASSUME Lifecycle, SlotsKept, Quiet, NEW c \in Consumers \cap vms,
                        NEW s \in Slots, areas[c][s] # 0
                 PROVE  is_committed(alloc[areas[c][s]])
    BY DEF SlotsAreCommitted
  <2>2. PICK i : i = areas[c][s]
    OBVIOUS
  <2>3. i \in Ids /\ Answered(c, s, i)
    BY <2>1, <2>2 DEF Lifecycle, WellFormed, TypeOK, SlotsKept, SlotsAreAnswered
  <2>4. \A t \in Threads : pc[t] \in {"idle", "unused", "done"}
    BY <2>1 DEF Quiet
  <2>5. \A t \in Threads : rel[t][c].stage = "idle" /\ rel[t][c].offsets = {}
    BY <2>1, <2>4 DEF SlotsKept, ReleaseIsTimely
  <2>6. /\ \A t \in Threads : ~Releasing(t, c, s) /\ ~ToRelease(t, c, s) /\ ~ToOrganize(t, i)
    BY <2>4, <2>5 DEF Releasing, ToRelease, ToOrganize
  <2>7. req[c].unbacked = {}
    <3>1. ~Seeking(pc[c], cont[c])
      BY <2>4 DEF Seeking, Threads
    <3>2. QED
      BY <2>1, <3>1 DEF SlotsKept, UnbackedIsTimely
  <2>8. alloc[i].state \notin {"PendingCommit", "PendingRelease", "Abandoned"}
    BY <2>3, <2>6, <2>7 DEF Answered
  <2>9. alloc[i].state \in AllocState
    BY <2>1, <2>3 DEF Lifecycle, WellFormed, TypeOK, Allocation
  <2>10. QED
    BY <2>2, <2>8, <2>9 DEF AllocState, is_committed
<1>2. QED
  BY <1>1, LifecycleAlways, SlotsKeptAlways, PTL
=============================================================================
