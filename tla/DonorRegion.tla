----------------------------- MODULE DonorRegion -----------------------------
(***************************************************************************)
(* struct DonatableRegion of eph_orchestrator/src/donor.rs and the         *)
(* bookkeeping the DonorState methods do on one region under the donor's   *)
(* mutex.  Sizes are in units of which Granularity make one granule        *)
(* (EPH_MEM_DONATION_GRANULARITY); an allocation is named by its id.       *)
(***************************************************************************)
EXTENDS Naturals, FiniteSets

CONSTANT Granularity

ASSUME GranularityAssumption == Granularity \in Nat \ {0}

(* DonatableRegion::new *)
NewRegion == [donated |-> 0, revoked_owed |-> 0, allocations |-> {}]

MinOf(x, y) == IF x <= y THEN x ELSE y

(* A set of ids stands for a vector of allocations in the order of their   *)
(* ids: Lowest is its prefix of n elements, IsFirst says i is its first.   *)
Lowest(ids, n) == { i \in ids : Cardinality({ j \in ids : j < i }) < n }

IsFirst(i, ids) == i \in ids /\ \A j \in ids : i <= j

(***************************************************************************)
(* allocate_eph_memory_inner on one region: the granules it can still      *)
(* donate, and the region once the allocations ids are reserved in it.     *)
(***************************************************************************)
FreeGranules(reg, size) == (size - reg.donated) \div Granularity

Reserve_CountsOneGranule(reg, ids) ==
  [reg EXCEPT !.donated = @ + Granularity, !.allocations = @ \cup ids]

Reserve(reg, ids) ==
  [reg EXCEPT !.donated = @ + Granularity * Cardinality(ids),
              !.allocations = @ \cup ids]

(***************************************************************************)
(* handle_reserved_alloc: of the granted units, whole granules that are    *)
(* not owed to an earlier revoke back a prefix of ids (Confirmed); the     *)
(* rest of ids leaves the region's map, and what is owed or is not a whole *)
(* granule is to be given back at once (GiveBackUnits).  donated is left   *)
(* alone even when less was granted than was reserved.                     *)
(***************************************************************************)
Usable(ids, granted) ==
  LET g == MinOf(granted, Granularity * Cardinality(ids)) IN g - (g % Granularity)

Owed_NotCapped(reg, ids, granted) ==
  IF reg.revoked_owed > 0 THEN Usable(ids, granted) ELSE 0

Owed(reg, ids, granted) == MinOf(reg.revoked_owed, Usable(ids, granted))

Confirmed(reg, ids, granted) ==
  Lowest(ids, (Usable(ids, granted) - Owed(reg, ids, granted)) \div Granularity)

GiveBackUnits_NoExcess(reg, ids, granted) == Owed(reg, ids, granted)

GiveBackUnits(reg, ids, granted) ==
  Owed(reg, ids, granted)
    + (MinOf(granted, Granularity * Cardinality(ids)) % Granularity)

handle_reserved_alloc_DropsAll(reg, ids, granted) ==
  [reg EXCEPT !.revoked_owed = @ - Owed(reg, ids, granted), !.allocations = @ \ ids]

handle_reserved_alloc(reg, ids, granted) ==
  [reg EXCEPT !.revoked_owed = @ - Owed(reg, ids, granted),
              !.allocations = @ \ (ids \ Confirmed(reg, ids, granted))]

(***************************************************************************)
(* bookkeep_returned_eph_memory for one allocation id.                     *)
(***************************************************************************)
bookkeep_returned_eph_memory(reg, id) ==
  IF id \notin reg.allocations THEN reg
  ELSE [reg EXCEPT !.donated = IF @ < Granularity THEN 0 ELSE @ - Granularity,
                   !.allocations = @ \ {id}]

(***************************************************************************)
(* revoke_eph_memory: the granules a revoke of size units has to claim     *)
(* (checked_next_multiple_of), and the region when some remain unclaimed.  *)
(***************************************************************************)
RevokeGranules(size) == (size + Granularity - 1) \div Granularity

OweRest_Forgotten(reg, remaining) == reg

OweRest(reg, remaining) == [reg EXCEPT !.revoked_owed = @ + Granularity * remaining]
=============================================================================
