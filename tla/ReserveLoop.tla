----------------------------- MODULE ReserveLoop -----------------------------
(***************************************************************************)
(* ConsumerState::reserve_memory and reserve_memory_contig                 *)
(* (eph_orchestrator/src/consumer.rs): how a request for ephemeral memory  *)
(* is placed in the consumer's DCD device.                                 *)
(*                                                                         *)
(* reserve_memory calls reserve_memory_contig until the request is filled  *)
(* or the device is full.  A call scans the allocated areas in the order   *)
(* of their offsets under the consumer's mutex.  The mutex is dropped      *)
(* between two calls, so other threads may release areas there (Release).  *)
(*                                                                         *)
(* Offsets and sizes are in units of which Granularity make one slot; the  *)
(* device size need not be a multiple of Granularity.                      *)
(***************************************************************************)
EXTENDS DcdSpace

CONSTANTS
  Granularity,      (* EPH_MEM_DONATION_GRANULARITY, in units              *)
  DeviceSizes,      (* the device sizes considered, in units               *)
  MaxRequest        (* bound: the largest request considered, in units     *)

ASSUME GranularityAssumption == Granularity \in Nat \ {0}

ASSUME SizesAssumption == DeviceSizes \subseteq Nat /\ MaxRequest \in Nat

VARIABLES
  size,             (* self.size: the size of the DCD device               *)
  allocated_areas,  (* offsets of the areas in the consumer's BTreeMap     *)
  requested,        (* the aligned size the request asked for              *)
  remaining_size,   (* reserve_memory's local                              *)
  reserved,         (* offsets reserved by this request so far             *)
  pc,               (* "loop" between calls, "scan" in a call, or "done"   *)
  want,             (* reserve_memory_contig's rounded size                *)
  todo,             (* the areas its scan has yet to visit                 *)
  largest_gap, largest_gap_offset, last_region_end, first_region, broke_early

scanVars == <<want, todo, largest_gap, largest_gap_offset, last_region_end,
              first_region, broke_early>>
vars == <<size, allocated_areas, requested, remaining_size, reserved, pc, scanVars>>

RoundDown(x) == x - (x % Granularity)

RoundUp(x) == RoundDown(x + Granularity - 1)

(* The offsets from start on, one for each granule of n units. *)
Granules(start, n) == { o \in start..(start + n) : o + Granularity <= start + n
                                                    /\ (o - start) % Granularity = 0 }

-----------------------------------------------------------------------------
ScanStart ==
  /\ largest_gap' = 0 /\ largest_gap_offset' = 0 /\ last_region_end' = 0
  /\ first_region' = TRUE /\ broke_early' = FALSE

Init ==
  /\ size \in DeviceSizes
  /\ allocated_areas \in SUBSET Granules(0, size)
  /\ \E amount \in 1..MaxRequest : requested = RoundUp(amount)
  /\ remaining_size = requested
  /\ reserved = {}
  /\ pc = "loop" /\ want = 0 /\ todo = {}
  /\ largest_gap = 0 /\ largest_gap_offset = 0 /\ last_region_end = 0
  /\ first_region = TRUE /\ broke_early = FALSE

(* reserve_memory_contig returns the allocations at the offsets new, and   *)
(* reserve_memory goes on unless there are none or nothing is left.        *)
Insert_NoBreak(new) ==
  /\ allocated_areas' = allocated_areas \cup new
  /\ reserved' = reserved \cup new
  /\ remaining_size' = remaining_size - Granularity * Cardinality(new)
  /\ pc' = IF remaining_size' = 0 THEN "done" ELSE "loop"

Insert(new) ==
  /\ allocated_areas' = allocated_areas \cup new
  /\ reserved' = reserved \cup new
  /\ remaining_size' = remaining_size - Granularity * Cardinality(new)
  /\ pc' = IF new = {} \/ remaining_size' = 0 THEN "done" ELSE "loop"

(* A call that needs no scan: nothing to place, or an empty device. *)
PlaceAtOnce ==
  /\ pc = "loop"
  /\ LET n == RoundDown(IF remaining_size > size THEN size ELSE remaining_size)
     IN  /\ n = 0 \/ allocated_areas = {}
         /\ Insert(Granules(0, n))
  /\ UNCHANGED <<size, requested, scanVars>>

(* A call that scans the areas; from here on it holds the mutex. *)
BeginScan ==
  /\ pc = "loop"
  /\ want' = RoundDown(IF remaining_size > size THEN size ELSE remaining_size)
  /\ want' > 0 /\ allocated_areas # {}
  /\ todo' = allocated_areas
  /\ ScanStart
  /\ pc' = "scan"
  /\ UNCHANGED <<size, allocated_areas, requested, remaining_size, reserved>>

ScanArea_LastTieWins ==
  /\ pc = "scan" /\ ~broke_early
  /\ \E offset \in todo :
       LET gap == offset - last_region_end
       IN  /\ \A other \in todo : offset <= other
           /\ todo' = todo \ {offset}
           /\ first_region' = FALSE
           /\ largest_gap' = IF gap >= largest_gap THEN gap ELSE largest_gap
           /\ largest_gap_offset' = IF gap >= largest_gap THEN last_region_end ELSE largest_gap_offset
           /\ broke_early' = (largest_gap' >= want)
           /\ last_region_end' = IF broke_early' THEN last_region_end ELSE offset + Granularity
  /\ UNCHANGED <<size, allocated_areas, requested, remaining_size, reserved, pc, want>>

(* One iteration of the scan, on the lowest area not yet visited. *)
ScanArea ==
  /\ pc = "scan" /\ ~broke_early
  /\ \E offset \in todo :
       LET gap == IF first_region THEN offset ELSE offset - last_region_end
           at  == IF first_region THEN 0 ELSE last_region_end
       IN  /\ \A other \in todo : offset <= other
           /\ todo' = todo \ {offset}
           /\ first_region' = FALSE
           /\ largest_gap' = IF gap > largest_gap THEN gap ELSE largest_gap
           /\ largest_gap_offset' = IF gap > largest_gap THEN at ELSE largest_gap_offset
           /\ broke_early' = (largest_gap' >= want)
           /\ last_region_end' = IF broke_early' THEN last_region_end ELSE offset + Granularity
  /\ UNCHANGED <<size, allocated_areas, requested, remaining_size, reserved, pc, want>>

(* The gap after the last area; what is chosen is rounded to granules. *)
FinalGap == size - last_region_end
TakeFinalGap_Never == FALSE

TakeFinalGap == FinalGap > largest_gap /\ ~broke_early

Chosen_NotCapped ==
  LET gap == IF TakeFinalGap THEN FinalGap ELSE largest_gap
  IN  Granules(IF TakeFinalGap THEN last_region_end ELSE largest_gap_offset, RoundDown(gap))

Chosen ==
  LET gap == RoundDown(IF TakeFinalGap THEN FinalGap ELSE largest_gap)
  IN  Granules(IF TakeFinalGap THEN last_region_end ELSE largest_gap_offset,
               IF gap < want THEN gap ELSE want)

ScanEnded == pc = "scan" /\ (broke_early \/ todo = {})

EndScan ==
  /\ ScanEnded
  /\ Insert(Chosen)
  /\ UNCHANGED <<size, requested, scanVars>>

(* Another thread takes an older area out between two calls. *)
Release ==
  /\ pc = "loop"
  /\ \E o \in allocated_areas \ reserved :
       allocated_areas' = allocated_areas \ {o}
  /\ UNCHANGED <<size, requested, reserved, remaining_size, pc, scanVars>>

Reserving == PlaceAtOnce \/ BeginScan \/ ScanArea \/ EndScan

Next == Reserving \/ Release

Spec == Init /\ [][Next]_vars /\ WF_vars(Reserving)

-----------------------------------------------------------------------------
(***************************************************************************)
(* Properties.                                                             *)
(***************************************************************************)

(* Slot numbers of the occupied areas, and the number of whole slots. *)
OccupiedSlots == { o \div Granularity : o \in allocated_areas }
NumSlots == size \div Granularity

(***************************************************************************)
(* The scan of reserve_memory_contig, with its first-area flag, early      *)
(* break and separate final gap, reserves as many slots as the declarative *)
(* definition (the first gap that fits, or else the lowest of the longest  *)
(* gaps), and exactly those slots on a device that is a whole number of    *)
(* granules.  On any other device the code compares the final gap before   *)
(* rounding it down, so that gap may win a tie.                            *)
(***************************************************************************)
ScanMatchesDefinition ==
  ScanEnded =>
    LET run   == ChosenRun(OccupiedSlots, NumSlots, want \div Granularity)
        slots == { i \in 0..NumSlots : run[1] <= i /\ i < run[2] }
    IN  /\ Cardinality(Chosen) = Cardinality(slots)
        /\ size % Granularity = 0 => Chosen = { i * Granularity : i \in slots }

(***************************************************************************)
(* A call of reserve_memory_contig never reserves an offset that is taken, *)
(* one that reaches past the end of the device, or more than is asked for. *)
(***************************************************************************)
NeverOverlaps ==
  [][ LET new == reserved' \ reserved
      IN  /\ new \cap allocated_areas = {}
          /\ new \subseteq Granules(0, size)
          /\ Cardinality(reserved') * Granularity <= requested ]_vars

(***************************************************************************)
(* reserve_memory returns short only if every whole slot of the device is  *)
(* taken when its last call ends: neither fragmentation nor what others    *)
(* release between two calls costs the consumer a slot.                    *)
(***************************************************************************)
ShortOnlyIfFull ==
  pc = "done" /\ remaining_size > 0 =>
    allocated_areas = Granules(0, size)

(* reserve_memory's loop terminates whatever the state of the device. *)
ReserveTerminates == <>(pc = "done")
=============================================================================
