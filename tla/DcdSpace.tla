------------------------------ MODULE DcdSpace ------------------------------
(***************************************************************************)
(* The address space of one consumer's dynamic capacity device (DCD).      *)
(*                                                                         *)
(* The orchestrator hands out the device in slots of                       *)
(* EPH_MEM_DONATION_GRANULARITY bytes, each one EphAllocation.  This       *)
(* module says which slots ConsumerState::reserve_memory_contig picks:     *)
(* the first gap that is large enough, or else the largest gap.  Module    *)
(* ReserveLoop holds the code's scan over the BTreeMap and is checked      *)
(* against this definition; module Orchestrator uses this definition.      *)
(***************************************************************************)
EXTENDS Naturals, FiniteSets

(***************************************************************************)
(* The maximal runs of free slots among the slots 0..n-1.  The run of the  *)
(* slots lo..hi-1 is the pair <<lo, hi>>.                                  *)
(***************************************************************************)
Gaps(occupied, n) ==
  { g \in (0..n) \X (0..n) :
      /\ g[1] < g[2]
      /\ \A s \in occupied : s < g[1] \/ g[2] <= s
      /\ g[1] > 0 => g[1] - 1 \in occupied
      /\ g[2] < n => g[2] \in occupied }

GapLen(g) == g[2] - g[1]

(* g is the lowest gap of the set G. *)
IsLowest(g, G) == g \in G /\ \A h \in G : g[1] <= h[1]

(* The gap reserve_memory_contig settles on for a request of want slots. *)
IsChosen(g, occupied, n, want) ==
  LET all     == Gaps(occupied, n)
      fitting == { h \in all : GapLen(h) >= want }
      longest == { h \in all : \A k \in all : GapLen(k) <= GapLen(h) }
  IN  IF fitting # {} THEN IsLowest(g, fitting) ELSE IsLowest(g, longest)

(***************************************************************************)
(* The slots lo..hi-1 reserved by one call, as the pair <<lo, hi>>; the    *)
(* pair <<0, 0>> is the empty reservation.                                 *)
(***************************************************************************)
ChosenRun(occupied, n, want) ==
  LET chosen == { h \in Gaps(occupied, n) : IsChosen(h, occupied, n, want) }
  IN  IF want = 0 \/ chosen = {}
      THEN <<0, 0>>
      ELSE LET g == CHOOSE h \in chosen : TRUE
           IN  <<g[1], IF GapLen(g) < want THEN g[2] ELSE g[1] + want>>
=============================================================================
