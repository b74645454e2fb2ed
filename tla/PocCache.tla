------------------------------ MODULE PocCache ------------------------------
(***************************************************************************)
(* The block cache of ubmks/libephmem_poc.cpp: blocks are read into main   *)
(* memory; a block evicted from main memory is put in ephemeral memory,    *)
(* from which a revocation may take any slot at any time.                  *)
(*                                                                         *)
(* Main runs the program's loop, which makes its accesses to ephemeral     *)
(* memory through libephmem (module EphAttempt); the other threads stand   *)
(* for an application that uses the library on handles of its own.         *)
(***************************************************************************)
EXTENDS EphAttempt, FiniteSets

CONSTANTS
  Main,                     (* the thread of the program's main function    *)
  Private,                  (* the handle each other thread works on        *)
  total_blocks, max_main_memory_blocks, max_eph_memory_blocks

ASSUME PocAssumption ==
  /\ Main \in Threads
  /\ Private \in [Threads \ {Main} -> Handles]
  /\ \A t, u \in Threads \ {Main} : Private[t] = Private[u] => t = u
  /\ total_blocks \in Nat \ {0} /\ max_main_memory_blocks \in Nat \ {0}
  /\ max_eph_memory_blocks \in Nat
  /\ total_blocks >= max_main_memory_blocks + max_eph_memory_blocks

VARIABLES
  pc,                  (* where Main is in its loop                         *)
  main_memory_set,     (* block -> index in main memory                     *)
  main_memory_rmap,    (* index -> block, or -1                             *)
  eph_memory,          (* index -> handle                                   *)
  eph_memory_set,      (* block -> index in eph_memory                      *)
  eph_memory_rmap,     (* index -> block, or -1                             *)
  max_eph,             (* what is left of max_eph_memory_blocks             *)
  cur,                 (* block_id, main_mem_index, eph_mem_index, evict_block_id *)
  main_data, eph_data  (* the block whose data a main slot or handle holds  *)

mapVars == <<main_memory_set, main_memory_rmap, eph_memory, eph_memory_set,
             eph_memory_rmap, max_eph>>
dataVars == <<main_data, eph_data>>
vars == <<attemptVars, pc, mapVars, cur, dataVars>>

Blocks == 0..(total_blocks - 1)
MainSlots == 0..(max_main_memory_blocks - 1)
EphSlots == 0..(max_eph - 1)
CacheHandles == Handles \ { Private[t] : t \in Threads \ {Main} }

(* std::map::erase, operator[]= and size() *)
EmptyMap == [x \in {} |-> -1]
Erase(map, b) == [x \in DOMAIN map \ {b} |-> map[x]]
Put(map, b, i) == [x \in DOMAIN map \cup {b} |-> IF x = b THEN i ELSE map[x]]
Size(map) == Cardinality(DOMAIN map)

(* std::vector::erase of the element at i, from a vector of n elements. *)
EraseAt(vec, i, n) == [k \in 0..(n - 2) |-> IF k < i THEN vec[k] ELSE vec[k + 1]]

NoBlock == [block_id |-> -1, main_mem_index |-> -1, eph_mem_index |-> -1,
            evict_block_id |-> -1]

(* libephmem_reserve granted memory for n blocks, or for more than needed. *)
Init ==
  /\ AttemptInit
  /\ pc = "alloc"
  /\ max_eph \in 0..max_eph_memory_blocks
  /\ main_memory_set = EmptyMap /\ main_memory_rmap = [i \in MainSlots |-> -1]
  /\ eph_memory = EmptyMap /\ eph_memory_set = EmptyMap /\ eph_memory_rmap = EmptyMap
  /\ cur = NoBlock
  /\ main_data = [i \in MainSlots |-> -1] /\ eph_data = [h \in Handles |-> -1]

(* Allocate the ephemeral memory, block by block; without it, give up. *)
Alloc(h) ==
  /\ pc = "alloc" /\ Size(eph_memory) < max_eph
  /\ h \in CacheHandles
  /\ libephmem_alloc(h)
  /\ eph_memory' = Put(eph_memory, Size(eph_memory), h)
  /\ eph_memory_rmap' = Put(eph_memory_rmap, Size(eph_memory), -1)
  /\ eph_data' = [eph_data EXCEPT ![h] = -1]
  /\ UNCHANGED <<pc, main_memory_set, main_memory_rmap, eph_memory_set, max_eph, cur,
                 main_data>>

Exit ==
  /\ process' = "exited"
  /\ UNCHANGED <<ctx, frames, rights, allocated, handler, revoked, pc, mapVars, cur, dataVars>>

AllocFails == pc = "alloc" /\ Size(eph_memory) < max_eph /\ Exit

AllocDone ==
  /\ pc = "alloc" /\ Size(eph_memory) = max_eph
  /\ pc' = "loop"
  /\ UNCHANGED <<attemptVars, mapVars, cur, dataVars>>

-----------------------------------------------------------------------------
(***************************************************************************)
(* One iteration of the loop, for block b.  A hit in main memory changes   *)
(* nothing; a hit in ephemeral memory is an attempt.                       *)
(***************************************************************************)
MainHit(b) ==
  /\ pc = "loop" /\ b \in DOMAIN main_memory_set
  /\ UNCHANGED vars

EphHit(b) ==
  /\ pc = "loop" /\ b \notin DOMAIN main_memory_set /\ b \in DOMAIN eph_memory_set
  /\ ~Refused(Main) /\ EnterAttempt(Main, eph_memory[eph_memory_set[b]])
  /\ cur' = [NoBlock EXCEPT !.block_id = b, !.eph_mem_index = eph_memory_set[b]]
  /\ pc' = "sum"
  /\ UNCHANGED <<allocated, handler, process, revoked, mapVars, dataVars>>

Miss(b) ==
  /\ pc = "loop" /\ b \notin DOMAIN main_memory_set \cup DOMAIN eph_memory_set
  /\ cur' = [NoBlock EXCEPT !.block_id = b]
  /\ pc' = "miss"
  /\ UNCHANGED <<attemptVars, mapVars, dataVars>>

(* fn has read or written the whole block, and returns. *)
Accessed == ctx[Main].handle \notin revoked /\ LeaveAttempt(Main)

(* An access of fn faults, and the handler jumps out of fn. *)
Faulted == ctx[Main].handle \in revoked /\ Recoverable(Main, ctx[Main].handle)
             /\ LeaveAttempt(Main)

(***************************************************************************)
(* handle_revoked_ephmem(bad): the slot's block is dropped, the slots      *)
(* above it move down, and the blocks in them are pointed at their index.  *)
(***************************************************************************)
Shifted_NotMoved(rmap, bad, n, map) == map

Shifted(rmap, bad, n, map) ==
  LET moved == { i \in bad..(n - 1) : rmap[i] # -1 }
      IsNew(b, i) == rmap[i] = b /\ \A j \in moved : rmap[j] = b => j <= i
  IN  [b \in DOMAIN map \cup { rmap[i] : i \in moved } |->
         IF \E i \in moved : rmap[i] = b THEN CHOOSE i \in moved : IsNew(b, i) ELSE map[b]]

handle_revoked_ephmem(bad) ==
  LET lost == eph_memory_rmap[bad]
      rmap == EraseAt(eph_memory_rmap, bad, max_eph)
  IN  /\ Free(eph_memory[bad])
      /\ eph_memory' = EraseAt(eph_memory, bad, max_eph)
      /\ eph_memory_rmap' = rmap
      /\ eph_memory_set' = Shifted(rmap, bad, max_eph - 1, Erase(eph_memory_set, lost))
      /\ max_eph' = max_eph - 1

SumDone ==
  /\ pc = "sum" /\ Accessed
  /\ pc' = "loop" /\ cur' = NoBlock
  /\ UNCHANGED <<allocated, handler, process, revoked, mapVars, dataVars>>

SumRevoked ==
  /\ pc = "sum" /\ Faulted
  /\ handle_revoked_ephmem(cur.eph_mem_index)
  /\ pc' = "miss" /\ cur' = [cur EXCEPT !.eph_mem_index = -1]
  /\ UNCHANGED <<handler, process, main_memory_set, main_memory_rmap, dataVars>>

-----------------------------------------------------------------------------
(***************************************************************************)
(* Not in the cache: find the index in main memory that the block is read  *)
(* to.                                                                     *)
(***************************************************************************)
MainHasRoom == Size(main_memory_set) < max_main_memory_blocks
EphHasRoom == Size(eph_memory_set) < max_eph

UseFreeSlot ==
  /\ pc = "miss" /\ MainHasRoom
  /\ cur' = [cur EXCEPT !.main_mem_index = Size(main_memory_set)]
  /\ pc' = "read"
  /\ UNCHANGED <<attemptVars, mapVars, dataVars>>

(* The block at index i is evicted from main memory to index j of          *)
(* ephemeral memory, where it replaces a block if all indices are taken.   *)
NextEphIndex_OneTooFar == IF EphHasRoom THEN {max_eph - 1} ELSE EphSlots

NextEphIndex == IF EphHasRoom THEN {Size(eph_memory_set)} ELSE EphSlots

MustEvict(i) == pc = "miss" /\ ~MainHasRoom /\ i \in MainSlots

Evict(i, j) ==
  /\ MustEvict(i) /\ j \in NextEphIndex
  /\ main_memory_rmap[i] # -1
  /\ EphHasRoom \/ eph_memory_rmap[j] # -1
  /\ eph_memory_set' = IF EphHasRoom THEN eph_memory_set
                       ELSE Erase(eph_memory_set, eph_memory_rmap[j])
  /\ eph_memory_rmap' = IF EphHasRoom THEN eph_memory_rmap
                        ELSE [eph_memory_rmap EXCEPT ![j] = -1]
  /\ main_memory_set' = Erase(main_memory_set, main_memory_rmap[i])
  /\ main_memory_rmap' = [main_memory_rmap EXCEPT ![i] = -1]
  /\ cur' = [cur EXCEPT !.main_mem_index = i, !.eph_mem_index = j,
                        !.evict_block_id = main_memory_rmap[i]]
  /\ ~Refused(Main) /\ EnterAttempt(Main, eph_memory[j])
  /\ pc' = "put"
  /\ UNCHANGED <<allocated, handler, process, revoked, eph_memory, max_eph, dataVars>>

(* No ephemeral memory is left: the block is dropped. *)
EvictDrop(i) ==
  /\ MustEvict(i) /\ max_eph = 0
  /\ main_memory_rmap[i] # -1
  /\ main_memory_set' = Erase(main_memory_set, main_memory_rmap[i])
  /\ main_memory_rmap' = [main_memory_rmap EXCEPT ![i] = -1]
  /\ cur' = [cur EXCEPT !.main_mem_index = i]
  /\ pc' = "read"
  /\ UNCHANGED <<attemptVars, eph_memory, eph_memory_set, eph_memory_rmap, max_eph, dataVars>>

(* The branches that end the program with an error: an attempt returns -1, *)
(* or there is no block at an index chosen to evict from.                   *)
GivesUp ==
  \/ pc \in {"loop", "miss"} /\ Refused(Main)
  \/ \E i \in MainSlots :
       /\ MustEvict(i)
       /\ \/ main_memory_rmap[i] = -1
          \/ ~EphHasRoom /\ \E j \in EphSlots : eph_memory_rmap[j] = -1

(* libephmem_put copied the evicted block. *)
PutDone ==
  /\ pc = "put" /\ Accessed
  /\ eph_memory_set' = Put(eph_memory_set, cur.evict_block_id, cur.eph_mem_index)
  /\ eph_memory_rmap' = [eph_memory_rmap EXCEPT ![cur.eph_mem_index] = cur.evict_block_id]
  /\ eph_data' = [eph_data EXCEPT ![ctx[Main].handle] = main_data[cur.main_mem_index]]
  /\ pc' = "read"
  /\ UNCHANGED <<allocated, handler, process, revoked, main_memory_set, main_memory_rmap,
                 eph_memory, max_eph, cur, main_data>>

PutRevoked_TakenForDone ==
  /\ pc = "put" /\ Faulted
  /\ eph_memory_set' = Put(eph_memory_set, cur.evict_block_id, cur.eph_mem_index)
  /\ eph_memory_rmap' = [eph_memory_rmap EXCEPT ![cur.eph_mem_index] = cur.evict_block_id]
  /\ pc' = "read"
  /\ UNCHANGED <<allocated, handler, process, revoked, main_memory_set, main_memory_rmap,
                 eph_memory, max_eph, cur, dataVars>>

PutRevoked ==
  /\ pc = "put" /\ Faulted
  /\ handle_revoked_ephmem(cur.eph_mem_index)
  /\ pc' = "read"
  /\ UNCHANGED <<handler, process, main_memory_set, main_memory_rmap, cur, dataVars>>

(* The block is read from disk into main memory. *)
Fill ==
  /\ pc = "read"
  /\ main_data' = [main_data EXCEPT ![cur.main_mem_index] = cur.block_id]
  /\ main_memory_set' = Put(main_memory_set, cur.block_id, cur.main_mem_index)
  /\ main_memory_rmap' = [main_memory_rmap EXCEPT ![cur.main_mem_index] = cur.block_id]
  /\ pc' = "loop" /\ cur' = NoBlock
  /\ UNCHANGED <<attemptVars, eph_memory, eph_memory_set, eph_memory_rmap, max_eph, eph_data>>
-----------------------------------------------------------------------------
Iteration ==
  \/ \E h \in CacheHandles : Alloc(h)
  \/ AllocFails \/ AllocDone
  \/ \E b \in Blocks : MainHit(b) \/ EphHit(b) \/ Miss(b)
  \/ SumDone \/ SumRevoked \/ UseFreeSlot
  \/ \E i \in MainSlots : EvictDrop(i) \/ \E j \in EphSlots : Evict(i, j)
  \/ PutDone \/ PutRevoked \/ Fill

(* Another thread t of the application, with its own handle. *)
cacheVars == <<pc, mapVars, cur, dataVars>>

Work(t) ==
  /\ \/ frames[t] = <<>> /\ libephmem_alloc(Private[t])
     \/ /\ frames[t] = <<>> /\ Private[t] \in allocated
        /\ Free(Private[t])
        /\ UNCHANGED <<ctx, frames, rights, handler, process>>
     \/ /\ EnterAttempt(t, Private[t])
        /\ UNCHANGED <<allocated, handler, process, revoked>>
     \/ /\ frames[t] # <<>> /\ LeaveAttempt(t)
        /\ UNCHANGED <<allocated, handler, process, revoked>>
     \/ \E h \in Handles : StrayAccess(t, h)
  /\ UNCHANGED cacheVars

(* A fault inside an attempt after the handler was uninstalled. *)
MainKilled ==
  /\ frames[Main] # <<>> /\ StrayAccess(Main, Head(frames[Main]))
  /\ UNCHANGED cacheVars

Environment == (OtherSigbus \/ \E h \in Handles : Revoke(h)) /\ UNCHANGED cacheVars

Next ==
  /\ process = "running"
  /\ Iteration \/ MainKilled \/ Environment \/ \E t \in Threads \ {Main} : Work(t)

Spec == Init /\ [][Next]_vars

-----------------------------------------------------------------------------
Index(n) == 0..(n - 1)

(* map and rmap are inverse to each other on the indices below n. *)
MapsAgree(map, rmap, n) ==
  /\ \A b \in DOMAIN map : map[b] \in Index(n) /\ rmap[map[b]] = b
  /\ \A i \in Index(n) : rmap[i] # -1 => rmap[i] \in DOMAIN map /\ map[rmap[i]] = i

(***************************************************************************)
(* At every level the block map and the index map agree, whatever slots    *)
(* were revoked and however the remaining ones moved, no block is held at  *)
(* both levels, and eph_memory has as many entries as the count says.      *)
(***************************************************************************)
LevelsConsistent ==
  pc # "alloc" =>
    /\ eph_memory \in [EphSlots -> CacheHandles]
    /\ MapsAgree(main_memory_set, main_memory_rmap, max_main_memory_blocks)
    /\ MapsAgree(eph_memory_set, eph_memory_rmap, max_eph)
    /\ DOMAIN main_memory_set \cap DOMAIN eph_memory_set = {}

(***************************************************************************)
(* A hit sums the block that was asked for: the memory a map leads to      *)
(* holds that block's data, even after indices moved.                      *)
(***************************************************************************)
HitReadsItsBlock ==
  pc # "alloc" =>
    /\ \A b \in DOMAIN main_memory_set : main_data[main_memory_set[b]] = b
    /\ \A b \in DOMAIN eph_memory_set : eph_data[eph_memory[eph_memory_set[b]]] = b

(***************************************************************************)
(* The branches commented "This should not happen" and the ones for        *)
(* invalid arguments are never taken: taking the next index from the size  *)
(* of a map, and any index when it is full, is right after any number of   *)
(* revocations.                                                            *)
(***************************************************************************)
NeverGivesUp == ~GivesUp

(***************************************************************************)
(* While fn runs, the thread's context is that of the innermost attempt,   *)
(* its handle is not freed and the thread may access it; outside, the      *)
(* context is off and the protection key denies access.                    *)
(***************************************************************************)
ContextMatchesStack ==
  \A t \in Threads :
    IF frames[t] = <<>> THEN ~ctx[t].in_attempt /\ (UsingPkey => t \notin rights)
    ELSE /\ ctx[t] = [in_attempt |-> TRUE, handle |-> Head(frames[t])]
         /\ t \in rights /\ Head(frames[t]) \in allocated

(***************************************************************************)
(* As long as the library's handler is installed, a revocation kills the   *)
(* process only if a thread touches a handle outside the attempt of it.    *)
(***************************************************************************)
AttemptSurvives ==
  [][(handler = "libephmem" /\ process' = "killed") =>
       \E t \in Threads, h \in Handles :
         StrayAccess(t, h) /\ ~(frames[t] # <<>> /\ h = Head(frames[t]))]_vars
=============================================================================
