--------------------------- MODULE PocCacheProofs ---------------------------
(***************************************************************************)
(* Proofs about the cache of ubmks/libephmem_poc.cpp and the attempts of   *)
(* libephmem, for any number of threads, handles, blocks and slots.        *)
(***************************************************************************)
EXTENDS PocCache, FiniteSetTheorems, TLAPS

-----------------------------------------------------------------------------
(* The inductive invariant. *)

(* The indices of a level that hold a block. *)
Filled(rmap) == { i \in DOMAIN rmap : rmap[i] # -1 }

(* The index map with v at index i. *)
SetAt(rmap, i, v) == [rmap EXCEPT ![i] = v]

(* One level of the cache: a block map and the index map inverse to it. *)
Level(map, rmap) ==
  /\ DOMAIN map \subseteq Blocks /\ map \in [DOMAIN map -> DOMAIN rmap]
  /\ rmap \in [DOMAIN rmap -> Blocks \cup {-1}]
  /\ \A b \in DOMAIN map : rmap[map[b]] = b
  /\ \A i \in Filled(rmap) : rmap[i] \in DOMAIN map /\ map[rmap[i]] = i

(* An attempt of a thread is the only one on its stack; a thread other     *)
(* than Main makes it on its own handle, which only it frees.              *)
AttemptsKept ==
  /\ ctx \in [Threads -> [in_attempt : BOOLEAN, handle : Handles]]
  /\ frames = [t \in Threads |-> IF ctx[t].in_attempt THEN <<ctx[t].handle>> ELSE <<>>]
  /\ \A t \in Threads : t \in rights <=> (~UsingPkey \/ ctx[t].in_attempt)
  /\ \A t \in Threads \ {Main} :
       ctx[t].in_attempt => ctx[t].handle = Private[t] /\ Private[t] \in allocated

(* Main is in an attempt where it reads or writes a slot, and on that one. *)
MainKept ==
  /\ ctx[Main].in_attempt <=> pc \in {"sum", "put"}
  /\ pc \in {"sum", "put"} =>
       cur.eph_mem_index \in EphSlots /\ ctx[Main].handle = eph_memory[cur.eph_mem_index]

(* The slots have handles of their own, all of them allocated. *)
SlotsKept ==
  /\ max_eph \in Nat
  /\ \E n \in 0..max_eph :
       /\ pc # "alloc" => n = max_eph
       /\ eph_memory \in [Index(n) -> CacheHandles]
       /\ DOMAIN eph_memory_rmap = Index(n)
  /\ \A i \in DOMAIN eph_memory : eph_memory[i] \in allocated
  /\ \A i, j \in DOMAIN eph_memory : eph_memory[i] = eph_memory[j] => i = j

(* Both levels are consistent and filled from below, except for the index  *)
(* that is about to be filled.                                             *)
LevelsKept ==
  /\ Level(main_memory_set, main_memory_rmap) /\ Level(eph_memory_set, eph_memory_rmap)
  /\ DOMAIN main_memory_rmap = MainSlots
  /\ DOMAIN main_memory_set \cap DOMAIN eph_memory_set = {}
  /\ pc = "alloc" => DOMAIN main_memory_set = {} /\ DOMAIN eph_memory_set = {}
  /\ IF pc \in {"put", "read"}
     THEN /\ cur.main_mem_index \in MainSlots \ Filled(main_memory_rmap)
          /\ Filled(main_memory_rmap) \cup {cur.main_mem_index} = 0..Size(main_memory_set)
     ELSE Filled(main_memory_rmap) = Index(Size(main_memory_set))
  /\ IF pc = "put"
     THEN /\ cur.eph_mem_index \in EphSlots \ Filled(eph_memory_rmap)
          /\ Filled(eph_memory_rmap) \cup {cur.eph_mem_index} = 0..Size(eph_memory_set)
     ELSE Filled(eph_memory_rmap) = Index(Size(eph_memory_set))

(* What the locals of an iteration refer to. *)
CurKept ==
  /\ pc \in {"alloc", "loop", "sum", "miss", "put", "read"}
  /\ cur \in [block_id : Int, main_mem_index : Int, eph_mem_index : Int, evict_block_id : Int]
  /\ pc = "sum" => /\ cur.block_id \in DOMAIN eph_memory_set
                   /\ eph_memory_set[cur.block_id] = cur.eph_mem_index
  /\ pc \in {"miss", "put", "read"} =>
       cur.block_id \in Blocks \ (DOMAIN main_memory_set \cup DOMAIN eph_memory_set)
  /\ pc = "put" =>
       /\ cur.evict_block_id \in Blocks \ (DOMAIN main_memory_set \cup DOMAIN eph_memory_set)
       /\ cur.evict_block_id # cur.block_id

(* A mapped block is where the map says; the evicted one is still in main  *)
(* memory while it is copied.                                              *)
DataKept ==
  /\ main_data \in [MainSlots -> Blocks \cup {-1}] /\ eph_data \in [Handles -> Blocks \cup {-1}]
  /\ \A b \in DOMAIN main_memory_set : main_data[main_memory_set[b]] = b
  /\ \A b \in DOMAIN eph_memory_set : eph_data[eph_memory[eph_memory_set[b]]] = b
  /\ pc = "put" => main_data[cur.main_mem_index] = cur.evict_block_id

CacheKept ==
  AttemptsKept /\ MainKept /\ SlotsKept /\ LevelsKept /\ CurKept /\ DataKept

-----------------------------------------------------------------------------
(* What the operations on the two maps of a level do: (map, rmap) becomes  *)
(* (m, r).                                                                 *)

(* Block b is put at index i. *)
PutAt(map, rmap, b, i, m, r) ==
  /\ Level(m, r)
  /\ DOMAIN m = DOMAIN map \cup {b} /\ DOMAIN r = DOMAIN rmap
  /\ Filled(r) = Filled(rmap) \cup {i}
  /\ Size(m) = Size(map) + 1
  /\ m[b] = i /\ \A x \in DOMAIN map : m[x] = map[x]

(* Block b, at index i, is erased. *)
ErasedAt(map, rmap, b, i, m, r) ==
  /\ Level(m, r)
  /\ DOMAIN m = DOMAIN map \ {b} /\ DOMAIN r = DOMAIN rmap
  /\ Filled(r) = Filled(rmap) \ {i}
  /\ Size(m) = Size(map) - 1
  /\ b \in Blocks /\ b \in DOMAIN map
  /\ \A x \in DOMAIN m : m[x] = map[x] /\ map[x] # i

(* Of n indices the bad one goes, and the ones above it move down by one. *)
DroppedAt(map, rmap, n, bad, m, r) ==
  /\ Level(m, r)
  /\ DOMAIN r = Index(n - 1)
  /\ DOMAIN m = DOMAIN map \ {rmap[bad]}
  /\ \A x \in DOMAIN m :
       map[x] # bad /\ m[x] = IF map[x] < bad THEN map[x] ELSE map[x] - 1
  /\ Size(m) = IF bad \in Filled(rmap) THEN Size(map) - 1 ELSE Size(map)
  /\ \A i \in Index(n - 1) :
       i \in Filled(r) <=> (IF i < bad THEN i ELSE i + 1) \in Filled(rmap)

-----------------------------------------------------------------------------
(* Lemmas about one level of the cache. *)

(***************************************************************************)
(* The blocks of a level are finitely many, as many as the map's size.     *)
(***************************************************************************)
LEMMA LevelSize ==
  ASSUME NEW map, NEW rmap, Level(map, rmap)
  PROVE  IsFiniteSet(DOMAIN map) /\ Size(map) \in Nat
<1>1. IsFiniteSet(Blocks)
  BY FS_Interval, PocAssumption DEF Blocks
<1>2. IsFiniteSet(DOMAIN map)
  BY <1>1, FS_Subset DEF Level
<1> QED
  BY <1>2, FS_CardinalityType DEF Size

(***************************************************************************)
(* operator[]= on both maps: a block that is not in the map is put at an   *)
(* index that holds none.                                                  *)
(***************************************************************************)
LEMMA PutLevel ==
  ASSUME NEW map, NEW rmap, Level(map, rmap),
         NEW b \in Blocks \ DOMAIN map, NEW i \in DOMAIN rmap \ Filled(rmap),
         NEW m, m = Put(map, b, i), NEW r, r = SetAt(rmap, i, b)
  PROVE  PutAt(map, rmap, b, i, m, r)
<1> r = [rmap EXCEPT ![i] = b]
  BY DEF SetAt
<1>0. b # -1 /\ b \notin DOMAIN map /\ b \in Blocks
  BY PocAssumption DEF Blocks
<1>1. DOMAIN m = DOMAIN map \cup {b} /\ m[b] = i /\ \A x \in DOMAIN map : m[x] = map[x]
  BY DEF Put
<1>2. /\ rmap \in [DOMAIN rmap -> Blocks \cup {-1}] /\ i \in DOMAIN rmap /\ rmap[i] = -1
      /\ DOMAIN map \subseteq Blocks /\ map \in [DOMAIN map -> DOMAIN rmap]
  BY DEF Level, Filled
<1>3. /\ r \in [DOMAIN rmap -> Blocks \cup {-1}] /\ r[i] = b
      /\ \A j \in DOMAIN rmap : j # i => r[j] = rmap[j]
  BY <1>0, <1>2
<1>4. Filled(r) = Filled(rmap) \cup {i}
  BY <1>0, <1>2, <1>3 DEF Filled
<1>5. m \in [DOMAIN m -> DOMAIN rmap]
  BY <1>1, <1>2 DEF Put
<1>6. \A x \in DOMAIN m : r[m[x]] = x
  <2> SUFFICES ASSUME NEW x \in DOMAIN m PROVE r[m[x]] = x
    OBVIOUS
  <2>1. CASE x = b
    BY <2>1, <1>1, <1>3
  <2>2. CASE x # b
    <3>1. x \in DOMAIN map /\ rmap[map[x]] = x /\ map[x] \in DOMAIN rmap
      BY <2>2, <1>1, <1>2 DEF Level
    <3>2. map[x] # i
      BY <3>1, <1>2, PocAssumption DEF Blocks
    <3> QED
      BY <3>1, <3>2, <1>1, <1>3
  <2> QED
    BY <2>1, <2>2
<1>7. \A j \in Filled(r) : r[j] \in DOMAIN m /\ m[r[j]] = j
  <2> SUFFICES ASSUME NEW j \in Filled(r) PROVE r[j] \in DOMAIN m /\ m[r[j]] = j
    OBVIOUS
  <2>1. CASE j = i
    BY <2>1, <1>1, <1>3
  <2>2. CASE j # i
    <3>1. j \in Filled(rmap) /\ j \in DOMAIN rmap
      BY <2>2, <1>4 DEF Filled
    <3>2. rmap[j] \in DOMAIN map /\ map[rmap[j]] = j
      BY <3>1 DEF Level
    <3> QED
      BY <2>2, <3>1, <3>2, <1>1, <1>3
  <2> QED
    BY <2>1, <2>2
<1>8. Level(m, r)
  <2>1. DOMAIN m \subseteq Blocks
    BY <1>0, <1>1, <1>2
  <2>2. DOMAIN r = DOMAIN rmap
    OBVIOUS
  <2> QED
    BY <2>1, <2>2, <1>3, <1>5, <1>6, <1>7 DEF Level
<1>9. Size(m) = Size(map) + 1
  <2>1. IsFiniteSet(DOMAIN map)
    BY LevelSize
  <2> QED
    BY <2>1, <1>0, <1>1, FS_AddElement DEF Size
<1> QED
  BY <1>1, <1>3, <1>4, <1>8, <1>9 DEF PutAt

(***************************************************************************)
(* erase from the map and -1 in the index map: the block at an index goes. *)
(***************************************************************************)
LEMMA EraseLevel ==
  ASSUME NEW map, NEW rmap, Level(map, rmap), NEW i \in Filled(rmap),
         NEW b, b = rmap[i],
         NEW m, m = Erase(map, b), NEW r, r = SetAt(rmap, i, -1)
  PROVE  ErasedAt(map, rmap, b, i, m, r)
<1> r = [rmap EXCEPT ![i] = -1]
  BY DEF SetAt
<1>1. DOMAIN m = DOMAIN map \ {rmap[i]} /\ \A x \in DOMAIN m : m[x] = map[x]
  BY DEF Erase
<1>2. /\ rmap \in [DOMAIN rmap -> Blocks \cup {-1}] /\ i \in DOMAIN rmap /\ rmap[i] # -1
      /\ DOMAIN map \subseteq Blocks /\ map \in [DOMAIN map -> DOMAIN rmap]
      /\ rmap[i] \in DOMAIN map /\ map[rmap[i]] = i
  BY DEF Level, Filled
<1>3. /\ r \in [DOMAIN rmap -> Blocks \cup {-1}] /\ r[i] = -1
      /\ \A j \in DOMAIN rmap : j # i => r[j] = rmap[j]
  BY <1>2
<1>4. Filled(r) = Filled(rmap) \ {i}
  BY <1>2, <1>3 DEF Filled
<1>5. m \in [DOMAIN m -> DOMAIN rmap]
  BY <1>1, <1>2 DEF Erase
<1>6. \A x \in DOMAIN m : map[x] # i /\ r[m[x]] = x
  BY <1>1, <1>2, <1>3 DEF Level
<1>7. \A j \in Filled(r) : r[j] \in DOMAIN m /\ m[r[j]] = j
  <2> SUFFICES ASSUME NEW j \in Filled(r) PROVE r[j] \in DOMAIN m /\ m[r[j]] = j
    OBVIOUS
  <2>1. j \in Filled(rmap) /\ j # i /\ j \in DOMAIN rmap
    BY <1>4 DEF Filled
  <2>2. rmap[j] \in DOMAIN map /\ map[rmap[j]] = j
    BY <2>1 DEF Level
  <2>3. rmap[j] # rmap[i]
    BY <2>1, <2>2, <1>2
  <2> QED
    BY <2>1, <2>2, <2>3, <1>1, <1>3
<1>8. Level(m, r)
  <2>1. DOMAIN m \subseteq Blocks
    BY <1>1, <1>2
  <2>2. DOMAIN r = DOMAIN rmap
    OBVIOUS
  <2> QED
    BY <2>1, <2>2, <1>3, <1>5, <1>6, <1>7 DEF Level
<1>9. Size(m) = Size(map) - 1
  <2>1. IsFiniteSet(DOMAIN map)
    BY LevelSize
  <2> QED
    BY <2>1, <1>1, <1>2, FS_RemoveElement DEF Size
<1>10. rmap[i] \in Blocks
  BY <1>2
<1> QED
  BY <1>1, <1>2, <1>3, <1>4, <1>6, <1>8, <1>9, <1>10 DEF ErasedAt

(***************************************************************************)
(* handle_revoked_ephmem on the two maps of a level of n indices: the      *)
(* block at the bad index goes, the ones above it move down by one.        *)
(***************************************************************************)
LEMMA DropLevel ==
  ASSUME NEW map, NEW rmap, Level(map, rmap), NEW n \in Nat, DOMAIN rmap = Index(n),
         NEW bad \in Index(n),
         NEW r, r = EraseAt(rmap, bad, n),
         NEW m, m = Shifted(r, bad, n - 1, Erase(map, rmap[bad]))
  PROVE  DroppedAt(map, rmap, n, bad, m, r)
<1> DEFINE e == Erase(map, rmap[bad])
           moved == { i \in bad..(n - 1 - 1) : r[i] # -1 }
<1>1. /\ rmap \in [Index(n) -> Blocks \cup {-1}]
      /\ DOMAIN map \subseteq Blocks /\ map \in [DOMAIN map -> Index(n)]
      /\ \A x \in DOMAIN map : rmap[map[x]] = x
      /\ \A i \in Index(n) : rmap[i] # -1 => rmap[i] \in DOMAIN map /\ map[rmap[i]] = i
  BY DEF Level, Filled
<1>2. bad \in Int /\ 0 <= bad /\ bad <= n - 1 /\ n \in Int
  BY DEF Index
<1>3. \A i \in Index(n) : i \in Int /\ 0 <= i /\ i <= n - 1
  BY DEF Index
<1>4. \A i \in Int : 0 <= i /\ i <= n - 1 => i \in Index(n)
  BY DEF Index
<1>5. /\ DOMAIN r = Index(n - 1)
      /\ \A i \in Index(n - 1) : r[i] = rmap[IF i < bad THEN i ELSE i + 1]
  BY <1>2 DEF EraseAt, Index
<1>6. \A i \in Index(n - 1) : /\ i \in Int /\ i # -1 /\ 0 <= i /\ i <= n - 2
                              /\ (IF i < bad THEN i ELSE i + 1) \in Index(n)
  BY <1>2 DEF Index
<1>7. \A i \in Int : 0 <= i /\ i <= n - 2 => i \in Index(n - 1)
  BY <1>2 DEF Index
<1>8. DOMAIN e = DOMAIN map \ {rmap[bad]} /\ \A x \in DOMAIN e : e[x] = map[x]
  BY DEF Erase
<1>9. r \in [Index(n - 1) -> Blocks \cup {-1}]
  <2>1. r = [i \in Index(n - 1) |-> r[i]]
    BY <1>2 DEF EraseAt, Index
  <2>2. \A i \in Index(n - 1) : r[i] \in Blocks \cup {-1}
    BY <1>1, <1>5, <1>6
  <2> QED
    BY <2>1, <2>2
<1> HIDE DEF e
<1>10. \A i \in moved : /\ i \in Index(n - 1) /\ i + 1 \in Index(n) /\ ~(i < bad)
                        /\ r[i] = rmap[i + 1]
                        /\ r[i] \in DOMAIN e /\ map[r[i]] = i + 1
  <2> SUFFICES ASSUME NEW i \in moved
               PROVE  /\ i \in Index(n - 1) /\ i + 1 \in Index(n) /\ ~(i < bad)
                      /\ r[i] = rmap[i + 1]
                      /\ r[i] \in DOMAIN e /\ map[r[i]] = i + 1
    OBVIOUS
  <2>1. i \in Int /\ bad <= i /\ i <= n - 2 /\ r[i] # -1
    BY <1>2
  <2>2. i \in Index(n - 1) /\ i + 1 \in Index(n) /\ ~(i < bad) /\ i + 1 # bad
    BY <2>1, <1>2, <1>4, <1>7
  <2>3. r[i] = rmap[i + 1]
    BY <2>2, <1>5
  <2>4. rmap[i + 1] \in DOMAIN map /\ map[rmap[i + 1]] = i + 1
    BY <2>1, <2>2, <2>3, <1>1
  <2>5. rmap[i + 1] # rmap[bad]
    BY <2>1, <2>2, <2>3, <2>4, <1>1
  <2> QED
    BY <2>2, <2>3, <2>4, <2>5, <1>8
<1>11. \A i, j \in moved : r[i] = r[j] => i = j
  <2> SUFFICES ASSUME NEW i \in moved, NEW j \in moved, r[i] = r[j] PROVE i = j
    OBVIOUS
  <2>1. i + 1 = j + 1 /\ i \in Int /\ j \in Int
    BY <1>6, <1>10
  <2> QED
    BY <2>1
<1>12. DOMAIN m = DOMAIN map \ {rmap[bad]}
  <2>1. DOMAIN m = DOMAIN e \cup { r[i] : i \in moved }
    BY DEF Shifted, e
  <2> HIDE DEF moved
  <2> QED
    <3>1. { r[i] : i \in moved } \subseteq DOMAIN e
      BY <1>10
    <3> QED
      BY <2>1, <3>1, <1>8
<1>13. \A x \in DOMAIN m : \A i \in moved : r[i] = x => m[x] = i
  <2> SUFFICES ASSUME NEW x \in DOMAIN m, NEW i \in moved, r[i] = x PROVE m[x] = i
    OBVIOUS
  <2> DEFINE Q(k) == r[k] = x /\ \A j \in moved : r[j] = x => j <= k
  <2>1. m[x] = CHOOSE k \in moved : Q(k)
    BY DEF Shifted, e
  <2>2. \A k \in moved : r[k] = x => k = i
    BY <1>11
  <2>3. Q(i)
    BY <2>2, <1>6, <1>10
  <2> HIDE DEF moved
  <2>4. \A k \in moved : Q(k) => k = i
    BY <2>2
  <2> HIDE DEF Q
  <2> QED
    BY <2>1, <2>3, <2>4
<1>14. \A x \in DOMAIN m : (\A i \in moved : r[i] # x) => m[x] = e[x]
  BY DEF Shifted, e
<1>15. \A x \in DOMAIN m : x \in DOMAIN map /\ x # rmap[bad] /\ e[x] = map[x]
                            /\ map[x] \in Index(n) /\ map[x] # bad /\ rmap[map[x]] = x /\ x # -1
  <2> SUFFICES ASSUME NEW x \in DOMAIN m
               PROVE  x \in DOMAIN map /\ x # rmap[bad] /\ e[x] = map[x]
                       /\ map[x] \in Index(n) /\ map[x] # bad /\ rmap[map[x]] = x /\ x # -1
    OBVIOUS
  <2>1. x \in DOMAIN map /\ x # rmap[bad] /\ x \in DOMAIN e
    BY <1>8, <1>12
  <2>2. e[x] = map[x] /\ map[x] \in Index(n) /\ rmap[map[x]] = x /\ x \in Blocks
    BY <2>1, <1>1, <1>8
  <2>3. x # -1
    BY <2>2, PocAssumption DEF Blocks
  <2> QED
    BY <2>1, <2>2, <2>3
<1>16. \A x \in DOMAIN m : m[x] = IF map[x] < bad THEN map[x] ELSE map[x] - 1
  <2> SUFFICES ASSUME NEW x \in DOMAIN m
               PROVE  m[x] = IF map[x] < bad THEN map[x] ELSE map[x] - 1
    OBVIOUS
  <2>1. map[x] \in Int /\ 0 <= map[x] /\ map[x] <= n - 1 /\ map[x] # bad
    BY <1>3, <1>15
  <2>2. CASE map[x] < bad
    <3>1. \A i \in moved : r[i] # x
      BY <2>1, <2>2, <1>2, <1>6, <1>10
    <3> HIDE DEF moved
    <3> QED
      BY <3>1, <2>2, <1>14, <1>15
  <2>3. CASE ~(map[x] < bad)
    <3> DEFINE i == map[x] - 1
    <3>1. i \in Int /\ bad <= i /\ i <= n - 2 /\ 0 <= i /\ i + 1 = map[x]
      BY <2>1, <2>3, <1>2
    <3>2. i \in Index(n - 1) /\ ~(i < bad)
      BY <3>1, <1>2, <1>7
    <3>3. r[i] = rmap[i + 1]
      BY <3>2, <1>5
    <3>4. r[i] = x
      BY <3>1, <3>3, <1>15
    <3>5. i \in moved
      BY <3>1, <3>4, <1>2, <1>15
    <3> QED
      BY <3>4, <3>5, <2>3, <1>13
  <2> QED
    BY <2>2, <2>3
<1>17. Level(m, r)
  <2>1. m \in [DOMAIN m -> DOMAIN r]
    <3>1. m = [x \in DOMAIN m |-> m[x]]
      BY DEF Shifted, e
    <3>2. \A x \in DOMAIN m : m[x] \in Index(n - 1)
      <4> SUFFICES ASSUME NEW x \in DOMAIN m PROVE m[x] \in Index(n - 1)
        OBVIOUS
      <4>1. map[x] \in Int /\ 0 <= map[x] /\ map[x] <= n - 1 /\ map[x] # bad
        BY <1>3, <1>15
      <4>2. m[x] \in Int /\ 0 <= m[x] /\ m[x] <= n - 2
        BY <4>1, <1>2, <1>16
      <4> QED
        BY <4>2, <1>7
    <3> QED
      BY <3>1, <3>2, <1>5
  <2>2. \A x \in DOMAIN m : r[m[x]] = x
    <3> SUFFICES ASSUME NEW x \in DOMAIN m PROVE r[m[x]] = x
      OBVIOUS
    <3>1. map[x] \in Int /\ 0 <= map[x] /\ map[x] <= n - 1 /\ map[x] # bad
      BY <1>3, <1>15
    <3>2. m[x] \in Index(n - 1)
      BY <2>1, <1>5
    <3>3. (IF m[x] < bad THEN m[x] ELSE m[x] + 1) = map[x]
      BY <3>1, <1>2, <1>16
    <3>4. r[m[x]] = rmap[map[x]]
      BY <3>2, <3>3, <1>5
    <3> QED
      BY <3>4, <1>15
  <2>3. \A i \in Filled(r) : r[i] \in DOMAIN m /\ m[r[i]] = i
    <3> SUFFICES ASSUME NEW i \in Filled(r) PROVE r[i] \in DOMAIN m /\ m[r[i]] = i
      OBVIOUS
    <3> DEFINE l == IF i < bad THEN i ELSE i + 1
    <3>1. i \in Index(n - 1) /\ r[i] # -1
      BY <1>5 DEF Filled
    <3>2. l \in Index(n) /\ i \in Int /\ l \in Int /\ l # bad /\ r[i] = rmap[l]
      BY <3>1, <1>2, <1>5, <1>6
    <3>3. rmap[l] \in DOMAIN map /\ map[rmap[l]] = l
      BY <3>1, <3>2, <1>1
    <3>4. rmap[l] # rmap[bad]
      BY <3>1, <3>2, <3>3, <1>1
    <3>5. r[i] \in DOMAIN m /\ map[r[i]] = l
      BY <3>2, <3>3, <3>4, <1>12
    <3>6. m[r[i]] = i
      BY <3>2, <3>5, <1>2, <1>16
    <3> QED
      BY <3>5, <3>6
  <2>4. DOMAIN m \subseteq Blocks
    BY <1>1, <1>12
  <2> QED
    BY <2>1, <2>2, <2>3, <2>4, <1>5, <1>9 DEF Level
<1>18. Size(m) = IF bad \in Filled(rmap) THEN Size(map) - 1 ELSE Size(map)
  <2>1. IsFiniteSet(DOMAIN map)
    BY LevelSize
  <2>2. CASE bad \in Filled(rmap)
    <3>1. rmap[bad] \in DOMAIN map
      BY <2>2 DEF Level
    <3> QED
      BY <2>1, <2>2, <3>1, <1>12, FS_RemoveElement DEF Size
  <2>3. CASE bad \notin Filled(rmap)
    <3>1. rmap[bad] = -1 /\ -1 \notin Blocks
      BY <2>3, PocAssumption DEF Filled, Blocks
    <3>2. rmap[bad] \notin DOMAIN map
      BY <3>1, <1>1
    <3>3. DOMAIN m = DOMAIN map
      BY <3>2, <1>12
    <3> QED
      BY <2>3, <3>3 DEF Size
  <2> QED
    BY <2>2, <2>3
<1>19. \A i \in Index(n - 1) :
         i \in Filled(r) <=> (IF i < bad THEN i ELSE i + 1) \in Filled(rmap)
  BY <1>5, <1>6 DEF Filled
<1>20. \A x \in DOMAIN m : map[x] # bad /\ m[x] = IF map[x] < bad THEN map[x] ELSE map[x] - 1
  BY <1>15, <1>16
<1> QED
  BY <1>5, <1>12, <1>17, <1>18, <1>19, <1>20 DEF DroppedAt

-----------------------------------------------------------------------------
(* Steps of the attempts. *)

(***************************************************************************)
(* libephmem_attempt up to the call of fn, by a thread that is in none.    *)
(***************************************************************************)
LEMMA EnterKept ==
  ASSUME AttemptsKept, NEW t \in Threads, NEW h \in Handles, ~Refused(t),
         EnterAttempt(t, h), allocated' = allocated, t = Main \/ h = Private[t]
  PROVE  /\ AttemptsKept'
         /\ ctx'[t] = [in_attempt |-> TRUE, handle |-> h]
         /\ \A u \in Threads \ {t} : ctx'[u] = ctx[u]
<1>1. /\ ctx \in [Threads -> [in_attempt : BOOLEAN, handle : Handles]]
      /\ h \in allocated
      /\ ctx' = [ctx EXCEPT ![t] = [in_attempt |-> TRUE, handle |-> h]]
      /\ frames' = [frames EXCEPT ![t] = <<h>> \o @]
      /\ rights' = rights \cup {t}
  BY DEF AttemptsKept, EnterAttempt
<1>2. frames = [u \in Threads |-> IF ctx[u].in_attempt THEN <<ctx[u].handle>> ELSE <<>>]
  BY DEF AttemptsKept
<1>3. /\ ctx'[t] = [in_attempt |-> TRUE, handle |-> h]
      /\ \A u \in Threads \ {t} : ctx'[u] = ctx[u]
      /\ ctx' \in [Threads -> [in_attempt : BOOLEAN, handle : Handles]]
  BY <1>1
<1>4. frames[t] = <<>>
  BY <1>2 DEF Refused
<1>5. frames' = [u \in Threads |-> IF ctx'[u].in_attempt THEN <<ctx'[u].handle>> ELSE <<>>]
  <2>1. <<h>> \o <<>> = <<h>>
    OBVIOUS
  <2>2. frames' = [frames EXCEPT ![t] = <<h>>]
    BY <1>1, <1>4, <2>1
  <2> QED
    BY <1>2, <1>3, <2>2
<1>6. \A u \in Threads : u \in rights' <=> (~UsingPkey \/ ctx'[u].in_attempt)
  <2>1. \A u \in Threads : u \in rights <=> (~UsingPkey \/ ctx[u].in_attempt)
    BY DEF AttemptsKept
  <2> QED
    BY <1>1, <1>3, <2>1
<1>7. \A u \in Threads \ {Main} :
        ctx'[u].in_attempt => ctx'[u].handle = Private[u] /\ Private[u] \in allocated'
  <2>1. \A u \in Threads \ {Main} :
          ctx[u].in_attempt => ctx[u].handle = Private[u] /\ Private[u] \in allocated
    BY DEF AttemptsKept
  <2> QED
    BY <1>1, <1>3, <2>1
<1> QED
  BY <1>3, <1>5, <1>6, <1>7 DEF AttemptsKept

(***************************************************************************)
(* The end of libephmem_attempt; a handle may be freed at the same time,   *)
(* but none of another thread's own.                                       *)
(***************************************************************************)
LEMMA LeaveKept ==
  ASSUME AttemptsKept, NEW t \in Threads, ctx[t].in_attempt, LeaveAttempt(t),
         \A u \in Threads \ {Main, t} : Private[u] \in allocated => Private[u] \in allocated'
  PROVE  /\ AttemptsKept'
         /\ ~ctx'[t].in_attempt
         /\ \A u \in Threads \ {t} : ctx'[u] = ctx[u]
<1>1. /\ ctx \in [Threads -> [in_attempt : BOOLEAN, handle : Handles]]
      /\ ctx' = [ctx EXCEPT ![t].in_attempt = FALSE]
      /\ frames' = [frames EXCEPT ![t] = Tail(@)]
      /\ rights' = IF UsingPkey THEN rights \ {t} ELSE rights
  BY DEF AttemptsKept, LeaveAttempt
<1>2. frames = [u \in Threads |-> IF ctx[u].in_attempt THEN <<ctx[u].handle>> ELSE <<>>]
  BY DEF AttemptsKept
<1>3. /\ ~ctx'[t].in_attempt
      /\ \A u \in Threads \ {t} : ctx'[u] = ctx[u]
      /\ ctx' \in [Threads -> [in_attempt : BOOLEAN, handle : Handles]]
  BY <1>1
<1>4. frames[t] = <<ctx[t].handle>>
  BY <1>2
<1>5. frames' = [u \in Threads |-> IF ctx'[u].in_attempt THEN <<ctx'[u].handle>> ELSE <<>>]
  <2>1. Tail(<<ctx[t].handle>>) = <<>>
    OBVIOUS
  <2>2. frames' = [frames EXCEPT ![t] = <<>>]
    BY <1>1, <1>4, <2>1
  <2> QED
    BY <1>2, <1>3, <2>2
<1>6. \A u \in Threads : u \in rights' <=> (~UsingPkey \/ ctx'[u].in_attempt)
  <2>1. \A u \in Threads : u \in rights <=> (~UsingPkey \/ ctx[u].in_attempt)
    BY DEF AttemptsKept
  <2> QED
    BY <1>1, <1>3, <2>1
<1>7. \A u \in Threads \ {Main} :
        ctx'[u].in_attempt => ctx'[u].handle = Private[u] /\ Private[u] \in allocated'
  <2>1. \A u \in Threads \ {Main} :
          ctx[u].in_attempt => ctx[u].handle = Private[u] /\ Private[u] \in allocated
    BY DEF AttemptsKept
  <2> QED
    BY <1>3, <2>1
<1> QED
  BY <1>3, <1>5, <1>6, <1>7 DEF AttemptsKept

(***************************************************************************)
(* No step that leaves the variables of Main's loop alone disturbs what is *)
(* said of them.                                                           *)
(***************************************************************************)
LEMMA CacheFrame ==
  ASSUME CacheKept, UNCHANGED cacheVars
  PROVE  LevelsKept' /\ CurKept' /\ DataKept'
<1>1. /\ pc' = pc /\ cur' = cur /\ max_eph' = max_eph
      /\ main_memory_set' = main_memory_set /\ main_memory_rmap' = main_memory_rmap
      /\ eph_memory' = eph_memory
      /\ eph_memory_set' = eph_memory_set /\ eph_memory_rmap' = eph_memory_rmap
      /\ main_data' = main_data /\ eph_data' = eph_data
  BY DEF cacheVars, mapVars, dataVars
<1>2. LevelsKept'
  BY <1>1 DEF CacheKept, LevelsKept, Level, Filled, Size, EphSlots
<1>3. CurKept'
  BY <1>1 DEF CacheKept, CurKept
<1>4. DataKept'
  BY <1>1 DEF CacheKept, DataKept
<1> QED
  BY <1>2, <1>3, <1>4

(***************************************************************************)
(* The slots keep their handles if no handle of the cache is freed.        *)
(***************************************************************************)
LEMMA SlotsFrame ==
  ASSUME CacheKept, UNCHANGED <<eph_memory, max_eph>>,
         DOMAIN eph_memory_rmap' = DOMAIN eph_memory_rmap,
         pc' # "alloc" => pc # "alloc",
         \A h \in CacheHandles : h \in allocated => h \in allocated'
  PROVE  SlotsKept'
<1>1. PICK n \in 0..max_eph : /\ pc # "alloc" => n = max_eph
                              /\ eph_memory \in [Index(n) -> CacheHandles]
                              /\ DOMAIN eph_memory_rmap = Index(n)
  BY DEF CacheKept, SlotsKept
<1>2. max_eph \in Nat
  BY DEF CacheKept, SlotsKept
<1>3. \A i, j \in DOMAIN eph_memory : eph_memory[i] = eph_memory[j] => i = j
  BY DEF CacheKept, SlotsKept
<1>4. \A i \in DOMAIN eph_memory : eph_memory[i] \in allocated'
  BY <1>1 DEF CacheKept, SlotsKept
<1>5. \E k \in 0..max_eph' : /\ pc' # "alloc" => k = max_eph'
                             /\ eph_memory' \in [Index(k) -> CacheHandles]
                             /\ DOMAIN eph_memory_rmap' = Index(k)
  BY <1>1
<1> QED
  BY <1>2, <1>3, <1>4, <1>5 DEF SlotsKept

(***************************************************************************)
(* Another thread allocates and frees its own handle, enters and leaves    *)
(* attempts, or touches memory it may not touch.                           *)
(***************************************************************************)
LEMMA WorkKept ==
  ASSUME CacheKept, NEW t \in Threads \ {Main}, Work(t)
  PROVE  CacheKept'
<1>1. UNCHANGED cacheVars
  BY DEF Work
<1>2. LevelsKept' /\ CurKept' /\ DataKept'
  BY <1>1, CacheFrame
<1>3. /\ pc' = pc /\ cur' = cur /\ max_eph' = max_eph /\ eph_memory' = eph_memory
      /\ eph_memory_rmap' = eph_memory_rmap
  BY <1>1 DEF cacheVars, mapVars
<1>4. AttemptsKept /\ MainKept
  BY DEF CacheKept
<1>5. Private[t] \in Handles /\ Main \in Threads /\ Private[t] \notin CacheHandles
  BY PocAssumption DEF CacheHandles
<1>6. frames[t] = IF ctx[t].in_attempt THEN <<ctx[t].handle>> ELSE <<>>
  BY <1>4 DEF AttemptsKept
<1>7. AttemptsKept' /\ ctx'[Main] = ctx[Main]
      /\ \A h \in CacheHandles : h \in allocated => h \in allocated'
  <2>1. CASE frames[t] = <<>> /\ libephmem_alloc(Private[t])
    BY <2>1, <1>4 DEF libephmem_alloc, AttemptsKept
  <2>2. CASE /\ frames[t] = <<>> /\ Private[t] \in allocated
             /\ Free(Private[t])
             /\ UNCHANGED <<ctx, frames, rights, handler, process>>
    <3>1. ~ctx[t].in_attempt
      BY <2>2, <1>6
    <3>2. \A u \in Threads \ {Main} : u # t => Private[u] # Private[t]
      BY PocAssumption
    <3>3. /\ ctx' = ctx /\ frames' = frames /\ rights' = rights
          /\ allocated' = allocated \ {Private[t]}
      BY <2>2 DEF Free
    <3> QED
      BY <3>1, <3>2, <3>3, <1>4, <1>5 DEF AttemptsKept
  <2>3. CASE /\ EnterAttempt(t, Private[t])
             /\ UNCHANGED <<allocated, handler, process, revoked>>
    <3>1. CASE Refused(t)
      BY <2>3, <3>1, <1>4 DEF EnterAttempt, AttemptsKept
    <3>2. CASE ~Refused(t)
      BY <2>3, <3>2, <1>4, <1>5, EnterKept
    <3> QED
      BY <3>1, <3>2
  <2>4. CASE /\ frames[t] # <<>> /\ LeaveAttempt(t)
             /\ UNCHANGED <<allocated, handler, process, revoked>>
    <3>1. ctx[t].in_attempt
      BY <2>4, <1>6
    <3> QED
      BY <2>4, <3>1, <1>4, <1>5, LeaveKept
  <2>5. CASE \E h \in Handles : StrayAccess(t, h)
    BY <2>5, <1>4 DEF StrayAccess, AttemptsKept
  <2> QED
    BY <2>1, <2>2, <2>3, <2>4, <2>5 DEF Work
<1>8. MainKept'
  BY <1>3, <1>4, <1>7 DEF MainKept, EphSlots
<1>9. SlotsKept'
  BY <1>3, <1>7, SlotsFrame
<1> QED
  BY <1>2, <1>7, <1>8, <1>9 DEF CacheKept

(***************************************************************************)
(* Signals, revocations and the end of the process change nothing that the *)
(* invariant is about.                                                     *)
(***************************************************************************)
LEMMA OutsideKept ==
  ASSUME CacheKept, UNCHANGED <<ctx, frames, rights, allocated, cacheVars>>
  PROVE  CacheKept'
<1>1. LevelsKept' /\ CurKept' /\ DataKept'
  BY CacheFrame
<1>2. /\ pc' = pc /\ cur' = cur /\ max_eph' = max_eph /\ eph_memory' = eph_memory
      /\ eph_memory_rmap' = eph_memory_rmap
  BY DEF cacheVars, mapVars
<1>3. AttemptsKept'
  BY DEF CacheKept, AttemptsKept
<1>4. MainKept'
  BY <1>2 DEF CacheKept, MainKept, EphSlots
<1>5. SlotsKept'
  BY <1>2, SlotsFrame
<1> QED
  BY <1>1, <1>3, <1>4, <1>5 DEF CacheKept

-----------------------------------------------------------------------------
(* Steps of Main. *)

(***************************************************************************)
(* The program starts with empty maps and outside an attempt.              *)
(***************************************************************************)
LEMMA InitCache ==
  ASSUME Init PROVE CacheKept
<1>1. /\ max_eph \in Nat /\ pc = "alloc" /\ cur = NoBlock
      /\ main_memory_set = EmptyMap /\ main_memory_rmap = [i \in MainSlots |-> -1]
      /\ eph_memory = EmptyMap /\ eph_memory_set = EmptyMap /\ eph_memory_rmap = EmptyMap
      /\ main_data = [i \in MainSlots |-> -1] /\ eph_data = [h \in Handles |-> -1]
  BY PocAssumption DEF Init
<1>2. AttemptsKept /\ MainKept
  <2>1. AttemptInit /\ Main \in Threads
    BY PocAssumption DEF Init
  <2>2. AttemptsKept
    BY <2>1, AttemptAssumption DEF AttemptInit, AttemptsKept
  <2>3. ~ctx[Main].in_attempt
    BY <2>1 DEF AttemptInit
  <2> QED
    BY <2>2, <2>3, <1>1 DEF MainKept
<1>3. DOMAIN EmptyMap = {} /\ Size(EmptyMap) = 0
  BY FS_EmptySet DEF EmptyMap, Size
<1>4. Index(0) = {} /\ Filled(EmptyMap) = {} /\ Filled([i \in MainSlots |-> -1]) = {}
  BY <1>3 DEF Index, Filled
<1>5. SlotsKept
  <2>1. EmptyMap \in [Index(0) -> CacheHandles]
    BY <1>4 DEF EmptyMap
  <2>2. 0 \in 0..max_eph
    BY <1>1
  <2> QED
    BY <1>1, <1>3, <1>4, <2>1, <2>2 DEF SlotsKept
<1>6. LevelsKept
  <2>1. Level(EmptyMap, EmptyMap)
    BY <1>3, <1>4 DEF Level, EmptyMap
  <2>2. Level(EmptyMap, [i \in MainSlots |-> -1])
    BY <1>3, <1>4 DEF Level, EmptyMap
  <2> QED
    BY <1>1, <1>3, <1>4, <2>1, <2>2 DEF LevelsKept
<1>7. CurKept /\ DataKept
  BY <1>1, <1>3 DEF CurKept, DataKept, NoBlock
<1> QED
  BY <1>2, <1>5, <1>6, <1>7 DEF CacheKept

(***************************************************************************)
(* One more handle for the cache: it gets the next index, which holds no   *)
(* block.                                                                  *)
(***************************************************************************)
LEMMA AllocKept ==
  ASSUME CacheKept, NEW h \in CacheHandles, Alloc(h) PROVE CacheKept'
<1>1. /\ pc = "alloc" /\ pc' = "alloc" /\ max_eph' = max_eph /\ cur' = cur
      /\ main_memory_set' = main_memory_set /\ main_memory_rmap' = main_memory_rmap
      /\ eph_memory_set' = eph_memory_set /\ main_data' = main_data
      /\ eph_memory' = Put(eph_memory, Size(eph_memory), h)
      /\ eph_memory_rmap' = Put(eph_memory_rmap, Size(eph_memory), -1)
      /\ eph_data' = [eph_data EXCEPT ![h] = -1]
      /\ h \notin allocated /\ allocated' = allocated \cup {h}
      /\ ctx' = ctx /\ frames' = frames /\ rights' = rights
      /\ Size(eph_memory) < max_eph
  BY DEF Alloc, libephmem_alloc
<1>2. PICK n \in 0..max_eph : /\ eph_memory \in [Index(n) -> CacheHandles]
                              /\ DOMAIN eph_memory_rmap = Index(n)
  BY DEF CacheKept, SlotsKept
<1>3. max_eph \in Nat
  BY DEF CacheKept, SlotsKept
<1>4. Size(eph_memory) = n
  <2>1. DOMAIN eph_memory = 0..(n - 1)
    BY <1>2 DEF Index
  <2>2. Cardinality(0..(n - 1)) = n
    BY <1>2, <1>3, FS_Interval
  <2> QED
    BY <2>1, <2>2 DEF Size
<1>5. n + 1 \in 0..max_eph /\ n \notin Index(n) /\ Index(n + 1) = Index(n) \cup {n}
  BY <1>1, <1>2, <1>3, <1>4 DEF Index
<1>6. /\ DOMAIN eph_memory' = Index(n + 1) /\ DOMAIN eph_memory_rmap' = Index(n + 1)
      /\ eph_memory'[n] = h /\ eph_memory_rmap'[n] = -1
      /\ \A i \in Index(n) : /\ eph_memory'[i] = eph_memory[i]
                             /\ eph_memory_rmap'[i] = eph_memory_rmap[i]
  BY <1>1, <1>2, <1>4, <1>5 DEF Put
<1>7. AttemptsKept' /\ MainKept'
  <2>1. AttemptsKept'
    BY <1>1 DEF CacheKept, AttemptsKept
  <2> QED
    BY <2>1, <1>1 DEF CacheKept, MainKept
<1>8. SlotsKept'
  <2>1. eph_memory' \in [Index(n + 1) -> CacheHandles]
    BY <1>1, <1>2, <1>4, <1>5 DEF Put
  <2>2. \A i \in DOMAIN eph_memory : eph_memory[i] \in allocated
    BY DEF CacheKept, SlotsKept
  <2>3. \A i, j \in DOMAIN eph_memory : eph_memory[i] = eph_memory[j] => i = j
    BY DEF CacheKept, SlotsKept
  <2>4. \A i \in DOMAIN eph_memory' : eph_memory'[i] \in allocated'
    BY <2>2, <1>1, <1>2, <1>5, <1>6
  <2>5. \A i, j \in DOMAIN eph_memory' : eph_memory'[i] = eph_memory'[j] => i = j
    BY <2>2, <2>3, <1>1, <1>2, <1>5, <1>6
  <2> QED
    BY <2>1, <2>4, <2>5, <1>1, <1>3, <1>5, <1>6 DEF SlotsKept
<1>9. LevelsKept'
  <2>1. /\ Level(main_memory_set, main_memory_rmap) /\ Level(eph_memory_set, eph_memory_rmap)
        /\ DOMAIN main_memory_rmap = MainSlots
        /\ DOMAIN main_memory_set = {} /\ DOMAIN eph_memory_set = {}
        /\ Filled(main_memory_rmap) = Index(Size(main_memory_set))
        /\ Filled(eph_memory_rmap) = Index(Size(eph_memory_set))
    BY <1>1 DEF CacheKept, LevelsKept
  <2>2. eph_memory_rmap' \in [Index(n + 1) -> Blocks \cup {-1}]
    BY <2>1, <1>1, <1>2, <1>4, <1>5 DEF Put, Level
  <2>3. Filled(eph_memory_rmap') = Filled(eph_memory_rmap)
    BY <1>2, <1>5, <1>6 DEF Filled
  <2>4. Filled(eph_memory_rmap) = {}
    BY <2>1 DEF Level
  <2>5. Level(eph_memory_set, eph_memory_rmap')
    BY <2>1, <2>2, <2>3, <2>4, <1>6 DEF Level
  <2>6. Level(eph_memory_set, eph_memory_rmap)' /\ Filled(eph_memory_rmap)' = Index(Size(eph_memory_set))'
    BY <2>1, <2>3, <2>5, <1>1 DEF Level, Filled, Size, Index
  <2>7. Level(main_memory_set, main_memory_rmap)'
          /\ Filled(main_memory_rmap)' = Index(Size(main_memory_set))'
    BY <2>1, <1>1 DEF Level, Filled, Size, Index
  <2> QED
    BY <2>1, <2>6, <2>7, <1>1 DEF LevelsKept
<1>10. CurKept' /\ DataKept'
  <2>1. DOMAIN main_memory_set = {} /\ DOMAIN eph_memory_set = {}
    BY <1>1 DEF CacheKept, LevelsKept
  <2>2. CurKept'
    BY <1>1 DEF CacheKept, CurKept
  <2>3. h \in Handles
    BY DEF CacheHandles
  <2>4. DataKept'
    BY <2>1, <2>3, <1>1 DEF CacheKept, DataKept
  <2> QED
    BY <2>2, <2>4
<1> QED
  BY <1>7, <1>8, <1>9, <1>10 DEF CacheKept

(***************************************************************************)
(* All handles are allocated.                                              *)
(***************************************************************************)
LEMMA AllocDoneKept ==
  ASSUME CacheKept, AllocDone PROVE CacheKept'
<1>1. /\ pc = "alloc" /\ pc' = "loop" /\ Size(eph_memory) = max_eph
      /\ max_eph' = max_eph /\ cur' = cur
      /\ main_memory_set' = main_memory_set /\ main_memory_rmap' = main_memory_rmap
      /\ eph_memory_set' = eph_memory_set /\ eph_memory_rmap' = eph_memory_rmap
      /\ eph_memory' = eph_memory /\ main_data' = main_data /\ eph_data' = eph_data
      /\ ctx' = ctx /\ frames' = frames /\ rights' = rights /\ allocated' = allocated
  BY DEF AllocDone, attemptVars, mapVars, dataVars
<1>2. PICK n \in 0..max_eph : /\ eph_memory \in [Index(n) -> CacheHandles]
                              /\ DOMAIN eph_memory_rmap = Index(n)
  BY DEF CacheKept, SlotsKept
<1>3. max_eph \in Nat
  BY DEF CacheKept, SlotsKept
<1>4. n = max_eph
  <2>1. DOMAIN eph_memory = 0..(n - 1)
    BY <1>2 DEF Index
  <2>2. Cardinality(0..(n - 1)) = n
    BY <1>2, <1>3, FS_Interval
  <2> QED
    BY <2>1, <2>2, <1>1 DEF Size
<1>5. SlotsKept'
  <2>1. /\ \A i \in DOMAIN eph_memory : eph_memory[i] \in allocated
        /\ \A i, j \in DOMAIN eph_memory : eph_memory[i] = eph_memory[j] => i = j
    BY DEF CacheKept, SlotsKept
  <2> QED
    BY <2>1, <1>1, <1>2, <1>3, <1>4 DEF SlotsKept
<1>6. AttemptsKept' /\ MainKept'
  BY <1>1 DEF CacheKept, AttemptsKept, MainKept
<1>7. LevelsKept'
  BY <1>1 DEF CacheKept, LevelsKept, Level, Filled, Size, Index
<1>8. CurKept' /\ DataKept'
  BY <1>1 DEF CacheKept, CurKept, DataKept
<1> QED
  BY <1>5, <1>6, <1>7, <1>8 DEF CacheKept

(***************************************************************************)
(* Main memory stays as it is if its two maps do not change.               *)
(***************************************************************************)
LEMMA MainSame ==
  ASSUME UNCHANGED <<main_memory_set, main_memory_rmap>>
  PROVE  /\ Level(main_memory_set, main_memory_rmap)' = Level(main_memory_set, main_memory_rmap)
         /\ Filled(main_memory_rmap)' = Filled(main_memory_rmap)
         /\ Size(main_memory_set)' = Size(main_memory_set)
BY DEF Level, Filled, Size

(***************************************************************************)
(* The same for ephemeral memory.                                          *)
(***************************************************************************)
LEMMA EphSame ==
  ASSUME UNCHANGED <<eph_memory_set, eph_memory_rmap>>
  PROVE  /\ Level(eph_memory_set, eph_memory_rmap)' = Level(eph_memory_set, eph_memory_rmap)
         /\ Filled(eph_memory_rmap)' = Filled(eph_memory_rmap)
         /\ Size(eph_memory_set)' = Size(eph_memory_set)
BY DEF Level, Filled, Size

(***************************************************************************)
(* From the end of the allocation on, all slots are there.                 *)
(***************************************************************************)
LEMMA AllSlots ==
  ASSUME CacheKept, pc # "alloc"
  PROVE  /\ max_eph \in Nat /\ eph_memory \in [EphSlots -> CacheHandles]
         /\ DOMAIN eph_memory_rmap = EphSlots /\ EphSlots = Index(max_eph)
         /\ \A i \in EphSlots : eph_memory[i] \in allocated /\ eph_memory[i] \in Handles
         /\ \A i, j \in EphSlots : eph_memory[i] = eph_memory[j] => i = j
<1>1. /\ max_eph \in Nat /\ eph_memory \in [EphSlots -> CacheHandles]
      /\ DOMAIN eph_memory_rmap = EphSlots /\ EphSlots = Index(max_eph)
  BY DEF CacheKept, SlotsKept, EphSlots, Index
<1>2. DOMAIN eph_memory = EphSlots
  BY <1>1
<1>3. \A i \in EphSlots : eph_memory[i] \in allocated
  BY <1>2 DEF CacheKept, SlotsKept
<1>4. \A i, j \in EphSlots : eph_memory[i] = eph_memory[j] => i = j
  BY <1>2 DEF CacheKept, SlotsKept
<1>5. \A i \in EphSlots : eph_memory[i] \in Handles
  BY <1>1 DEF CacheHandles
<1> QED
  BY <1>1, <1>3, <1>4, <1>5

(***************************************************************************)
(* A hit in ephemeral memory: Main enters an attempt on the block's slot.  *)
(***************************************************************************)
LEMMA EphHitKept ==
  ASSUME CacheKept, NEW b \in Blocks, EphHit(b) PROVE CacheKept'
<1>1. /\ pc = "loop" /\ pc' = "sum" /\ max_eph' = max_eph
      /\ cur' = [NoBlock EXCEPT !.block_id = b, !.eph_mem_index = eph_memory_set[b]]
      /\ main_memory_set' = main_memory_set /\ main_memory_rmap' = main_memory_rmap
      /\ eph_memory_set' = eph_memory_set /\ eph_memory_rmap' = eph_memory_rmap
      /\ eph_memory' = eph_memory /\ main_data' = main_data /\ eph_data' = eph_data
      /\ allocated' = allocated /\ b \in DOMAIN eph_memory_set
      /\ ~Refused(Main) /\ EnterAttempt(Main, eph_memory[eph_memory_set[b]])
  BY DEF EphHit, mapVars, dataVars
<1>2. eph_memory_set[b] \in EphSlots
  BY <1>1, AllSlots DEF CacheKept, LevelsKept, Level
<1>3. cur'.block_id = b /\ cur'.eph_mem_index = eph_memory_set[b]
      /\ cur' \in [block_id : Int, main_mem_index : Int, eph_mem_index : Int, evict_block_id : Int]
  <2>1. max_eph \in Nat
    BY DEF CacheKept, SlotsKept
  <2>2. b \in Int /\ eph_memory_set[b] \in Int
    BY <2>1, <1>2, PocAssumption DEF Blocks, EphSlots
  <2>3. cur' = [block_id |-> b, main_mem_index |-> -1, eph_mem_index |-> eph_memory_set[b],
                evict_block_id |-> -1]
    BY <1>1 DEF NoBlock
  <2> QED
    BY <2>2, <2>3
<1>4. Main \in Threads /\ eph_memory[eph_memory_set[b]] \in Handles
  BY <1>1, <1>2, AllSlots, PocAssumption
<1>5. AttemptsKept' /\ ctx'[Main] = [in_attempt |-> TRUE, handle |-> eph_memory[eph_memory_set[b]]]
  <2> DEFINE h == eph_memory[eph_memory_set[b]]
  <2>1. AttemptsKept /\ ~Refused(Main) /\ EnterAttempt(Main, h) /\ allocated' = allocated
        /\ h \in Handles /\ Main \in Threads
    BY <1>1, <1>4 DEF CacheKept
  <2> HIDE DEF h
  <2>2. PICK k \in Handles : k = h
    BY <2>1
  <2>3. EnterAttempt(Main, k)
    BY <2>1, <2>2
  <2>4. AttemptsKept' /\ ctx'[Main] = [in_attempt |-> TRUE, handle |-> k]
    BY <2>1, <2>3, EnterKept
  <2> QED
    BY <2>2, <2>4 DEF h
<1>6. MainKept'
  BY <1>1, <1>2, <1>3, <1>5 DEF MainKept, EphSlots
<1>7. SlotsKept'
  BY <1>1, SlotsFrame
<1>8. LevelsKept'
  BY <1>1, MainSame, EphSame DEF CacheKept, LevelsKept, Index
<1>9. CurKept' /\ DataKept'
  BY <1>1, <1>3 DEF CacheKept, CurKept, DataKept
<1> QED
  BY <1>5, <1>6, <1>7, <1>8, <1>9 DEF CacheKept

(***************************************************************************)
(* A block that is in neither map.                                         *)
(***************************************************************************)
LEMMA MissKept ==
  ASSUME CacheKept, NEW b \in Blocks, Miss(b) PROVE CacheKept'
<1>1. /\ pc = "loop" /\ pc' = "miss" /\ max_eph' = max_eph
      /\ cur' = [NoBlock EXCEPT !.block_id = b]
      /\ main_memory_set' = main_memory_set /\ main_memory_rmap' = main_memory_rmap
      /\ eph_memory_set' = eph_memory_set /\ eph_memory_rmap' = eph_memory_rmap
      /\ eph_memory' = eph_memory /\ main_data' = main_data /\ eph_data' = eph_data
      /\ ctx' = ctx /\ frames' = frames /\ rights' = rights /\ allocated' = allocated
      /\ b \notin DOMAIN main_memory_set /\ b \notin DOMAIN eph_memory_set
  BY DEF Miss, mapVars, dataVars, attemptVars
<1>2. cur'.block_id = b
      /\ cur' \in [block_id : Int, main_mem_index : Int, eph_mem_index : Int, evict_block_id : Int]
  BY <1>1 DEF NoBlock, Blocks
<1>3. AttemptsKept' /\ MainKept'
  BY <1>1 DEF CacheKept, AttemptsKept, MainKept
<1>4. SlotsKept'
  BY <1>1, SlotsFrame
<1>5. LevelsKept'
  BY <1>1, MainSame, EphSame DEF CacheKept, LevelsKept, Index
<1>6. CurKept' /\ DataKept'
  BY <1>1, <1>2 DEF CacheKept, CurKept, DataKept
<1> QED
  BY <1>3, <1>4, <1>5, <1>6 DEF CacheKept

(***************************************************************************)
(* The block was summed, and the attempt ends.                             *)
(***************************************************************************)
LEMMA SumDoneKept ==
  ASSUME CacheKept, SumDone PROVE CacheKept'
<1>1. /\ pc = "sum" /\ pc' = "loop" /\ cur' = NoBlock /\ max_eph' = max_eph
      /\ main_memory_set' = main_memory_set /\ main_memory_rmap' = main_memory_rmap
      /\ eph_memory_set' = eph_memory_set /\ eph_memory_rmap' = eph_memory_rmap
      /\ eph_memory' = eph_memory /\ main_data' = main_data /\ eph_data' = eph_data
      /\ allocated' = allocated /\ LeaveAttempt(Main)
  BY DEF SumDone, Accessed, mapVars, dataVars
<1>2. ctx[Main].in_attempt /\ Main \in Threads /\ AttemptsKept
  BY <1>1, PocAssumption DEF CacheKept, MainKept
<1>3. AttemptsKept' /\ ~ctx'[Main].in_attempt
  BY <1>1, <1>2, LeaveKept
<1>4. MainKept'
  BY <1>1, <1>3 DEF MainKept
<1>5. SlotsKept'
  BY <1>1, SlotsFrame
<1>6. LevelsKept'
  BY <1>1, MainSame, EphSame DEF CacheKept, LevelsKept, Index
<1>7. CurKept' /\ DataKept'
  BY <1>1 DEF CacheKept, CurKept, DataKept, NoBlock
<1> QED
  BY <1>3, <1>4, <1>5, <1>6, <1>7 DEF CacheKept

(***************************************************************************)
(* While main memory has room, the index at the size of the map is free.   *)
(***************************************************************************)
LEMMA UseFreeSlotKept ==
  ASSUME CacheKept, UseFreeSlot PROVE CacheKept'
<1>1. /\ pc = "miss" /\ pc' = "read" /\ max_eph' = max_eph
      /\ cur' = [cur EXCEPT !.main_mem_index = Size(main_memory_set)]
      /\ Size(main_memory_set) < max_main_memory_blocks
      /\ main_memory_set' = main_memory_set /\ main_memory_rmap' = main_memory_rmap
      /\ eph_memory_set' = eph_memory_set /\ eph_memory_rmap' = eph_memory_rmap
      /\ eph_memory' = eph_memory /\ main_data' = main_data /\ eph_data' = eph_data
      /\ ctx' = ctx /\ frames' = frames /\ rights' = rights /\ allocated' = allocated
  BY DEF UseFreeSlot, MainHasRoom, mapVars, dataVars, attemptVars
<1>2. /\ Level(main_memory_set, main_memory_rmap)
      /\ Filled(main_memory_rmap) = Index(Size(main_memory_set))
  BY <1>1 DEF CacheKept, LevelsKept
<1>3. Size(main_memory_set) \in Nat
  BY <1>2, LevelSize
<1>4. /\ cur'.main_mem_index = Size(main_memory_set) /\ cur'.block_id = cur.block_id
      /\ cur' \in [block_id : Int, main_mem_index : Int, eph_mem_index : Int, evict_block_id : Int]
  BY <1>1, <1>3 DEF CacheKept, CurKept
<1>5. /\ Size(main_memory_set) \in MainSlots \ Filled(main_memory_rmap)
      /\ Filled(main_memory_rmap) \cup {Size(main_memory_set)} = 0..Size(main_memory_set)
  BY <1>1, <1>2, <1>3, PocAssumption DEF MainSlots, Index
<1>6. AttemptsKept' /\ MainKept'
  BY <1>1 DEF CacheKept, AttemptsKept, MainKept
<1>7. SlotsKept'
  BY <1>1, SlotsFrame
<1>8. LevelsKept'
  BY <1>1, <1>4, <1>5, MainSame, EphSame DEF CacheKept, LevelsKept, Index
<1>9. CurKept' /\ DataKept'
  BY <1>1, <1>4 DEF CacheKept, CurKept, DataKept
<1> QED
  BY <1>6, <1>7, <1>8, <1>9 DEF CacheKept

(***************************************************************************)
(* The block is read from disk to the index chosen for it.                 *)
(***************************************************************************)
LEMMA FillKept ==
  ASSUME CacheKept, Fill PROVE CacheKept'
<1> DEFINE b == cur.block_id
           i == cur.main_mem_index
<1>1. /\ pc = "read" /\ pc' = "loop" /\ max_eph' = max_eph /\ cur' = NoBlock
      /\ main_data' = [main_data EXCEPT ![i] = b]
      /\ main_memory_set' = Put(main_memory_set, b, i)
      /\ main_memory_rmap' = [main_memory_rmap EXCEPT ![i] = b]
      /\ eph_memory_set' = eph_memory_set /\ eph_memory_rmap' = eph_memory_rmap
      /\ eph_memory' = eph_memory /\ eph_data' = eph_data
      /\ ctx' = ctx /\ frames' = frames /\ rights' = rights /\ allocated' = allocated
  BY DEF Fill, attemptVars
<1>2. /\ Level(main_memory_set, main_memory_rmap)
      /\ DOMAIN main_memory_rmap = MainSlots
      /\ i \in MainSlots \ Filled(main_memory_rmap)
      /\ Filled(main_memory_rmap) \cup {i} = 0..Size(main_memory_set)
      /\ DOMAIN main_memory_set \cap DOMAIN eph_memory_set = {}
  BY <1>1 DEF CacheKept, LevelsKept
<1>3. b \in Blocks /\ b \notin DOMAIN main_memory_set /\ b \notin DOMAIN eph_memory_set
  BY <1>1 DEF CacheKept, CurKept
<1> HIDE DEF b, i
<1>4. /\ Level(main_memory_set', main_memory_rmap')
      /\ DOMAIN main_memory_set' = DOMAIN main_memory_set \cup {b}
      /\ DOMAIN main_memory_rmap' = MainSlots
      /\ Filled(main_memory_rmap') = Filled(main_memory_rmap) \cup {i}
      /\ Size(main_memory_set') = Size(main_memory_set) + 1
      /\ main_memory_set'[b] = i
      /\ \A x \in DOMAIN main_memory_set : main_memory_set'[x] = main_memory_set[x]
  <2>1. /\ b \in Blocks \ DOMAIN main_memory_set
        /\ i \in DOMAIN main_memory_rmap \ Filled(main_memory_rmap)
    BY <1>2, <1>3
  <2>2. PICK c \in Blocks \ DOMAIN main_memory_set : c = b
    BY <2>1
  <2>3. PICK j \in DOMAIN main_memory_rmap \ Filled(main_memory_rmap) : j = i
    BY <2>1
  <2>4. /\ main_memory_set' = Put(main_memory_set, c, j)
        /\ main_memory_rmap' = SetAt(main_memory_rmap, j, c)
    BY <2>2, <2>3, <1>1 DEF SetAt
  <2>5. Level(main_memory_set, main_memory_rmap)
    BY <1>2
  <2>6. PutAt(main_memory_set, main_memory_rmap, c, j, main_memory_set', main_memory_rmap')
    BY <2>4, <2>5, PutLevel
  <2> QED
    BY <2>2, <2>3, <2>6, <1>2 DEF PutAt
<1>5. Size(main_memory_set) \in Nat
  BY <1>2, LevelSize
<1>6. Filled(main_memory_rmap') = Index(Size(main_memory_set'))
  BY <1>2, <1>4, <1>5 DEF Index
<1>7. AttemptsKept' /\ MainKept'
  BY <1>1 DEF CacheKept, AttemptsKept, MainKept
<1>8. SlotsKept'
  BY <1>1, SlotsFrame
<1>9. LevelsKept'
  <2>1. /\ Level(main_memory_set, main_memory_rmap)'
        /\ Filled(main_memory_rmap)' = Index(Size(main_memory_set))'
    BY <1>4, <1>6 DEF Level, Filled, Size, Index
  <2>2. /\ Level(eph_memory_set, eph_memory_rmap)
        /\ Filled(eph_memory_rmap) = Index(Size(eph_memory_set))
    BY <1>1 DEF CacheKept, LevelsKept
  <2>3. /\ Level(eph_memory_set, eph_memory_rmap)'
        /\ Filled(eph_memory_rmap)' = Index(Size(eph_memory_set))'
    BY <1>1, <2>2 DEF Level, Filled, Size, Index
  <2>4. DOMAIN main_memory_set' \cap DOMAIN eph_memory_set' = {}
    BY <1>1, <1>2, <1>3, <1>4
  <2> QED
    BY <1>1, <1>4, <2>1, <2>3, <2>4 DEF LevelsKept
<1>10. CurKept' /\ DataKept'
  <2>1. /\ main_data \in [MainSlots -> Blocks \cup {-1}] /\ eph_data \in [Handles -> Blocks \cup {-1}]
        /\ \A x \in DOMAIN main_memory_set : main_data[main_memory_set[x]] = x
        /\ \A x \in DOMAIN eph_memory_set : eph_data[eph_memory[eph_memory_set[x]]] = x
    BY DEF CacheKept, DataKept
  <2>2. \A x \in DOMAIN main_memory_set : main_memory_set[x] \in MainSlots /\ main_memory_set[x] # i
    <3> SUFFICES ASSUME NEW x \in DOMAIN main_memory_set
                 PROVE  main_memory_set[x] \in MainSlots /\ main_memory_set[x] # i
      OBVIOUS
    <3>1. main_memory_set[x] \in MainSlots /\ main_memory_rmap[main_memory_set[x]] = x /\ x \in Blocks
      BY <1>2 DEF Level
    <3>2. x # -1
      BY <3>1, PocAssumption DEF Blocks
    <3>3. main_memory_set[x] \in Filled(main_memory_rmap)
      BY <3>1, <3>2, <1>2 DEF Filled
    <3> QED
      BY <3>1, <3>3, <1>2
  <2>3. \A x \in DOMAIN main_memory_set' : main_data'[main_memory_set'[x]] = x
    BY <2>1, <2>2, <1>1, <1>2, <1>3, <1>4
  <2>4. main_data' \in [MainSlots -> Blocks \cup {-1}]
    BY <2>1, <1>1, <1>2, <1>3
  <2>5. DataKept'
    BY <2>1, <2>3, <2>4, <1>1 DEF DataKept
  <2>6. CurKept'
    BY <1>1 DEF CurKept, NoBlock
  <2> QED
    BY <2>5, <2>6
<1> QED
  BY <1>7, <1>8, <1>9, <1>10 DEF CacheKept

(***************************************************************************)
(* Outside an eviction a level without room has a block at every index,    *)
(* and a level with room none from the size of its map on.                 *)
(***************************************************************************)
LEMMA FullLevels ==
  ASSUME CacheKept, pc \in {"loop", "sum", "miss"}
  PROVE  /\ Size(main_memory_set) \in Nat /\ Size(eph_memory_set) \in Nat
         /\ Size(main_memory_set) <= max_main_memory_blocks
         /\ Size(eph_memory_set) <= max_eph
         /\ ~MainHasRoom => /\ Filled(main_memory_rmap) = MainSlots
                            /\ Size(main_memory_set) = max_main_memory_blocks
         /\ ~EphHasRoom => /\ Filled(eph_memory_rmap) = EphSlots
                           /\ Size(eph_memory_set) = max_eph
<1>1. /\ Level(main_memory_set, main_memory_rmap) /\ Level(eph_memory_set, eph_memory_rmap)
      /\ DOMAIN main_memory_rmap = MainSlots
      /\ Filled(main_memory_rmap) = Index(Size(main_memory_set))
      /\ Filled(eph_memory_rmap) = Index(Size(eph_memory_set))
  BY DEF CacheKept, LevelsKept
<1>2. Size(main_memory_set) \in Nat /\ Size(eph_memory_set) \in Nat
  BY <1>1, LevelSize
<1>3. max_eph \in Nat /\ DOMAIN eph_memory_rmap = Index(max_eph) /\ EphSlots = Index(max_eph)
  BY AllSlots
<1>4. MainSlots = Index(max_main_memory_blocks) /\ max_main_memory_blocks \in Nat
  BY PocAssumption DEF MainSlots, Index
<1>5. ASSUME NEW s \in Nat, NEW n \in Nat, Index(s) \subseteq Index(n)
      PROVE  s <= n
  <2> SUFFICES ASSUME s > n PROVE FALSE
    BY <1>5
  <2>1. n \in Index(s) /\ n \notin Index(n)
    BY <1>5 DEF Index
  <2> QED
    BY <2>1, <1>5
<1>6. Index(Size(main_memory_set)) \subseteq Index(max_main_memory_blocks)
  BY <1>1, <1>4 DEF Filled
<1>7. Index(Size(eph_memory_set)) \subseteq Index(max_eph)
  BY <1>1, <1>3 DEF Filled
<1>8. Size(main_memory_set) <= max_main_memory_blocks
  <2>1. PICK s \in Nat : s = Size(main_memory_set)
    BY <1>2
  <2> QED
    BY <2>1, <1>4, <1>5, <1>6
<1>9. Size(eph_memory_set) <= max_eph
  <2>1. PICK s \in Nat : s = Size(eph_memory_set)
    BY <1>2
  <2>2. PICK n \in Nat : n = max_eph
    BY <1>3
  <2>3. Index(s) \subseteq Index(n)
    BY <2>1, <2>2, <1>7
  <2>4. s <= n
    BY <2>3, <1>5
  <2> QED
    BY <2>1, <2>2, <2>4
<1>10. ~MainHasRoom => Size(main_memory_set) = max_main_memory_blocks
  BY <1>2, <1>4, <1>8 DEF MainHasRoom
<1>11. ~EphHasRoom => Size(eph_memory_set) = max_eph
  BY <1>2, <1>3, <1>9 DEF EphHasRoom
<1> QED
  BY <1>1, <1>2, <1>3, <1>4, <1>8, <1>9, <1>10, <1>11

(***************************************************************************)
(* EraseLevel for main memory.                                             *)
(***************************************************************************)
LEMMA EraseMain ==
  ASSUME Level(main_memory_set, main_memory_rmap), NEW i \in Filled(main_memory_rmap),
         NEW b, b = main_memory_rmap[i],
         main_memory_set' = Erase(main_memory_set, b),
         main_memory_rmap' = SetAt(main_memory_rmap, i, -1)
  PROVE  ErasedAt(main_memory_set, main_memory_rmap, b, i, main_memory_set', main_memory_rmap')
BY EraseLevel

(***************************************************************************)
(* The block at index i leaves main memory.                                *)
(***************************************************************************)
LEMMA MainEvicted ==
  ASSUME CacheKept, NEW i \in MainSlots, MustEvict(i), main_memory_rmap[i] # -1,
         NEW b, b = main_memory_rmap[i],
         main_memory_set' = Erase(main_memory_set, b),
         main_memory_rmap' = SetAt(main_memory_rmap, i, -1)
  PROVE  /\ Level(main_memory_set, main_memory_rmap)'
         /\ DOMAIN main_memory_set' = DOMAIN main_memory_set \ {b}
         /\ DOMAIN main_memory_rmap' = MainSlots
         /\ i \notin Filled(main_memory_rmap)'
         /\ Filled(main_memory_rmap)' \cup {i} = 0..Size(main_memory_set)'
         /\ b \in Blocks /\ b \in DOMAIN main_memory_set
         /\ main_memory_set[b] = i
         /\ \A x \in DOMAIN main_memory_set' : main_memory_set'[x] = main_memory_set[x]
<1>1. /\ Level(main_memory_set, main_memory_rmap) /\ DOMAIN main_memory_rmap = MainSlots
  BY DEF CacheKept, LevelsKept
<1>2. /\ Filled(main_memory_rmap) = MainSlots /\ Size(main_memory_set) = max_main_memory_blocks
      /\ Size(main_memory_set) \in Nat
  BY FullLevels DEF MustEvict
<1>3. i \in Filled(main_memory_rmap) /\ main_memory_set[b] = i
  BY <1>1, <1>2 DEF Level
<1>4. ErasedAt(main_memory_set, main_memory_rmap, b, i, main_memory_set', main_memory_rmap')
  BY <1>1, <1>3, EraseMain
<1>5. Level(main_memory_set', main_memory_rmap')
  BY <1>4 DEF ErasedAt
<1>6. /\ DOMAIN main_memory_set' = DOMAIN main_memory_set \ {b}
      /\ DOMAIN main_memory_rmap' = DOMAIN main_memory_rmap
      /\ Filled(main_memory_rmap') = Filled(main_memory_rmap) \ {i}
      /\ Size(main_memory_set') = Size(main_memory_set) - 1
      /\ b \in Blocks /\ b \in DOMAIN main_memory_set
      /\ \A x \in DOMAIN main_memory_set' : main_memory_set'[x] = main_memory_set[x]
  BY <1>4 DEF ErasedAt
<1>7. Filled(main_memory_rmap') \cup {i} = 0..Size(main_memory_set')
  BY <1>2, <1>6 DEF MainSlots
<1>8. /\ Level(main_memory_set, main_memory_rmap)' = Level(main_memory_set', main_memory_rmap')
      /\ Filled(main_memory_rmap)' = Filled(main_memory_rmap')
      /\ Size(main_memory_set)' = Size(main_memory_set')
  BY DEF Level, Filled, Size
<1> QED
  BY <1>1, <1>3, <1>5, <1>6, <1>7, <1>8

(***************************************************************************)
(* Without ephemeral memory the evicted block is dropped.                  *)
(***************************************************************************)
LEMMA EvictDropKept ==
  ASSUME CacheKept, NEW i \in MainSlots, EvictDrop(i) PROVE CacheKept'
<1>1. /\ pc = "miss" /\ pc' = "read" /\ max_eph' = max_eph
      /\ cur' = [cur EXCEPT !.main_mem_index = i]
      /\ MustEvict(i) /\ main_memory_rmap[i] # -1
      /\ main_memory_set' = Erase(main_memory_set, main_memory_rmap[i])
      /\ main_memory_rmap' = SetAt(main_memory_rmap, i, -1)
      /\ eph_memory_set' = eph_memory_set /\ eph_memory_rmap' = eph_memory_rmap
      /\ eph_memory' = eph_memory /\ main_data' = main_data /\ eph_data' = eph_data
      /\ ctx' = ctx /\ frames' = frames /\ rights' = rights /\ allocated' = allocated
  BY DEF EvictDrop, MustEvict, SetAt, attemptVars, dataVars
<1>b. PICK b : b = main_memory_rmap[i]
  OBVIOUS
<1>2. /\ Level(main_memory_set, main_memory_rmap)'
      /\ DOMAIN main_memory_set' = DOMAIN main_memory_set \ {b}
      /\ DOMAIN main_memory_rmap' = MainSlots
      /\ i \notin Filled(main_memory_rmap)'
      /\ Filled(main_memory_rmap)' \cup {i} = 0..Size(main_memory_set)'
      /\ \A x \in DOMAIN main_memory_set' : main_memory_set'[x] = main_memory_set[x]
  <2>1. main_memory_set' = Erase(main_memory_set, b)
    BY <1>1, <1>b
  <2> QED
    BY <2>1, <1>1, <1>b, MainEvicted
<1>3. /\ cur'.main_mem_index = i /\ cur'.block_id = cur.block_id
      /\ cur' \in [block_id : Int, main_mem_index : Int, eph_mem_index : Int, evict_block_id : Int]
  BY <1>1, PocAssumption DEF CacheKept, CurKept, MainSlots
<1>4. AttemptsKept' /\ MainKept'
  BY <1>1 DEF CacheKept, AttemptsKept, MainKept
<1>5. SlotsKept'
  BY <1>1, SlotsFrame
<1>6. LevelsKept'
  <2>1. /\ Level(eph_memory_set, eph_memory_rmap)
        /\ Filled(eph_memory_rmap) = Index(Size(eph_memory_set))
        /\ DOMAIN main_memory_set \cap DOMAIN eph_memory_set = {}
    BY <1>1 DEF CacheKept, LevelsKept
  <2>2. /\ Level(eph_memory_set, eph_memory_rmap)'
        /\ Filled(eph_memory_rmap)' = Index(Size(eph_memory_set))'
    BY <1>1, <2>1 DEF Level, Filled, Size, Index
  <2>3. DOMAIN main_memory_set' \cap DOMAIN eph_memory_set' = {}
    BY <1>1, <1>2, <2>1
  <2> QED
    BY <1>1, <1>2, <1>3, <2>2, <2>3 DEF LevelsKept
<1>7. CurKept'
  BY <1>1, <1>2, <1>3 DEF CacheKept, CurKept
<1>8. DataKept'
  BY <1>1, <1>2 DEF CacheKept, DataKept
<1> QED
  BY <1>4, <1>5, <1>6, <1>7, <1>8 DEF CacheKept

(***************************************************************************)
(* EraseLevel for ephemeral memory.                                        *)
(***************************************************************************)
LEMMA EraseEph ==
  ASSUME Level(eph_memory_set, eph_memory_rmap), NEW i \in Filled(eph_memory_rmap),
         NEW b, b = eph_memory_rmap[i],
         eph_memory_set' = Erase(eph_memory_set, b),
         eph_memory_rmap' = SetAt(eph_memory_rmap, i, -1)
  PROVE  ErasedAt(eph_memory_set, eph_memory_rmap, b, i, eph_memory_set', eph_memory_rmap')
BY EraseLevel

(***************************************************************************)
(* The index of ephemeral memory chosen for an evicted block is emptied,   *)
(* if it is not free already.                                              *)
(***************************************************************************)
LEMMA EphEvicted ==
  ASSUME CacheKept, pc = "miss", max_eph' = max_eph,
         NEW j \in EphSlots, j \in NextEphIndex, NEW b, b = eph_memory_rmap[j],
         EphHasRoom \/ b # -1,
         eph_memory_set' = IF EphHasRoom THEN eph_memory_set ELSE Erase(eph_memory_set, b),
         eph_memory_rmap' = IF EphHasRoom THEN eph_memory_rmap
                            ELSE SetAt(eph_memory_rmap, j, -1)
  PROVE  /\ Level(eph_memory_set, eph_memory_rmap)'
         /\ DOMAIN eph_memory_set' \subseteq DOMAIN eph_memory_set
         /\ DOMAIN eph_memory_rmap' = DOMAIN eph_memory_rmap
         /\ j \notin Filled(eph_memory_rmap)'
         /\ Filled(eph_memory_rmap)' \cup {j} = 0..Size(eph_memory_set)'
         /\ \A x \in DOMAIN eph_memory_set' : eph_memory_set'[x] = eph_memory_set[x]
<1>1. /\ Level(eph_memory_set, eph_memory_rmap)
      /\ Filled(eph_memory_rmap) = Index(Size(eph_memory_set))
  BY DEF CacheKept, LevelsKept
<1>2. /\ Size(eph_memory_set) \in Nat /\ max_eph \in Nat
      /\ ~EphHasRoom => Filled(eph_memory_rmap) = EphSlots /\ Size(eph_memory_set) = max_eph
  BY FullLevels, AllSlots
<1>3. /\ Level(eph_memory_set, eph_memory_rmap)' = Level(eph_memory_set', eph_memory_rmap')
      /\ Filled(eph_memory_rmap)' = Filled(eph_memory_rmap')
      /\ Size(eph_memory_set)' = Size(eph_memory_set')
  BY DEF Level, Filled, Size
<1>4. CASE EphHasRoom
  <2>1. eph_memory_set' = eph_memory_set /\ eph_memory_rmap' = eph_memory_rmap
    BY <1>4
  <2>2. j = Size(eph_memory_set)
    BY <1>4 DEF NextEphIndex
  <2>3. j \notin Index(Size(eph_memory_set))
        /\ Index(Size(eph_memory_set)) \cup {j} = 0..Size(eph_memory_set)
    BY <2>2, <1>2 DEF Index
  <2> QED
    BY <2>1, <2>3, <1>1, <1>3
<1>5. CASE ~EphHasRoom
  <2>1. eph_memory_set' = Erase(eph_memory_set, b) /\ eph_memory_rmap' = SetAt(eph_memory_rmap, j, -1)
    BY <1>5
  <2>2. j \in Filled(eph_memory_rmap) /\ Filled(eph_memory_rmap) = EphSlots
        /\ Size(eph_memory_set) = max_eph
    BY <1>2, <1>5
  <2>3. /\ Level(eph_memory_set', eph_memory_rmap')
        /\ DOMAIN eph_memory_set' = DOMAIN eph_memory_set \ {b}
        /\ DOMAIN eph_memory_rmap' = DOMAIN eph_memory_rmap
        /\ Filled(eph_memory_rmap') = Filled(eph_memory_rmap) \ {j}
        /\ Size(eph_memory_set') = Size(eph_memory_set) - 1
        /\ \A x \in DOMAIN eph_memory_set' : eph_memory_set'[x] = eph_memory_set[x]
    BY <2>1, <2>2, <1>1, EraseEph DEF ErasedAt
  <2>4. Filled(eph_memory_rmap') \cup {j} = 0..Size(eph_memory_set')
    BY <2>2, <2>3, <1>2 DEF EphSlots
  <2> QED
    BY <2>3, <2>4, <1>3
<1> QED
  BY <1>4, <1>5

(***************************************************************************)
(* A block is taken from main memory to be copied to ephemeral memory.     *)
(***************************************************************************)
LEMMA EvictKept ==
  ASSUME CacheKept, NEW i \in MainSlots, NEW j \in EphSlots, Evict(i, j) PROVE CacheKept'
<1>b. PICK b : b = main_memory_rmap[i]
  OBVIOUS
<1>c. PICK c : c = eph_memory_rmap[j]
  OBVIOUS
<1>1. /\ pc = "miss" /\ pc' = "put" /\ max_eph' = max_eph
      /\ cur' = [cur EXCEPT !.main_mem_index = i, !.eph_mem_index = j, !.evict_block_id = b]
      /\ MustEvict(i) /\ b # -1 /\ j \in NextEphIndex
      /\ EphHasRoom \/ c # -1
      /\ eph_memory' = eph_memory /\ main_data' = main_data /\ eph_data' = eph_data
      /\ allocated' = allocated
      /\ ~Refused(Main) /\ EnterAttempt(Main, eph_memory[j])
  BY <1>b, <1>c DEF Evict, MustEvict, dataVars
<1>2. /\ main_memory_set' = Erase(main_memory_set, b)
      /\ main_memory_rmap' = SetAt(main_memory_rmap, i, -1)
  BY <1>b DEF Evict, SetAt
<1>3. /\ eph_memory_set' = IF EphHasRoom THEN eph_memory_set ELSE Erase(eph_memory_set, c)
      /\ eph_memory_rmap' = IF EphHasRoom THEN eph_memory_rmap ELSE SetAt(eph_memory_rmap, j, -1)
  BY <1>c DEF Evict, SetAt
<1>4. /\ Level(main_memory_set, main_memory_rmap)'
      /\ DOMAIN main_memory_set' = DOMAIN main_memory_set \ {b}
      /\ DOMAIN main_memory_rmap' = MainSlots
      /\ i \notin Filled(main_memory_rmap)'
      /\ Filled(main_memory_rmap)' \cup {i} = 0..Size(main_memory_set)'
      /\ b \in Blocks /\ b \in DOMAIN main_memory_set /\ main_memory_set[b] = i
      /\ \A x \in DOMAIN main_memory_set' : main_memory_set'[x] = main_memory_set[x]
  <2>1. main_memory_rmap[i] # -1 /\ MustEvict(i)
    BY <1>1, <1>b
  <2> QED
    BY <2>1, <1>2, <1>b, MainEvicted
<1>5. /\ Level(eph_memory_set, eph_memory_rmap)'
      /\ DOMAIN eph_memory_set' \subseteq DOMAIN eph_memory_set
      /\ DOMAIN eph_memory_rmap' = DOMAIN eph_memory_rmap
      /\ j \notin Filled(eph_memory_rmap)'
      /\ Filled(eph_memory_rmap)' \cup {j} = 0..Size(eph_memory_set)'
      /\ \A x \in DOMAIN eph_memory_set' : eph_memory_set'[x] = eph_memory_set[x]
  BY <1>1, <1>3, <1>c, EphEvicted
<1>6. /\ cur'.main_mem_index = i /\ cur'.eph_mem_index = j /\ cur'.evict_block_id = b
      /\ cur'.block_id = cur.block_id
      /\ cur' \in [block_id : Int, main_mem_index : Int, eph_mem_index : Int, evict_block_id : Int]
  <2>1. max_eph \in Nat
    BY DEF CacheKept, SlotsKept
  <2>2. i \in Int /\ j \in Int /\ b \in Int
    BY <2>1, <1>4, PocAssumption DEF MainSlots, EphSlots, Blocks
  <2>3. cur \in [block_id : Int, main_mem_index : Int, eph_mem_index : Int, evict_block_id : Int]
    BY DEF CacheKept, CurKept
  <2> QED
    BY <2>2, <2>3, <1>1
<1>7. AttemptsKept' /\ ctx'[Main] = [in_attempt |-> TRUE, handle |-> eph_memory[j]]
  <2>1. AttemptsKept /\ eph_memory[j] \in Handles /\ Main \in Threads
    BY <1>1, AllSlots, PocAssumption DEF CacheKept
  <2>2. PICK h \in Handles : h = eph_memory[j]
    BY <2>1
  <2>3. EnterAttempt(Main, h)
    BY <2>2, <1>1
  <2>4. AttemptsKept' /\ ctx'[Main] = [in_attempt |-> TRUE, handle |-> h]
    BY <2>1, <2>3, <1>1, EnterKept
  <2> QED
    BY <2>2, <2>4
<1>8. MainKept'
  BY <1>1, <1>6, <1>7 DEF MainKept, EphSlots
<1>9. SlotsKept'
  BY <1>1, <1>5, SlotsFrame
<1>10. DOMAIN main_memory_set \cap DOMAIN eph_memory_set = {}
  BY DEF CacheKept, LevelsKept
<1>11. LevelsKept'
  <2>1. DOMAIN main_memory_set' \cap DOMAIN eph_memory_set' = {}
    BY <1>4, <1>5, <1>10
  <2>2. j \in EphSlots'
    BY <1>1 DEF EphSlots
  <2> QED
    BY <1>1, <1>4, <1>5, <1>6, <2>1, <2>2 DEF LevelsKept
<1>12. CurKept'
  <2>1. cur.block_id \in Blocks \ (DOMAIN main_memory_set \cup DOMAIN eph_memory_set)
    BY <1>1 DEF CacheKept, CurKept
  <2>2. b \notin DOMAIN main_memory_set' /\ b \notin DOMAIN eph_memory_set' /\ cur.block_id # b
        /\ cur.block_id \notin DOMAIN main_memory_set' /\ cur.block_id \notin DOMAIN eph_memory_set'
    BY <2>1, <1>4, <1>5, <1>10
  <2> QED
    BY <2>1, <2>2, <1>1, <1>4, <1>6 DEF CurKept
<1>13. DataKept'
  <2>1. /\ main_data \in [MainSlots -> Blocks \cup {-1}] /\ eph_data \in [Handles -> Blocks \cup {-1}]
        /\ \A x \in DOMAIN main_memory_set : main_data[main_memory_set[x]] = x
        /\ \A x \in DOMAIN eph_memory_set : eph_data[eph_memory[eph_memory_set[x]]] = x
    BY DEF CacheKept, DataKept
  <2>2. main_data[i] = b
    BY <2>1, <1>4
  <2>3. \A x \in DOMAIN main_memory_set' : main_data[main_memory_set'[x]] = x
    BY <2>1, <1>4
  <2>4. \A x \in DOMAIN eph_memory_set' : eph_data[eph_memory[eph_memory_set'[x]]] = x
    BY <2>1, <1>5
  <2> QED
    BY <2>1, <2>2, <2>3, <2>4, <1>1, <1>6 DEF DataKept
<1> QED
  BY <1>7, <1>8, <1>9, <1>11, <1>12, <1>13 DEF CacheKept

(***************************************************************************)
(* PutLevel for ephemeral memory.                                          *)
(***************************************************************************)
LEMMA PutEph ==
  ASSUME Level(eph_memory_set, eph_memory_rmap), NEW b \in Blocks \ DOMAIN eph_memory_set,
         NEW i \in DOMAIN eph_memory_rmap \ Filled(eph_memory_rmap),
         eph_memory_set' = Put(eph_memory_set, b, i),
         eph_memory_rmap' = SetAt(eph_memory_rmap, i, b)
  PROVE  PutAt(eph_memory_set, eph_memory_rmap, b, i, eph_memory_set', eph_memory_rmap')
BY PutLevel

(***************************************************************************)
(* libephmem_put copied the evicted block: it is in ephemeral memory now.  *)
(***************************************************************************)
LEMMA PutDoneKept ==
  ASSUME CacheKept, PutDone PROVE CacheKept'
<1>1. /\ pc = "put" /\ pc' = "read" /\ max_eph' = max_eph /\ cur' = cur
      /\ main_memory_set' = main_memory_set /\ main_memory_rmap' = main_memory_rmap
      /\ eph_memory' = eph_memory /\ main_data' = main_data /\ allocated' = allocated
      /\ eph_data' = [eph_data EXCEPT ![ctx[Main].handle] = main_data[cur.main_mem_index]]
      /\ LeaveAttempt(Main)
  BY DEF PutDone, Accessed
<1>2. /\ max_eph \in Nat /\ eph_memory \in [EphSlots -> CacheHandles]
      /\ DOMAIN eph_memory_rmap = EphSlots
      /\ \A i \in EphSlots : eph_memory[i] \in allocated /\ eph_memory[i] \in Handles
      /\ \A i, j \in EphSlots : eph_memory[i] = eph_memory[j] => i = j
  BY <1>1, AllSlots
<1>3. /\ Level(eph_memory_set, eph_memory_rmap)
      /\ cur.eph_mem_index \in EphSlots \ Filled(eph_memory_rmap)
      /\ Filled(eph_memory_rmap) \cup {cur.eph_mem_index} = 0..Size(eph_memory_set)
      /\ DOMAIN main_memory_set \cap DOMAIN eph_memory_set = {}
  BY <1>1 DEF CacheKept, LevelsKept
<1>4. /\ cur.evict_block_id \in Blocks \ (DOMAIN main_memory_set \cup DOMAIN eph_memory_set)
      /\ cur.evict_block_id # cur.block_id
      /\ cur.block_id \in Blocks \ (DOMAIN main_memory_set \cup DOMAIN eph_memory_set)
  BY <1>1 DEF CacheKept, CurKept
<1>b. PICK b \in Blocks \ DOMAIN eph_memory_set : b = cur.evict_block_id
  BY <1>4
<1>j. PICK j \in DOMAIN eph_memory_rmap \ Filled(eph_memory_rmap) : j = cur.eph_mem_index
  BY <1>2, <1>3
<1>5. /\ eph_memory_set' = Put(eph_memory_set, b, j)
      /\ eph_memory_rmap' = SetAt(eph_memory_rmap, j, b)
  BY <1>b, <1>j DEF PutDone, SetAt
<1>6. /\ Level(eph_memory_set', eph_memory_rmap')
      /\ DOMAIN eph_memory_set' = DOMAIN eph_memory_set \cup {b}
      /\ DOMAIN eph_memory_rmap' = DOMAIN eph_memory_rmap
      /\ Filled(eph_memory_rmap') = Filled(eph_memory_rmap) \cup {j}
      /\ Size(eph_memory_set') = Size(eph_memory_set) + 1
      /\ eph_memory_set'[b] = j
      /\ \A x \in DOMAIN eph_memory_set : eph_memory_set'[x] = eph_memory_set[x]
  BY <1>3, <1>5, PutEph DEF PutAt
<1>7. Size(eph_memory_set) \in Nat
  BY <1>3, LevelSize
<1>8. /\ ctx[Main].in_attempt /\ ctx[Main].handle = eph_memory[j] /\ Main \in Threads
      /\ AttemptsKept
  BY <1>1, <1>j, PocAssumption DEF CacheKept, MainKept
<1>9. AttemptsKept' /\ ~ctx'[Main].in_attempt
  BY <1>1, <1>8, LeaveKept
<1>10. MainKept'
  BY <1>1, <1>9 DEF MainKept
<1>11. SlotsKept'
  BY <1>1, <1>6, SlotsFrame
<1>12. LevelsKept'
  <2>1. /\ Level(eph_memory_set, eph_memory_rmap)'
        /\ Filled(eph_memory_rmap)' = Index(Size(eph_memory_set))'
    <3>1. Filled(eph_memory_rmap') = Index(Size(eph_memory_set'))
      BY <1>3, <1>6, <1>7, <1>j DEF Index
    <3> QED
      BY <3>1, <1>6 DEF Level, Filled, Size, Index
  <2>2. /\ Level(main_memory_set, main_memory_rmap)
        /\ DOMAIN main_memory_rmap = MainSlots
        /\ cur.main_mem_index \in MainSlots \ Filled(main_memory_rmap)
        /\ Filled(main_memory_rmap) \cup {cur.main_mem_index} = 0..Size(main_memory_set)
    BY <1>1 DEF CacheKept, LevelsKept
  <2>3. DOMAIN main_memory_set' \cap DOMAIN eph_memory_set' = {}
    BY <1>1, <1>3, <1>4, <1>6, <1>b
  <2> QED
    BY <1>1, <2>1, <2>2, <2>3, MainSame DEF LevelsKept
<1>13. CurKept'
  <2>1. cur.block_id \in Blocks \ (DOMAIN main_memory_set' \cup DOMAIN eph_memory_set')
    BY <1>1, <1>4, <1>6, <1>b
  <2> QED
    BY <2>1, <1>1 DEF CacheKept, CurKept
<1>14. DataKept'
  <2>1. /\ main_data \in [MainSlots -> Blocks \cup {-1}] /\ eph_data \in [Handles -> Blocks \cup {-1}]
        /\ \A x \in DOMAIN main_memory_set : main_data[main_memory_set[x]] = x
        /\ \A x \in DOMAIN eph_memory_set : eph_data[eph_memory[eph_memory_set[x]]] = x
        /\ main_data[cur.main_mem_index] = b
    BY <1>1, <1>b DEF CacheKept, DataKept
  <2>2. eph_data' = [eph_data EXCEPT ![eph_memory[j]] = b] /\ eph_memory[j] \in Handles
    BY <2>1, <1>1, <1>2, <1>8
  <2>3. eph_data' \in [Handles -> Blocks \cup {-1}] /\ eph_data'[eph_memory[j]] = b
        /\ \A h \in Handles : h # eph_memory[j] => eph_data'[h] = eph_data[h]
    BY <2>1, <2>2
  <2>4. \A x \in DOMAIN eph_memory_set :
          /\ eph_memory_set[x] \in EphSlots /\ eph_memory_set[x] # j
    <3> SUFFICES ASSUME NEW x \in DOMAIN eph_memory_set
                 PROVE  eph_memory_set[x] \in EphSlots /\ eph_memory_set[x] # j
      OBVIOUS
    <3>1. /\ eph_memory_set[x] \in EphSlots /\ eph_memory_rmap[eph_memory_set[x]] = x
          /\ x \in Blocks
      BY <1>2, <1>3 DEF Level
    <3>2. x # -1
      BY <3>1, PocAssumption DEF Blocks
    <3>3. eph_memory_set[x] \in Filled(eph_memory_rmap)
      BY <3>1, <3>2, <1>2 DEF Filled
    <3> QED
      BY <3>1, <3>3
  <2>5. \A x \in DOMAIN eph_memory_set : eph_data'[eph_memory[eph_memory_set[x]]] = x
    BY <2>1, <2>3, <2>4, <1>2
  <2>6. \A x \in DOMAIN eph_memory_set' : eph_data'[eph_memory[eph_memory_set'[x]]] = x
    BY <2>3, <2>5, <1>6
  <2> QED
    BY <2>1, <2>3, <2>6, <1>1 DEF DataKept
<1> QED
  BY <1>9, <1>10, <1>11, <1>12, <1>13, <1>14 DEF CacheKept

(***************************************************************************)
(* DropLevel for ephemeral memory.                                         *)
(***************************************************************************)
LEMMA DropEph ==
  ASSUME Level(eph_memory_set, eph_memory_rmap), NEW n \in Nat, DOMAIN eph_memory_rmap = Index(n),
         NEW bad \in Index(n),
         eph_memory_rmap' = EraseAt(eph_memory_rmap, bad, n),
         eph_memory_set' = Shifted(eph_memory_rmap', bad, n - 1,
                                   Erase(eph_memory_set, eph_memory_rmap[bad]))
  PROVE  DroppedAt(eph_memory_set, eph_memory_rmap, n, bad, eph_memory_set', eph_memory_rmap')
BY DropLevel

(***************************************************************************)
(* handle_revoked_ephmem, after the attempt on the slot faulted.           *)
(***************************************************************************)
LEMMA RevokedSlot ==
  ASSUME CacheKept, pc \in {"sum", "put"}, pc' \in {"miss", "read"},
         LeaveAttempt(Main), handle_revoked_ephmem(cur.eph_mem_index),
         UNCHANGED <<main_memory_set, main_memory_rmap, dataVars>>
  PROVE  /\ AttemptsKept' /\ MainKept' /\ SlotsKept'
         /\ Level(eph_memory_set, eph_memory_rmap)'
         /\ Filled(eph_memory_rmap)' = Index(Size(eph_memory_set))'
         /\ DOMAIN eph_memory_set' \subseteq DOMAIN eph_memory_set
         /\ pc = "sum" => cur.block_id \notin DOMAIN eph_memory_set'
         /\ \A x \in DOMAIN eph_memory_set' : eph_data'[eph_memory'[eph_memory_set'[x]]] = x
<1>1. /\ max_eph \in Nat /\ eph_memory \in [EphSlots -> CacheHandles]
      /\ DOMAIN eph_memory_rmap = EphSlots /\ EphSlots = Index(max_eph)
      /\ \A i \in EphSlots : eph_memory[i] \in allocated /\ eph_memory[i] \in Handles
      /\ \A i, j \in EphSlots : eph_memory[i] = eph_memory[j] => i = j
  BY AllSlots
<1>2. Level(eph_memory_set, eph_memory_rmap) /\ Size(eph_memory_set) \in Nat
  <2>1. Level(eph_memory_set, eph_memory_rmap)
    BY DEF CacheKept, LevelsKept
  <2> QED
    BY <2>1, LevelSize
<1>n. PICK n \in Nat : n = max_eph
  BY <1>1
<1>bad. PICK bad \in Index(n) : bad = cur.eph_mem_index
  BY <1>1, <1>n DEF CacheKept, MainKept
<1>3. /\ allocated' = allocated \ {eph_memory[bad]}
      /\ eph_memory' = EraseAt(eph_memory, bad, n)
      /\ eph_memory_rmap' = EraseAt(eph_memory_rmap, bad, n)
      /\ eph_memory_set' = Shifted(eph_memory_rmap', bad, n - 1,
                                   Erase(eph_memory_set, eph_memory_rmap[bad]))
      /\ max_eph' = n - 1 /\ eph_data' = eph_data
  BY <1>n, <1>bad DEF handle_revoked_ephmem, Free, dataVars
<1>4. /\ Level(eph_memory_set', eph_memory_rmap')
      /\ DOMAIN eph_memory_rmap' = Index(n - 1)
      /\ DOMAIN eph_memory_set' = DOMAIN eph_memory_set \ {eph_memory_rmap[bad]}
      /\ \A x \in DOMAIN eph_memory_set' :
           /\ eph_memory_set[x] # bad
           /\ eph_memory_set'[x] = IF eph_memory_set[x] < bad THEN eph_memory_set[x]
                                   ELSE eph_memory_set[x] - 1
      /\ Size(eph_memory_set') = IF bad \in Filled(eph_memory_rmap)
                                 THEN Size(eph_memory_set) - 1 ELSE Size(eph_memory_set)
      /\ \A i \in Index(n - 1) :
           i \in Filled(eph_memory_rmap')
             <=> (IF i < bad THEN i ELSE i + 1) \in Filled(eph_memory_rmap)
  BY <1>1, <1>2, <1>3, <1>n, DropEph DEF DroppedAt
<1>5. bad \in Int /\ 0 <= bad /\ bad <= n - 1
  BY DEF Index
<1>6. \A i \in Index(n - 1) : /\ i \in Int /\ 0 <= i /\ i <= n - 2
                              /\ (IF i < bad THEN i ELSE i + 1) \in Index(n)
                              /\ (IF i < bad THEN i ELSE i + 1) # bad
  BY <1>5 DEF Index
<1>7. /\ DOMAIN eph_memory' = Index(n - 1)
      /\ \A i \in Index(n - 1) : eph_memory'[i] = eph_memory[IF i < bad THEN i ELSE i + 1]
      /\ eph_memory' = [i \in Index(n - 1) |-> eph_memory'[i]]
  BY <1>3 DEF EraseAt, Index
<1>8. AttemptsKept' /\ ~ctx'[Main].in_attempt
  <2>1. ctx[Main].in_attempt /\ Main \in Threads /\ AttemptsKept
    BY PocAssumption DEF CacheKept, MainKept
  <2>2. eph_memory[bad] \in CacheHandles
    BY <1>1, <1>n
  <2>3. \A u \in Threads \ {Main} : Private[u] \in allocated => Private[u] \in allocated'
    BY <2>2, <1>3 DEF CacheHandles
  <2> QED
    BY <2>1, <2>3, LeaveKept
<1>9. MainKept'
  BY <1>8 DEF MainKept
<1>10. SlotsKept'
  <2>1. eph_memory' \in [Index(n - 1) -> CacheHandles]
    <3>1. \A i \in Index(n - 1) : eph_memory'[i] \in CacheHandles
      BY <1>1, <1>6, <1>7, <1>n
    <3> QED
      BY <3>1, <1>7
  <2>2. \A i \in DOMAIN eph_memory' : eph_memory'[i] \in allocated'
    <3> SUFFICES ASSUME NEW i \in Index(n - 1) PROVE eph_memory'[i] \in allocated'
      BY <1>7
    <3> DEFINE l == IF i < bad THEN i ELSE i + 1
    <3>1. l \in EphSlots /\ l # bad /\ bad \in EphSlots /\ eph_memory'[i] = eph_memory[l]
      BY <1>1, <1>6, <1>7, <1>n
    <3> HIDE DEF l
    <3> QED
      BY <3>1, <1>1, <1>3
  <2>3. \A i, j \in DOMAIN eph_memory' : eph_memory'[i] = eph_memory'[j] => i = j
    <3> SUFFICES ASSUME NEW i \in Index(n - 1), NEW j \in Index(n - 1),
                        eph_memory'[i] = eph_memory'[j]
                 PROVE  i = j
      BY <1>7
    <3> DEFINE l == IF i < bad THEN i ELSE i + 1
               m == IF j < bad THEN j ELSE j + 1
    <3>1. l \in EphSlots /\ m \in EphSlots /\ eph_memory[l] = eph_memory[m]
      BY <1>1, <1>6, <1>7, <1>n
    <3>2. l = m
      <4> HIDE DEF l, m
      <4> QED
        BY <3>1, <1>1
    <3> QED
      BY <3>2, <1>5, <1>6
  <2>4. n - 1 \in Nat /\ n - 1 \in 0..max_eph'
    BY <1>3, <1>5
  <2> QED
    BY <2>1, <2>2, <2>3, <2>4, <1>3, <1>4 DEF SlotsKept
<1>11. Filled(eph_memory_rmap') = Index(Size(eph_memory_set'))
  <2>1. Size(eph_memory_set') \in Nat
    BY <1>4, LevelSize
  <2>t. PICK t \in Nat : t = Size(eph_memory_set')
    BY <2>1
  <2>2. Filled(eph_memory_rmap) \cup {bad} = 0..t
    <3>1. CASE pc = "sum"
      <4>1. Filled(eph_memory_rmap) = Index(Size(eph_memory_set))
        BY <3>1 DEF CacheKept, LevelsKept
      <4>2. cur.block_id \in DOMAIN eph_memory_set /\ eph_memory_set[cur.block_id] = bad
        BY <3>1, <1>bad DEF CacheKept, CurKept
      <4>3. eph_memory_rmap[bad] = cur.block_id /\ cur.block_id \in Blocks
        BY <4>2, <1>2 DEF Level
      <4>4. cur.block_id # -1
        BY <4>3, PocAssumption DEF Blocks
      <4>5. bad \in Filled(eph_memory_rmap)
        BY <4>3, <4>4, <1>1, <1>n DEF Filled
      <4>6. t = Size(eph_memory_set) - 1
        BY <4>5, <2>t, <1>4
      <4>7. Index(Size(eph_memory_set)) = 0..t
        BY <4>6 DEF Index
      <4> QED
        BY <4>1, <4>5, <4>7
    <3>2. CASE pc = "put"
      <4>1. /\ bad \notin Filled(eph_memory_rmap)
            /\ Filled(eph_memory_rmap) \cup {bad} = 0..Size(eph_memory_set)
        BY <3>2, <1>bad DEF CacheKept, LevelsKept
      <4>2. t = Size(eph_memory_set)
        BY <4>1, <2>t, <1>4
      <4> QED
        BY <4>1, <4>2
    <3> QED
      BY <3>1, <3>2
  <2>3. Filled(eph_memory_rmap) \subseteq Index(n)
    BY <1>1, <1>n DEF Filled
  <2>4. bad <= t /\ t <= n - 1
    <3>1. bad \in 0..t /\ t \in 0..t
      BY <2>2
    <3>2. 0..t \subseteq Index(n)
      BY <2>2, <2>3
    <3>3. t \in Index(n)
      BY <3>1, <3>2
    <3> QED
      BY <3>1, <3>3 DEF Index
  <2>5. \A i \in Int : i # bad => (i \in Filled(eph_memory_rmap) <=> i \in 0..t)
    BY <2>2
  <2>6. \A i \in Index(n - 1) : i \in Filled(eph_memory_rmap') <=> i \in Index(t)
    <3> SUFFICES ASSUME NEW i \in Index(n - 1)
                 PROVE  i \in Filled(eph_memory_rmap') <=> i \in Index(t)
      OBVIOUS
    <3> DEFINE l == IF i < bad THEN i ELSE i + 1
    <3>1. i \in Int /\ 0 <= i /\ l \in Int /\ l # bad
      BY <1>5, <1>6
    <3>2. i \in Filled(eph_memory_rmap') <=> l \in Filled(eph_memory_rmap)
      BY <1>4
    <3>3. l \in Filled(eph_memory_rmap) <=> l \in 0..t
      <4> HIDE DEF l
      <4> QED
        BY <3>1, <2>5
    <3>4. l \in 0..t <=> i \in Index(t)
      BY <3>1, <2>4, <1>5 DEF Index
    <3> QED
      BY <3>2, <3>3, <3>4
  <2>7. Filled(eph_memory_rmap') \subseteq Index(n - 1)
    BY <1>4 DEF Filled
  <2>8. Index(t) \subseteq Index(n - 1)
    BY <2>4 DEF Index
  <2>9. Filled(eph_memory_rmap') = Index(t)
    BY <2>6, <2>7, <2>8
  <2> QED
    BY <2>9, <2>t
<1>12. pc = "sum" => cur.block_id \notin DOMAIN eph_memory_set'
  BY <1>4, <1>bad DEF CacheKept, CurKept
<1>13. \A x \in DOMAIN eph_memory_set' : eph_data'[eph_memory'[eph_memory_set'[x]]] = x
  <2> SUFFICES ASSUME NEW x \in DOMAIN eph_memory_set'
               PROVE  eph_data[eph_memory'[eph_memory_set'[x]]] = x
    BY <1>3
  <2>1. x \in DOMAIN eph_memory_set /\ eph_memory_set[x] \in Index(n) /\ eph_memory_set[x] # bad
    BY <1>1, <1>2, <1>4, <1>n DEF Level
  <2>2. eph_memory_set[x] \in Int
    BY <2>1 DEF Index
  <2>3. eph_memory_set'[x] \in Index(n - 1)
    BY <1>4 DEF Level
  <2>4. (IF eph_memory_set'[x] < bad THEN eph_memory_set'[x] ELSE eph_memory_set'[x] + 1)
          = eph_memory_set[x]
    BY <2>1, <2>2, <1>4, <1>5
  <2>5. eph_memory'[eph_memory_set'[x]] = eph_memory[eph_memory_set[x]]
    BY <2>3, <2>4, <1>7
  <2>6. eph_data[eph_memory[eph_memory_set[x]]] = x
    BY <2>1 DEF CacheKept, DataKept
  <2> QED
    BY <2>5, <2>6
<1>14. /\ Level(eph_memory_set, eph_memory_rmap)'
       /\ Filled(eph_memory_rmap)' = Index(Size(eph_memory_set))'
  BY <1>4, <1>11 DEF Level, Filled, Size, Index
<1>15. DOMAIN eph_memory_set' \subseteq DOMAIN eph_memory_set
  BY <1>4
<1> QED
  BY <1>8, <1>9, <1>10, <1>12, <1>13, <1>14, <1>15

(***************************************************************************)
(* A read of a slot faulted: the slot is dropped, the block is a miss.     *)
(***************************************************************************)
LEMMA SumRevokedKept ==
  ASSUME CacheKept, SumRevoked PROVE CacheKept'
<1>1. /\ pc = "sum" /\ pc' = "miss" /\ cur' = [cur EXCEPT !.eph_mem_index = -1]
      /\ main_memory_set' = main_memory_set /\ main_memory_rmap' = main_memory_rmap
      /\ main_data' = main_data /\ eph_data' = eph_data
      /\ LeaveAttempt(Main) /\ handle_revoked_ephmem(cur.eph_mem_index)
      /\ UNCHANGED <<main_memory_set, main_memory_rmap, dataVars>>
  BY DEF SumRevoked, Faulted, dataVars
<1>2. /\ AttemptsKept' /\ MainKept' /\ SlotsKept'
      /\ Level(eph_memory_set, eph_memory_rmap)'
      /\ Filled(eph_memory_rmap)' = Index(Size(eph_memory_set))'
      /\ DOMAIN eph_memory_set' \subseteq DOMAIN eph_memory_set
      /\ cur.block_id \notin DOMAIN eph_memory_set'
      /\ \A x \in DOMAIN eph_memory_set' : eph_data'[eph_memory'[eph_memory_set'[x]]] = x
  BY <1>1, RevokedSlot
<1>3. /\ Level(main_memory_set, main_memory_rmap) /\ DOMAIN main_memory_rmap = MainSlots
      /\ Filled(main_memory_rmap) = Index(Size(main_memory_set))
      /\ DOMAIN main_memory_set \cap DOMAIN eph_memory_set = {}
      /\ DOMAIN eph_memory_set \subseteq Blocks
  BY <1>1 DEF CacheKept, LevelsKept, Level
<1>4. LevelsKept'
  <2>1. Filled(main_memory_rmap)' = Index(Size(main_memory_set))'
    BY <1>1, <1>3, MainSame DEF Index
  <2>2. DOMAIN main_memory_set' \cap DOMAIN eph_memory_set' = {}
    BY <1>1, <1>2, <1>3
  <2> QED
    BY <1>1, <1>2, <1>3, <2>1, <2>2, MainSame DEF LevelsKept
<1>5. CurKept'
  <2>1. cur.block_id \in DOMAIN eph_memory_set
        /\ cur \in [block_id : Int, main_mem_index : Int, eph_mem_index : Int, evict_block_id : Int]
    BY <1>1 DEF CacheKept, CurKept
  <2>2. cur'.block_id = cur.block_id
        /\ cur' \in [block_id : Int, main_mem_index : Int, eph_mem_index : Int, evict_block_id : Int]
    BY <2>1, <1>1
  <2>3. cur.block_id \in Blocks \ (DOMAIN main_memory_set' \cup DOMAIN eph_memory_set')
    BY <2>1, <1>1, <1>2, <1>3
  <2> QED
    BY <2>2, <2>3, <1>1 DEF CurKept
<1>6. DataKept'
  BY <1>1, <1>2 DEF CacheKept, DataKept
<1> QED
  BY <1>2, <1>4, <1>5, <1>6 DEF CacheKept

(***************************************************************************)
(* A write to a slot faulted: the slot is dropped, the evicted block with  *)
(* it.                                                                     *)
(***************************************************************************)
LEMMA PutRevokedKept ==
  ASSUME CacheKept, PutRevoked PROVE CacheKept'
<1>1. /\ pc = "put" /\ pc' = "read" /\ cur' = cur
      /\ main_memory_set' = main_memory_set /\ main_memory_rmap' = main_memory_rmap
      /\ main_data' = main_data /\ eph_data' = eph_data
      /\ LeaveAttempt(Main) /\ handle_revoked_ephmem(cur.eph_mem_index)
      /\ UNCHANGED <<main_memory_set, main_memory_rmap, dataVars>>
  BY DEF PutRevoked, Faulted, dataVars
<1>2. /\ AttemptsKept' /\ MainKept' /\ SlotsKept'
      /\ Level(eph_memory_set, eph_memory_rmap)'
      /\ Filled(eph_memory_rmap)' = Index(Size(eph_memory_set))'
      /\ DOMAIN eph_memory_set' \subseteq DOMAIN eph_memory_set
      /\ \A x \in DOMAIN eph_memory_set' : eph_data'[eph_memory'[eph_memory_set'[x]]] = x
  BY <1>1, RevokedSlot
<1>3. /\ Level(main_memory_set, main_memory_rmap) /\ DOMAIN main_memory_rmap = MainSlots
      /\ cur.main_mem_index \in MainSlots \ Filled(main_memory_rmap)
      /\ Filled(main_memory_rmap) \cup {cur.main_mem_index} = 0..Size(main_memory_set)
      /\ DOMAIN main_memory_set \cap DOMAIN eph_memory_set = {}
  BY <1>1 DEF CacheKept, LevelsKept
<1>4. LevelsKept'
  <2>1. DOMAIN main_memory_set' \cap DOMAIN eph_memory_set' = {}
    BY <1>1, <1>2, <1>3
  <2> QED
    BY <1>1, <1>2, <1>3, <2>1, MainSame DEF LevelsKept
<1>5. CurKept'
  <2>1. cur.block_id \in Blocks \ (DOMAIN main_memory_set \cup DOMAIN eph_memory_set)
        /\ cur \in [block_id : Int, main_mem_index : Int, eph_mem_index : Int, evict_block_id : Int]
    BY <1>1 DEF CacheKept, CurKept
  <2>2. cur.block_id \in Blocks \ (DOMAIN main_memory_set' \cup DOMAIN eph_memory_set')
    BY <2>1, <1>1, <1>2
  <2> QED
    BY <2>1, <2>2, <1>1 DEF CurKept
<1>6. DataKept'
  BY <1>1, <1>2 DEF CacheKept, DataKept
<1> QED
  BY <1>2, <1>4, <1>5, <1>6 DEF CacheKept

(***************************************************************************)
(* Every step of the program and of its environment keeps the invariant.   *)
(***************************************************************************)
LEMMA NextCache ==
  ASSUME CacheKept, [Next]_vars PROVE CacheKept'
<1>1. CASE UNCHANGED vars
  <2>1. UNCHANGED <<ctx, frames, rights, allocated, cacheVars>>
    BY <1>1 DEF vars, attemptVars, cacheVars
  <2> QED
    BY <2>1, OutsideKept
<1>2. ASSUME NEW h \in CacheHandles, Alloc(h) PROVE CacheKept'
  BY <1>2, AllocKept
<1>3. CASE AllocFails
  <2>1. UNCHANGED <<ctx, frames, rights, allocated, cacheVars>>
    BY <1>3 DEF AllocFails, Exit, cacheVars
  <2> QED
    BY <2>1, OutsideKept
<1>4. CASE AllocDone
  BY <1>4, AllocDoneKept
<1>5. ASSUME NEW b \in Blocks, MainHit(b) \/ EphHit(b) \/ Miss(b) PROVE CacheKept'
  BY <1>1, <1>5, EphHitKept, MissKept DEF MainHit
<1>6. CASE SumDone \/ SumRevoked \/ UseFreeSlot
  BY <1>6, SumDoneKept, SumRevokedKept, UseFreeSlotKept
<1>7. ASSUME NEW i \in MainSlots, EvictDrop(i) \/ \E j \in EphSlots : Evict(i, j)
      PROVE  CacheKept'
  BY <1>7, EvictDropKept, EvictKept
<1>8. CASE PutDone \/ PutRevoked \/ Fill
  BY <1>8, PutDoneKept, PutRevokedKept, FillKept
<1>9. CASE MainKilled \/ Environment
  <2>1. UNCHANGED <<ctx, frames, rights, allocated, cacheVars>>
    BY <1>9 DEF MainKilled, Environment, StrayAccess, OtherSigbus, Revoke
  <2> QED
    BY <2>1, OutsideKept
<1>10. ASSUME NEW t \in Threads \ {Main}, Work(t) PROVE CacheKept'
  BY <1>10, WorkKept
<1>11. ASSUME Iteration PROVE CacheKept'
  BY <1>2, <1>3, <1>4, <1>5, <1>6, <1>7, <1>8, <1>11 DEF Iteration
<1> QED
  BY <1>1, <1>9, <1>10, <1>11 DEF Next

-----------------------------------------------------------------------------
(***************************************************************************)
(* The cache and the attempts of its threads stay consistent, for any      *)
(* number of threads, handles, blocks and slots and any revocations.       *)
(***************************************************************************)
THEOREM CacheKeptAlways == Spec => []CacheKept
<1>1. Init => CacheKept
  BY InitCache
<1>2. CacheKept /\ [Next]_vars => CacheKept'
  BY NextCache
<1> QED
  BY <1>1, <1>2, PTL DEF Spec

(***************************************************************************)
(* While fn runs, the thread's context is that of its attempt, on a handle *)
(* that is not freed; outside, it is off and the key denies access.        *)
(***************************************************************************)
THEOREM ContextMatchesStackAlways == Spec => []ContextMatchesStack
<1>1. ASSUME CacheKept PROVE ContextMatchesStack
  <2> SUFFICES ASSUME NEW t \in Threads
               PROVE  IF frames[t] = <<>> THEN ~ctx[t].in_attempt /\ (UsingPkey => t \notin rights)
                      ELSE /\ ctx[t] = [in_attempt |-> TRUE, handle |-> Head(frames[t])]
                           /\ t \in rights /\ Head(frames[t]) \in allocated
    BY DEF ContextMatchesStack
  <2>1. /\ ctx[t] \in [in_attempt : BOOLEAN, handle : Handles]
        /\ frames[t] = IF ctx[t].in_attempt THEN <<ctx[t].handle>> ELSE <<>>
        /\ t \in rights <=> (~UsingPkey \/ ctx[t].in_attempt)
    BY <1>1 DEF CacheKept, AttemptsKept
  <2>2. CASE ~ctx[t].in_attempt
    BY <2>1, <2>2
  <2>3. CASE ctx[t].in_attempt
    <3>1. frames[t] = <<ctx[t].handle>> /\ frames[t] # <<>> /\ Head(frames[t]) = ctx[t].handle
      BY <2>1, <2>3
    <3>2. ctx[t] = [in_attempt |-> TRUE, handle |-> ctx[t].handle]
      BY <2>1, <2>3
    <3>3. ctx[t].handle \in allocated
      <4>1. CASE t = Main
        <5>1. pc \in {"sum", "put"}
          BY <1>1, <2>3, <4>1 DEF CacheKept, MainKept
        <5>2. cur.eph_mem_index \in EphSlots /\ ctx[t].handle = eph_memory[cur.eph_mem_index]
          BY <1>1, <4>1, <5>1 DEF CacheKept, MainKept
        <5> QED
          BY <1>1, <5>1, <5>2, AllSlots
      <4>2. CASE t # Main
        BY <1>1, <2>3, <4>2 DEF CacheKept, AttemptsKept
      <4> QED
        BY <4>1, <4>2
    <3> QED
      BY <2>1, <2>3, <3>1, <3>2, <3>3
  <2> QED
    BY <2>2, <2>3
<1> QED
  BY <1>1, CacheKeptAlways, PTL

(***************************************************************************)
(* The block map and the index map of each level agree, no block is held   *)
(* at both, and there are as many slots as the count says.                 *)
(***************************************************************************)
THEOREM LevelsConsistentAlways == Spec => []LevelsConsistent
<1>1. ASSUME CacheKept PROVE LevelsConsistent
  <2> SUFFICES ASSUME pc # "alloc"
               PROVE  /\ eph_memory \in [EphSlots -> CacheHandles]
                      /\ MapsAgree(main_memory_set, main_memory_rmap, max_main_memory_blocks)
                      /\ MapsAgree(eph_memory_set, eph_memory_rmap, max_eph)
                      /\ DOMAIN main_memory_set \cap DOMAIN eph_memory_set = {}
    BY DEF LevelsConsistent
  <2>1. /\ eph_memory \in [EphSlots -> CacheHandles]
        /\ DOMAIN eph_memory_rmap = Index(max_eph)
    BY <1>1, AllSlots
  <2>2. /\ Level(main_memory_set, main_memory_rmap) /\ Level(eph_memory_set, eph_memory_rmap)
        /\ DOMAIN main_memory_rmap = MainSlots
        /\ DOMAIN main_memory_set \cap DOMAIN eph_memory_set = {}
    BY <1>1 DEF CacheKept, LevelsKept
  <2>3. MainSlots = Index(max_main_memory_blocks)
    BY DEF MainSlots, Index
  <2>4. MapsAgree(main_memory_set, main_memory_rmap, max_main_memory_blocks)
    BY <2>2, <2>3 DEF MapsAgree, Level, Filled
  <2>5. MapsAgree(eph_memory_set, eph_memory_rmap, max_eph)
    BY <2>1, <2>2 DEF MapsAgree, Level, Filled
  <2> QED
    BY <2>1, <2>2, <2>4, <2>5
<1> QED
  BY <1>1, CacheKeptAlways, PTL

(***************************************************************************)
(* A hit finds the data of the block that was asked for.                   *)
(***************************************************************************)
THEOREM HitReadsItsBlockAlways == Spec => []HitReadsItsBlock
<1>1. CacheKept => HitReadsItsBlock
  BY DEF CacheKept, DataKept, HitReadsItsBlock
<1> QED
  BY <1>1, CacheKeptAlways, PTL

(***************************************************************************)
(* The program never takes a branch commented "This should not happen".    *)
(***************************************************************************)
THEOREM NeverGivesUpAlways == Spec => []NeverGivesUp
<1>1. ASSUME CacheKept PROVE NeverGivesUp
  <2> SUFFICES ASSUME GivesUp PROVE FALSE
    BY DEF NeverGivesUp
  <2>1. CASE pc \in {"loop", "miss"} /\ Refused(Main)
    BY <1>1, <2>1 DEF CacheKept, MainKept, Refused
  <2>2. CASE \E i \in MainSlots :
               /\ MustEvict(i)
               /\ \/ main_memory_rmap[i] = -1
                  \/ ~EphHasRoom /\ \E j \in EphSlots : eph_memory_rmap[j] = -1
    <3>1. PICK i \in MainSlots :
               /\ MustEvict(i)
               /\ \/ main_memory_rmap[i] = -1
                  \/ ~EphHasRoom /\ \E j \in EphSlots : eph_memory_rmap[j] = -1
      BY <2>2
    <3>2. pc = "miss" /\ ~MainHasRoom
      BY <3>1 DEF MustEvict
    <3>3. Filled(main_memory_rmap) = MainSlots
          /\ (~EphHasRoom => Filled(eph_memory_rmap) = EphSlots)
      BY <1>1, <3>2, FullLevels
    <3> QED
      BY <3>1, <3>3 DEF Filled
  <2> QED
    BY <2>1, <2>2 DEF GivesUp
<1> QED
  BY <1>1, CacheKeptAlways, PTL

(***************************************************************************)
(* With the library's handler installed a revocation kills the process     *)
(* only if a thread touches a handle outside the attempt of it.            *)
(***************************************************************************)
THEOREM AttemptSurvivesAlways == Spec => AttemptSurvives
<1> DEFINE Stray == \E t \in Threads, h \in Handles :
                      StrayAccess(t, h) /\ ~(frames[t] # <<>> /\ h = Head(frames[t]))
<1>1. ASSUME CacheKept, NEW t \in Threads, NEW h, StrayAccess(t, h), handler = "libephmem"
      PROVE  ~(frames[t] # <<>> /\ h = Head(frames[t]))
  <2> SUFFICES ASSUME frames[t] # <<>>, h = Head(frames[t]) PROVE FALSE
    OBVIOUS
  <2>1. /\ frames[t] = IF ctx[t].in_attempt THEN <<ctx[t].handle>> ELSE <<>>
        /\ t \in rights <=> (~UsingPkey \/ ctx[t].in_attempt)
    BY <1>1 DEF CacheKept, AttemptsKept
  <2>2. ctx[t].in_attempt /\ h = ctx[t].handle /\ t \in rights
    BY <2>1
  <2> QED
    BY <1>1, <2>2 DEF StrayAccess, Recoverable
<1>2. ASSUME CacheKept, Next, handler = "libephmem", process' = "killed" PROVE Stray
  <2>1. process = "running"
    BY <1>2 DEF Next
  <2>2. ASSUME Iteration PROVE FALSE
    <3>1. process' \in {process, "exited"}
      BY <2>2 DEF Iteration, Alloc, libephmem_alloc, AllocFails, Exit, AllocDone, MainHit, EphHit,
         Miss, SumDone, SumRevoked, UseFreeSlot, EvictDrop, Evict, PutDone, PutRevoked, Fill,
         vars, attemptVars
    <3> QED
      BY <3>1, <2>1, <1>2
  <2>3. CASE MainKilled
    <3>1. Main \in Threads /\ frames[Main] # <<>> /\ StrayAccess(Main, Head(frames[Main]))
      BY <2>3, PocAssumption DEF MainKilled
    <3>2. PICK h : h = Head(frames[Main])
      OBVIOUS
    <3>3. StrayAccess(Main, h)
      BY <3>1, <3>2
    <3> QED
      BY <3>1, <3>2, <3>3, <1>1, <1>2
  <2>4. CASE Environment
    BY <2>1, <2>4, <1>2 DEF Environment, OtherSigbus, Revoke
  <2>5. ASSUME NEW t \in Threads \ {Main}, Work(t) PROVE Stray
    <3>1. \E h \in Handles : StrayAccess(t, h)
      BY <2>1, <2>5, <1>2 DEF Work, libephmem_alloc
    <3>2. PICK h \in Handles : StrayAccess(t, h)
      BY <3>1
    <3> QED
      BY <3>2, <1>1, <1>2
  <2> QED
    BY <2>2, <2>3, <2>4, <2>5, <1>2 DEF Next
<1>3. CacheKept /\ [Next]_vars
        => [(handler = "libephmem" /\ process' = "killed") =>
              \E t \in Threads, h \in Handles :
                StrayAccess(t, h) /\ ~(frames[t] # <<>> /\ h = Head(frames[t]))]_vars
  BY <1>2
<1> QED
  BY <1>3, CacheKeptAlways, PTL DEF Spec, AttemptSurvives
=============================================================================
