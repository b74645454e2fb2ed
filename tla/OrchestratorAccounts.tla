------------------------ MODULE OrchestratorAccounts ------------------------
(***************************************************************************)
(* The accounts of a region: what the orchestrator counts as donated       *)
(* covers the region's map and never exceeds the region, what the donor    *)
(* counts as given away covers all that will go back to it, and both agree *)
(* when nothing is in progress and no command failed.  Last, its debts:    *)
(* what the donor asked back is always in some state on its way back.      *)
(***************************************************************************)
EXTENDS OrchestratorRefinementProofs

-----------------------------------------------------------------------------
(***************************************************************************)
(* Natural numbers, vectors and granules.                                  *)
(***************************************************************************)

(* Every nonempty set of natural numbers has a least element. *)
LEMMA LeastNat ==
  ASSUME NEW S \in SUBSET Nat, S # {}
  PROVE  \E m \in S : \A n \in S : m <= n
<1>1. PICK m \in S : \A n \in S : ~ (<<n, m>> \in OpToRel(<, Nat))
  BY WFMin, NatLessThanWellFounded
<1>2. \A n \in S : <<n, m>> \in OpToRel(<, Nat) <=> n < m
  BY DEF OpToRel
<1>3. \A n \in S : m \in Nat /\ n \in Nat /\ ~(n < m)
  BY <1>1, <1>2
<1>4. \A n \in S : m <= n
  BY <1>3
<1>5. QED
  BY <1>4

(* A nonempty set of natural numbers with a bound has a greatest element. *)
LEMMA GreatestNat ==
  ASSUME NEW b \in Nat, NEW S \in SUBSET (0..b), S # {}
  PROVE  \E m \in S : \A n \in S : n <= m
<1> DEFINE D == { d \in Nat : b - d \in S }
<1>1. D \in SUBSET Nat /\ D # {}
  <2>1. PICK n \in S : TRUE
    OBVIOUS
  <2>2. b - n \in D
    BY <2>1
  <2>3. QED
    BY <2>2
<1>2. PICK d \in D : \A e \in D : d <= e
  BY <1>1, LeastNat
<1>3. b - d \in S /\ d \in Nat
  BY <1>2
<1>4. \A n \in S : n <= b - d
  <2>1. SUFFICES ASSUME NEW n \in S PROVE n <= b - d
    OBVIOUS
  <2>2. b - n \in D
    BY <2>1
  <2>3. QED
    BY <1>2, <1>3, <2>1, <2>2
<1>5. QED
  BY <1>3, <1>4

(* The prefix of n elements of a vector has n elements, if there are that many. *)
LEMMA LowestCardinality ==
  ASSUME NEW b \in Nat, NEW S \in SUBSET (0..b), NEW n \in Nat
  PROVE  /\ IsFiniteSet(Lowest(S, n)) /\ Cardinality(Lowest(S, n)) \in Nat
         /\ Cardinality(Lowest(S, n)) <= n
         /\ n <= Cardinality(S) => Cardinality(Lowest(S, n)) = n
<1> DEFINE L     == Lowest(S, n)
           Below(i) == { j \in S : j < i }
<1>1. IsFiniteSet(S) /\ Cardinality(S) \in Nat
  <2>1. IsFiniteSet(0..b)
    BY FS_Interval
  <2>2. QED
    BY <2>1, FS_Subset, FS_CardinalityType
<1>2. \A T \in SUBSET S : IsFiniteSet(T) /\ Cardinality(T) \in Nat /\ Cardinality(T) <= Cardinality(S)
  BY <1>1, FS_Subset, FS_CardinalityType
<1>3. L \in SUBSET S /\ \A i \in S : i \in L <=> Cardinality(Below(i)) < n
  BY DEF Lowest
<1>4. \A i \in S : Below(i) \in SUBSET S
  OBVIOUS
<1> HIDE DEF L
<1>5. Cardinality(L) <= n
  <2>1. CASE L = {}
    BY <2>1, FS_EmptySet
  <2>2. CASE L # {}
    <3>1. PICK m \in L : \A i \in L : i <= m
      BY <1>3, <2>2, GreatestNat
    <3>2. L \subseteq Below(m) \cup {m}
      BY <1>3, <3>1
    <3>3. Cardinality(Below(m)) \in Nat /\ Cardinality(Below(m)) < n /\ IsFiniteSet(Below(m))
      BY <1>2, <1>3, <1>4
    <3> HIDE DEF Below
    <3>4. /\ IsFiniteSet(Below(m) \cup {m})
          /\ \/ Cardinality(Below(m) \cup {m}) = Cardinality(Below(m))
             \/ Cardinality(Below(m) \cup {m}) = Cardinality(Below(m)) + 1
      BY <3>3, FS_AddElement
    <3>5. Cardinality(L) <= Cardinality(Below(m) \cup {m})
      BY <3>2, <3>4, FS_Subset
    <3>6. Cardinality(L) \in Nat
      BY <1>2, <1>3
    <3>7. QED
      BY <3>3, <3>4, <3>5, <3>6
  <2>3. QED
    BY <2>1, <2>2
<1>6. ASSUME n <= Cardinality(S), Cardinality(L) < n PROVE FALSE
  <2>1. L # S
    BY <1>1, <1>6
  <2>2. PICK m \in S \ L : \A i \in S \ L : m <= i
    <3>1. S \ L # {} /\ S \ L \in SUBSET Nat
      <4>1. L \subseteq S /\ S \subseteq Nat
        BY <1>3
      <4>2. QED
        BY <2>1, <4>1
    <3>2. QED
      BY <3>1, LeastNat
  <2>3. Below(m) \subseteq L
    <3>1. SUFFICES ASSUME NEW i \in S, i < m, i \notin L PROVE FALSE
      OBVIOUS
    <3>2. m <= i /\ i \in Nat /\ m \in Nat
      BY <2>2, <3>1
    <3>3. QED
      BY <3>1, <3>2
  <2>4. Cardinality(Below(m)) <= Cardinality(L)
    BY <1>2, <1>3, <2>3, FS_Subset
  <2>5. Cardinality(Below(m)) < n
    BY <1>2, <1>3, <1>4, <1>6, <2>2, <2>4
  <2>6. QED
    BY <1>3, <2>2, <2>5
<1>7. Cardinality(L) \in Nat /\ IsFiniteSet(L)
  BY <1>2, <1>3
<1>8. n <= Cardinality(S) => Cardinality(L) = n
  BY <1>1, <1>5, <1>6, <1>7
<1>9. QED
  BY <1>5, <1>7, <1>8 DEF L

(* Granules are ordered as their numbers are. *)
LEMMA GranuleOrder ==
  ASSUME NEW x \in Nat, NEW y \in Nat
  PROVE  /\ Granularity * x \in Nat
         /\ x <= y <=> Granularity * x <= Granularity * y
         /\ Granularity * (x + y) = Granularity * x + Granularity * y
         /\ x <= y => Granularity * (y - x) = Granularity * y - Granularity * x
         /\ Granularity * 0 = 0
<1>1. Granularity \in Nat /\ Granularity >= 1
  BY GranularityAssumption
<1>2. Granularity * x \in Nat /\ Granularity * y \in Nat
  BY <1>1
<1>3. ASSUME x <= y PROVE Granularity * x <= Granularity * y
  <2>1. y - x \in Nat /\ Granularity * (y - x) \in Nat
    BY <1>1, <1>3
  <2>2. Granularity * (y - x) = Granularity * y - Granularity * x
    BY <1>1, <1>3, Z3
  <2>3. QED
    BY <1>2, <2>1, <2>2
<1>4. ASSUME ~(x <= y) PROVE ~(Granularity * x <= Granularity * y)
  <2>1. x - y \in Nat /\ x - y >= 1
    BY <1>4
  <2>2. Granularity * (x - y) >= Granularity
    BY <1>1, <2>1, Z3
  <2>3. Granularity * (x - y) = Granularity * x - Granularity * y
    BY <1>1, <2>1, Z3
  <2>4. QED
    BY <1>1, <1>2, <2>2, <2>3
<1>5. /\ Granularity * (x + y) = Granularity * x + Granularity * y
      /\ x <= y => Granularity * (y - x) = Granularity * y - Granularity * x
      /\ Granularity * 0 = 0
  BY <1>1, Z3
<1>6. QED
  BY <1>2, <1>3, <1>4, <1>5

(* Rounding down to granules. *)
LEMMA Rounding ==
  ASSUME NEW n \in Nat
  PROVE  /\ n \div Granularity \in Nat /\ n % Granularity \in Nat
         /\ n = Granularity * (n \div Granularity) + (n % Granularity)
         /\ n % Granularity < Granularity
         /\ Granularity * (n \div Granularity) <= n
<1>1. Granularity \in Nat /\ Granularity > 0
  BY GranularityAssumption
<1> DEFINE d == n \div Granularity
           m == n % Granularity
<1>2. d \in Int /\ m \in 0..(Granularity - 1) /\ n = Granularity * d + m
  BY <1>1, Z3
<1>3. d \in Nat
  BY Remainders
<1>4. Granularity * d \in Nat
  BY <1>1, <1>3
<1> HIDE DEF d, m
<1>5. m \in Nat /\ m < Granularity /\ Granularity * d <= n
  BY <1>1, <1>2, <1>4
<1>6. QED
  BY <1>2, <1>3, <1>5 DEF d, m

(* A multiple of the granularity is that many granules. *)
LEMMA WholeGranules ==
  ASSUME NEW x \in Nat
  PROVE  (Granularity * x) \div Granularity = x /\ (Granularity * x) % Granularity = 0
<1>1. Granularity \in Nat /\ Granularity >= 1 /\ Granularity * x \in Nat
  BY GranularityAssumption, GranuleOrder
<1> DEFINE n == Granularity * x
           d == n \div Granularity
           m == n % Granularity
<1>2. d \in Nat /\ m \in Nat /\ n = Granularity * d + m /\ m < Granularity
  BY <1>1, Rounding
<1> HIDE DEF d, m
<1>3. d = x
  <2>1. Granularity * d <= Granularity * x
    <3>1. Granularity * d \in Nat
      BY <1>2, GranuleOrder
    <3>2. QED
      BY <1>1, <1>2, <3>1
  <2>2. d <= x
    BY <1>2, <2>1, GranuleOrder
  <2>3. Granularity * (x - d) = m
    <3>1. Granularity * (x - d) = Granularity * x - Granularity * d
      BY <1>2, <2>2, GranuleOrder
    <3>2. Granularity * d \in Nat
      BY <1>2, GranuleOrder
    <3>3. QED
      BY <1>1, <1>2, <3>1, <3>2
  <2>4. CASE x - d >= 1
    <3>1. x - d \in Nat
      BY <1>2, <2>2
    <3>2. Granularity * 1 <= Granularity * (x - d)
      BY <2>4, <3>1, GranuleOrder
    <3>3. Granularity <= m
      BY <1>1, <2>3, <3>2
    <3>4. QED
      BY <1>1, <1>2, <3>3
  <2>5. QED
    BY <1>2, <2>2, <2>4
<1>4. m = 0
  BY <1>1, <1>2, <1>3
<1>5. QED
  BY <1>3, <1>4 DEF d, m

(* What is left of whole granules after whole granules are taken is whole. *)
LEMMA GranulesStayWhole ==
  ASSUME NEW n \in Nat, n % Granularity = 0, NEW k \in Nat
  PROVE  /\ (n - MinOf(n, Granularity * k)) % Granularity = 0
         /\ (n + Granularity * k) % Granularity = 0
<1>1. PICK j \in Nat : n = Granularity * j
  <2>1. /\ n \div Granularity \in Nat
        /\ n = Granularity * (n \div Granularity) + (n % Granularity)
    BY Rounding
  <2>2. Granularity * (n \div Granularity) \in Nat
    BY <2>1, GranuleOrder
  <2>3. n = Granularity * (n \div Granularity)
    BY <2>1, <2>2
  <2>4. QED
    BY <2>1, <2>3
<1>2. (n + Granularity * k) % Granularity = 0
  <2>1. n + Granularity * k = Granularity * (j + k) /\ j + k \in Nat
    BY <1>1, GranuleOrder
  <2>2. QED
    BY <2>1, WholeGranules
<1>3. CASE j <= k
  <2>1. n <= Granularity * k
    BY <1>1, <1>3, GranuleOrder
  <2>2. n - MinOf(n, Granularity * k) = 0
    BY <2>1 DEF MinOf
  <2>3. Granularity * 0 = 0 /\ (Granularity * 0) % Granularity = 0
    BY <1>1, GranuleOrder, WholeGranules
  <2>4. QED
    BY <1>2, <2>2, <2>3
<1>4. CASE ~(j <= k)
  <2>1. ~(n <= Granularity * k)
    BY <1>1, <1>4, GranuleOrder
  <2>2. n - MinOf(n, Granularity * k) = n - Granularity * k
    BY <2>1 DEF MinOf
  <2>3. Granularity * (j - k) = n - Granularity * k /\ j - k \in Nat
    BY <1>1, <1>4, GranuleOrder
  <2>4. QED
    BY <1>2, <2>2, <2>3, WholeGranules
<1>5. QED
  BY <1>3, <1>4

(* What handle_reserved_alloc commits and gives back is at most the grant, *)
(* and all of it when the grant does not exceed the chunk and whole        *)
(* granules are owed.                                                      *)
LEMMA ConfirmBalance ==
  ASSUME NEW b \in Nat, NEW ids \in SUBSET (0..b), NEW g \in Nat, NEW reg,
         reg.revoked_owed \in Nat
  PROVE  /\ Confirmed(reg, ids, g) \subseteq ids
         /\ GiveBackUnits(reg, ids, g) \in Nat
         /\ Granularity * Cardinality(Confirmed(reg, ids, g)) + GiveBackUnits(reg, ids, g) <= g
         /\ (reg.revoked_owed % Granularity = 0 /\ g <= Granularity * Cardinality(ids)) =>
              Granularity * Cardinality(Confirmed(reg, ids, g)) + GiveBackUnits(reg, ids, g) = g
<1>1. Granularity \in Nat /\ Granularity >= 1
  BY GranularityAssumption
<1>2. IsFiniteSet(ids) /\ Cardinality(ids) \in Nat
  <2>1. IsFiniteSet(0..b)
    BY FS_Interval
  <2>2. QED
    BY <2>1, FS_Subset, FS_CardinalityType
<1> DEFINE all  == Granularity * Cardinality(ids)
           m    == MinOf(g, all)
           k    == m \div Granularity
           rest == m % Granularity
           owed == reg.revoked_owed
<1>3. all \in Nat /\ m \in Nat /\ m <= g /\ m <= all /\ (g <= all => m = g)
  <2>1. all \in Nat
    BY <1>2, GranuleOrder
  <2> HIDE DEF all
  <2>2. QED
    BY <2>1 DEF MinOf
<1> HIDE DEF all, m
<1>4. k \in Nat /\ rest \in Nat /\ m = Granularity * k + rest /\ Granularity * k <= m
  BY <1>3, Rounding
<1>5. Granularity * k \in Nat
  BY <1>4, GranuleOrder
<1> HIDE DEF k, rest
<1>6. Usable(ids, g) = Granularity * k
  <2>1. Usable(ids, g) = m - rest
    BY DEF Usable, m, rest, all
  <2>2. QED
    BY <1>4, <1>5, <2>1
<1> DEFINE o == MinOf(owed, Granularity * k)
           u == Granularity * k - o
           w == u \div Granularity
<1>7. o \in Nat /\ o <= Granularity * k /\ u \in Nat
  BY <1>5 DEF MinOf
<1>8. /\ Owed(reg, ids, g) = o
      /\ GiveBackUnits(reg, ids, g) = o + rest
      /\ Confirmed(reg, ids, g) = Lowest(ids, w)
  BY <1>6 DEF Owed, GiveBackUnits, Confirmed, rest, m, all
<1> HIDE DEF o, u
<1>9. w \in Nat /\ Granularity * w <= u
  BY <1>7, Rounding
<1> HIDE DEF w
<1> DEFINE conf == Cardinality(Lowest(ids, w))
<1>10. conf \in Nat /\ conf <= w /\ (w <= Cardinality(ids) => conf = w)
  BY <1>9, LowestCardinality
<1> HIDE DEF conf
<1>11. Granularity * conf \in Nat /\ Granularity * w \in Nat /\ Granularity * conf <= Granularity * w
  BY <1>9, <1>10, GranuleOrder
<1>12. Granularity * conf + (o + rest) <= g
  <2>1. u + o = Granularity * k
    BY <1>5, <1>7 DEF u
  <2>2. Granularity * conf <= u
    BY <1>7, <1>9, <1>11
  <2>3. QED
    BY <1>3, <1>4, <1>5, <1>7, <1>11, <2>1, <2>2
<1>13. ASSUME owed % Granularity = 0, g <= all
       PROVE  Granularity * conf + (o + rest) = g
  <2>1. PICK j \in Nat : owed = Granularity * j
    <3>1. owed \div Granularity \in Nat
          /\ owed = Granularity * (owed \div Granularity) + (owed % Granularity)
      BY Rounding
    <3>2. Granularity * (owed \div Granularity) \in Nat
      BY <3>1, GranuleOrder
    <3>3. owed = Granularity * (owed \div Granularity)
      BY <1>13, <3>1, <3>2
    <3>4. QED
      BY <3>1, <3>3
  <2>2. PICK l \in Nat : o = Granularity * l /\ l <= k
    <3>1. CASE j <= k
      <4>1. owed <= Granularity * k
        BY <1>4, <2>1, <3>1, GranuleOrder
      <4>2. o = owed
        BY <4>1 DEF o, MinOf
      <4>3. QED
        BY <2>1, <3>1, <4>2
    <3>2. CASE ~(j <= k)
      <4>1. ~(owed <= Granularity * k)
        BY <1>4, <2>1, <3>2, GranuleOrder
      <4>2. o = Granularity * k
        BY <4>1 DEF o, MinOf
      <4>3. QED
        BY <1>4, <4>2
    <3>3. QED
      BY <3>1, <3>2
  <2>3. u = Granularity * (k - l) /\ k - l \in Nat
    BY <1>4, <2>2, GranuleOrder DEF u
  <2>4. w = k - l
    BY <2>3, WholeGranules DEF w
  <2>5. k <= Cardinality(ids)
    <3>1. Granularity * k <= Granularity * Cardinality(ids)
      BY <1>3, <1>4, <1>5 DEF all
    <3>2. QED
      BY <1>2, <1>4, <3>1, GranuleOrder
  <2>6. conf = w
    BY <1>2, <1>4, <1>10, <2>2, <2>4, <2>5
  <2>7. Granularity * conf = u
    BY <2>3, <2>4, <2>6
  <2>8. u + o = Granularity * k
    BY <1>5, <1>7 DEF u
  <2>9. m = g
    BY <1>3, <1>13
  <2>10. QED
    BY <1>3, <1>4, <1>5, <1>7, <2>7, <2>8, <2>9
<1>14. Confirmed(reg, ids, g) \subseteq ids
  BY DEF Confirmed, Lowest
<1>15. GiveBackUnits(reg, ids, g) \in Nat
  BY <1>4, <1>7, <1>8
<1>16. QED
  BY <1>8, <1>12, <1>13, <1>14, <1>15 DEF conf, all

(* n units of one key. *)
LEMMA KeyUnits ==
  ASSUME NEW c, NEW n \in Nat
  PROVE  IsFiniteSet({c} \X (1..n)) /\ Cardinality({c} \X (1..n)) = n
<1>1. PICK T : T = 1..n
  OBVIOUS
<1>2. IsFiniteSet(T) /\ Cardinality(T) = n
  BY <1>1, FS_Interval
<1>3. PICK C : C = {c}
  OBVIOUS
<1>4. IsFiniteSet(C) /\ Cardinality(C) = 1
  BY <1>3, FS_Singleton
<1>5. IsFiniteSet(C \X T) /\ Cardinality(C \X T) = 1 * n
  BY ONLY <1>2, <1>4, FS_Product
<1>6. QED
  BY <1>1, <1>3, <1>5

(* The number of loose units changes by what one thread's changes. *)
LEMMA UnitsChange ==
  ASSUME NEW S, NEW f \in [S -> Nat], IsFiniteSet(Units(f)), NEW c \in S, NEW n \in Nat
  PROVE  /\ IsFiniteSet(Units([f EXCEPT ![c] = n]))
         /\ Cardinality(Units([f EXCEPT ![c] = n])) = (Cardinality(Units(f)) - f[c]) + n
<1> DEFINE F    == [f EXCEPT ![c] = n]
           Own(k) == {c} \X (1..k)
           Rest == { u \in Units(f) : u[1] # c }
<1>1. ASSUME NEW k \in Nat PROVE IsFiniteSet(Own(k)) /\ Cardinality(Own(k)) = k
  BY KeyUnits
<1>2. Units(f) = Rest \cup Own(f[c]) /\ Rest \cap Own(f[c]) = {}
  BY DEF Units
<1>3. Units(F) = Rest \cup Own(n) /\ Rest \cap Own(n) = {}
  BY DEF Units
<1>4. IsFiniteSet(Rest) /\ Cardinality(Rest) \in Nat
  BY FS_Subset, FS_CardinalityType
<1> HIDE DEF Rest, Own, F
<1>5. Cardinality(Units(f)) = Cardinality(Rest) + f[c]
  <2>1. Cardinality(Rest \cup Own(f[c])) = Cardinality(Rest) + f[c] - 0
    BY <1>1, <1>2, <1>4, FS_Union, FS_EmptySet
  <2>2. QED
    BY <1>2, <1>4, <2>1
<1>6. IsFiniteSet(Units(F)) /\ Cardinality(Units(F)) = Cardinality(Rest) + n
  <2>1. IsFiniteSet(Rest \cup Own(n)) /\ Cardinality(Rest \cup Own(n)) = Cardinality(Rest) + n - 0
    <3>1. IsFiniteSet(Own(n)) /\ Cardinality(Own(n)) = n
      BY <1>1
    <3>2. Rest \cap Own(n) = {} /\ Cardinality({}) = 0
      BY <1>3, FS_EmptySet
    <3>3. /\ IsFiniteSet(Rest \cup Own(n))
          /\ Cardinality(Rest \cup Own(n))
               = Cardinality(Rest) + Cardinality(Own(n)) - Cardinality(Rest \cap Own(n))
      BY <1>4, <3>1, FS_Union
    <3>4. QED
      BY <3>1, <3>2, <3>3
  <2>2. QED
    BY <1>3, <1>4, <2>1
<1>7. QED
  BY <1>4, <1>5, <1>6 DEF F
-----------------------------------------------------------------------------
(***************************************************************************)
(* What a step does to a region.                                           *)
(***************************************************************************)

(* A region changes when a chunk is reserved in it, when the grant for the *)
(* chunk is confirmed, when a return is booked or when a debt is recorded. *)
LEMMA RegionSteps ==
  ASSUME LoanKept, [Next]_vars, NEW r \in Regions
  PROVE  \/ region'[r] = region[r]
         \/ \E c \in Consumers : region'[r] =
              Reserve(region[r], Lowest(req[c].unbacked, FreeGranules(region[r], RegionSize[r])))
         \/ \E c \in Consumers :
              region'[r] = handle_reserved_alloc(region[r], req[c].chunk, req[c].granted)
         \/ \E t \in Threads : \E i \in duty[t][r] :
              region'[r] = bookkeep_returned_eph_memory(region[r], i)
         \/ \E t \in Revokers : region'[r] = OweRest(region[r], revoke[t].remaining)
<1>1. region \in [Regions -> Region]
  BY DEF LoanKept, Lifecycle, WellFormed, TypeOK
<1>2. ASSUME NEW c \in Consumers, RequestStep(c), ~InnerTake(c), ~Confirm(c)
      PROVE  UNCHANGED region
  BY <1>2 DEF RequestStep, ReserveContig, InnerSkip, InnerNone, Donate, GiveBack, CommitOne,
       CommitDone, Unbacked, UnbackedDone, Retain, RetainNone, AddCapacity, WaitAdd, Partition,
       PartitionDone, Respond, allocVars
<1>3. ASSUME NEW c \in Consumers, InnerTake(c)
      PROVE  \/ region'[r] = region[r]
             \/ region'[r] = Reserve(region[r],
                  Lowest(req[c].unbacked, FreeGranules(region[r], RegionSize[r])))
  BY <1>1, <1>3 DEF InnerTake
<1>4. ASSUME NEW c \in Consumers, Confirm(c)
      PROVE  \/ region'[r] = region[r]
             \/ region'[r] = handle_reserved_alloc(region[r], req[c].chunk, req[c].granted)
  BY <1>1, <1>4 DEF Confirm
<1>5. ASSUME NEW t \in Threads, ReturnStep(t)
      PROVE  \/ region'[r] = region[r]
             \/ \E i \in duty[t][r] : region'[r] = bookkeep_returned_eph_memory(region[r], i)
  <2>1. CASE \E q \in Regions : DonBook(t, q)
    BY <1>1, <2>1 DEF DonBook
  <2>2. CASE ~\E q \in Regions : DonBook(t, q)
    <3>1. UNCHANGED region
      BY <1>5, <2>2 DEF ReturnStep, OrganizeOne, OrganizeDone, ConsumersDone, DonorsDone,
           RelClaim, RelQmp, RelWait, RelRemove, DonQmp, allocVars
    <3>2. QED
      BY <3>1
  <2>3. QED
    BY <2>1, <2>2
<1>6. ASSUME NEW t \in Revokers, RevokeStep(t)
      PROVE  region'[r] = region[r] \/ region'[r] = OweRest(region[r], revoke[t].remaining)
  BY <1>1, <1>6 DEF RevokeStep, RevokeLock, RevokeSelect, RevokeReturn, allocVars
<1>7. CASE DetectorStep \/ EventStep \/ Environment \/ UNCHANGED vars
  BY <1>7 DEF DetectorStep, DetRemove, DetExited, DetConsumer, DetDonor, DetSelect, DetReturn,
       EventStep, EvtTake, EvtAdd, EvtGap, EvtRelease, Environment, RequestArrives, GuestAdds,
       GuestReleases, DonorRevokes, VmExits, vars, allocVars
<1>8. CASE \E c \in Consumers : RequestStep(c)
  BY <1>2, <1>3, <1>4, <1>8
<1>9. CASE \E t \in Threads : ReturnStep(t)
  BY <1>5, <1>9
<1>10. CASE \E t \in Revokers : RevokeStep(t)
  BY <1>6, <1>10
<1>11. QED
  BY <1>7, <1>8, <1>9, <1>10 DEF Next

(* donated covers the map and fits in the region, and debts are whole. *)
LEMMA RegionAccounts ==
  ASSUME LoanKept, [Next]_vars, NEW r \in Regions,
         Granularity * Cardinality(region[r].allocations) <= region[r].donated,
         region[r].donated <= RegionSize[r],
         region[r].revoked_owed % Granularity = 0
  PROVE  /\ Granularity * Cardinality(region'[r].allocations) <= region'[r].donated
         /\ region'[r].donated <= RegionSize[r]
         /\ region'[r].revoked_owed % Granularity = 0
<1> DEFINE Kept(reg) == /\ Granularity * Cardinality(reg.allocations) <= reg.donated
                        /\ reg.donated <= RegionSize[r]
                        /\ reg.revoked_owed % Granularity = 0
           reg == region[r]
<1>1. /\ nextId \in Nat /\ reg.allocations \in SUBSET Ids /\ reg.donated \in Nat
      /\ reg.revoked_owed \in Nat /\ RegionSize[r] \in Nat /\ reg \in Region
  BY OrchestratorAssumption DEF LoanKept, Lifecycle, WellFormed, TypeOK, Region
<1>2. /\ IsFiniteSet(reg.allocations) /\ Cardinality(reg.allocations) \in Nat
      /\ Granularity * Cardinality(reg.allocations) \in Nat
  BY <1>1, IdsAreFinite, GranuleOrder
<1>3. Granularity \in Nat /\ Granularity >= 1
  BY GranularityAssumption
<1>4. ASSUME NEW c \in Consumers
      PROVE  Kept(Reserve(reg, Lowest(req[c].unbacked, FreeGranules(reg, RegionSize[r]))))
  <2> DEFINE n     == FreeGranules(reg, RegionSize[r])
             chunk == Lowest(req[c].unbacked, n)
             size  == Granularity * Cardinality(chunk)
             all   == reg.allocations \cup chunk
  <2>1. n \in Nat /\ Granularity * n <= RegionSize[r] - reg.donated
    <3>1. RegionSize[r] - reg.donated \in Nat
      BY <1>1
    <3>2. QED
      BY <3>1, Rounding DEF FreeGranules
  <2>2. req[c].unbacked \in SUBSET (0..nextId) /\ req[c].unbacked \in SUBSET Ids
    <3>1. req[c].unbacked \in SUBSET Ids
      BY DEF LoanKept, Lifecycle, WellFormed, TypeOK, Request
    <3>2. QED
      BY <1>1, <3>1 DEF Ids
  <2> HIDE DEF n
  <2>3. IsFiniteSet(chunk) /\ Cardinality(chunk) \in Nat /\ Cardinality(chunk) <= n
    BY <1>1, <2>1, <2>2, LowestCardinality
  <2> HIDE DEF chunk
  <2>4. size \in Nat /\ size <= Granularity * n /\ Granularity * n \in Nat
    BY <2>1, <2>3, GranuleOrder
  <2>5. /\ Reserve(reg, chunk).allocations = all
        /\ Reserve(reg, chunk).donated = reg.donated + size
        /\ Reserve(reg, chunk).revoked_owed = reg.revoked_owed
    BY <1>1 DEF Reserve, Region
  <2>6. Cardinality(all) \in Nat /\ Cardinality(all) <= Cardinality(reg.allocations) + Cardinality(chunk)
    <3>1. /\ IsFiniteSet(all)
          /\ Cardinality(all) = Cardinality(reg.allocations) + Cardinality(chunk)
                                 - Cardinality(reg.allocations \cap chunk)
      BY <1>2, <2>3, FS_Union
    <3>2. Cardinality(reg.allocations \cap chunk) \in Nat
      BY <1>2, FS_Intersection, FS_CardinalityType
    <3>3. Cardinality(all) \in Nat
      BY <3>1, FS_CardinalityType
    <3> HIDE DEF all
    <3>4. QED
      BY <1>2, <2>3, <3>1, <3>2, <3>3
  <2>7. Granularity * Cardinality(all) <= reg.donated + size
    <3>1. Granularity * Cardinality(all)
            <= Granularity * (Cardinality(reg.allocations) + Cardinality(chunk))
      BY <1>2, <2>3, <2>6, GranuleOrder
    <3>2. Granularity * (Cardinality(reg.allocations) + Cardinality(chunk))
            = Granularity * Cardinality(reg.allocations) + size
      BY <1>2, <2>3, GranuleOrder
    <3>3. Granularity * Cardinality(all) \in Nat
      BY <2>6, GranuleOrder
    <3>4. QED
      BY <1>1, <1>2, <2>4, <3>1, <3>2, <3>3
  <2>8. reg.donated + size <= RegionSize[r]
    BY <1>1, <2>1, <2>4
  <2>9. QED
    BY <2>5, <2>7, <2>8 DEF chunk, n
<1>5. ASSUME NEW S \in SUBSET reg.allocations
      PROVE  Granularity * Cardinality(S) <= reg.donated
  <2>1. Cardinality(S) \in Nat /\ Cardinality(S) <= Cardinality(reg.allocations)
    BY <1>2, <1>5, FS_Subset, FS_CardinalityType
  <2>2. /\ Granularity * Cardinality(S) \in Nat
        /\ Granularity * Cardinality(S) <= Granularity * Cardinality(reg.allocations)
    BY <1>2, <2>1, GranuleOrder
  <2>3. QED
    BY <1>1, <1>2, <2>2
<1>6. ASSUME NEW c \in Consumers
      PROVE  Kept(handle_reserved_alloc(reg, req[c].chunk, req[c].granted))
  <2> DEFINE ids == req[c].chunk
             g   == req[c].granted
             new == handle_reserved_alloc(reg, ids, g)
  <2>1. /\ new.donated = reg.donated /\ new.allocations \subseteq reg.allocations
        /\ new.revoked_owed = reg.revoked_owed - Owed(reg, ids, g)
    BY <1>1 DEF handle_reserved_alloc, Region
  <2>2. new.revoked_owed % Granularity = 0
    <3>1. ids \in SUBSET Ids /\ g \in Nat
      BY DEF LoanKept, Lifecycle, WellFormed, TypeOK, Request
    <3>2. PICK k \in Nat : Usable(ids, g) = Granularity * k
      <4> DEFINE m == MinOf(g, Granularity * Cardinality(ids))
      <4>1. Granularity * Cardinality(ids) \in Nat
        BY <1>1, <3>1, IdsAreFinite, GranuleOrder
      <4>2. m \in Nat
        BY <3>1, <4>1 DEF MinOf
      <4>3. Usable(ids, g) = m - (m % Granularity)
        BY DEF Usable
      <4> HIDE DEF m
      <4>4. /\ m \div Granularity \in Nat /\ m % Granularity \in Nat
            /\ m = Granularity * (m \div Granularity) + (m % Granularity)
        BY <4>2, Rounding
      <4>5. Granularity * (m \div Granularity) \in Nat
        BY <4>4, GranuleOrder
      <4>6. m - (m % Granularity) = Granularity * (m \div Granularity)
        BY <4>2, <4>4, <4>5
      <4>7. QED
        BY <4>3, <4>4, <4>6
    <3>3. new.revoked_owed = reg.revoked_owed - MinOf(reg.revoked_owed, Granularity * k)
      BY <2>1, <3>2 DEF Owed
    <3>4. QED
      BY <1>1, <3>3, GranulesStayWhole
  <2>3. QED
    BY <1>5, <2>1, <2>2
<1>7. ASSUME NEW t \in Threads, NEW i \in duty[t][r]
      PROVE  Kept(bookkeep_returned_eph_memory(reg, i))
  <2>1. i \in reg.allocations
    BY DEF LoanKept, DutyIsTracked
  <2> DEFINE rest == reg.allocations \ {i}
  <2>2. Cardinality(rest) \in Nat /\ Cardinality(reg.allocations) = Cardinality(rest) + 1
    <3>1. IsFiniteSet(rest) /\ Cardinality(rest) = Cardinality(reg.allocations) - 1
      BY <1>2, <2>1, FS_RemoveElement
    <3>2. Cardinality(rest) \in Nat
      BY <3>1, FS_CardinalityType
    <3> HIDE DEF rest
    <3>3. QED
      BY <1>2, <3>1, <3>2
  <2> HIDE DEF rest
  <2>3. /\ Granularity * Cardinality(reg.allocations) = Granularity * Cardinality(rest) + Granularity
        /\ Granularity * Cardinality(rest) \in Nat
    <3>1. Granularity * (Cardinality(rest) + 1) = Granularity * Cardinality(rest) + Granularity * 1
      BY <2>2, GranuleOrder
    <3>2. Granularity * Cardinality(rest) \in Nat
      BY <2>2, GranuleOrder
    <3>3. QED
      BY <1>3, <2>2, <3>1, <3>2
  <2>4. reg.donated >= Granularity /\ Granularity * Cardinality(rest) <= reg.donated - Granularity
    BY <1>1, <1>3, <2>3
  <2>5. /\ bookkeep_returned_eph_memory(reg, i).allocations = rest
        /\ bookkeep_returned_eph_memory(reg, i).donated = reg.donated - Granularity
        /\ bookkeep_returned_eph_memory(reg, i).revoked_owed = reg.revoked_owed
    BY <1>1, <1>3, <2>1, <2>4 DEF bookkeep_returned_eph_memory, Region, rest
  <2>6. QED
    BY <1>1, <1>3, <2>4, <2>5
<1>8. ASSUME NEW t \in Revokers
      PROVE  Kept(OweRest(reg, revoke[t].remaining))
  <2>1. revoke[t].remaining \in Nat
    BY DEF LoanKept, Lifecycle, WellFormed, TypeOK
  <2> DEFINE new == OweRest(reg, revoke[t].remaining)
  <2>2. /\ new.donated = reg.donated /\ new.allocations = reg.allocations
        /\ new.revoked_owed = reg.revoked_owed + Granularity * revoke[t].remaining
    BY <1>1 DEF OweRest, Region
  <2>3. new.revoked_owed % Granularity = 0
    BY <1>1, <2>1, <2>2, GranulesStayWhole
  <2>4. QED
    BY <2>2, <2>3
<1>9. Kept(reg)
  OBVIOUS
<1> HIDE DEF Kept
<1>10. Kept(region'[r])
  BY <1>4, <1>6, <1>7, <1>8, <1>9, RegionSteps
<1>11. QED
  BY <1>10 DEF Kept

-----------------------------------------------------------------------------
(***************************************************************************)
(* The smaller invariants: faults, exits, grants and duties.               *)
(***************************************************************************)

(* VMs do not come back, and a run has no more faults left than before. *)
LEMMA FaultSteps ==
  ASSUME TypeOK, [Next]_vars
  PROVE  alive' \subseteq alive /\ budget'.faults \in Nat /\ budget'.faults <= budget.faults
<1>1. budget \in [requests : Nat, revokes : Nat, faults : Nat]
  BY DEF TypeOK
<1> DEFINE Goal == alive' \subseteq alive /\ budget'.faults \in Nat /\ budget'.faults <= budget.faults
<1>2. UNCHANGED <<alive, budget>> => Goal
  BY <1>1
<1>3. ASSUME NEW v, IoOk(v) \/ IoErr(v), UNCHANGED alive PROVE Goal
  BY <1>1, <1>3 DEF IoOk, IoErr
<1>4. ASSUME NEW c \in Consumers, RequestStep(c) PROVE Goal
  <2>1. CASE Donate(c) \/ GiveBack(c) \/ AddCapacity(c)
    BY <1>3, <2>1 DEF Donate, GiveBack, AddCapacity
  <2>2. CASE Respond(c)
    BY <1>2, <1>3, <2>2 DEF Respond
  <2>3. CASE ~(Donate(c) \/ GiveBack(c) \/ AddCapacity(c) \/ Respond(c))
    BY <1>2, <1>4, <2>3 DEF RequestStep, ReserveContig, InnerSkip, InnerTake, InnerNone, Confirm,
         CommitOne, CommitDone, Unbacked, UnbackedDone, Retain, RetainNone, WaitAdd, Partition,
         PartitionDone, vmVars
  <2>4. QED
    BY <2>1, <2>2, <2>3
<1>5. ASSUME NEW t \in Threads, ReturnStep(t) PROVE Goal
  <2>1. CASE \E c \in Consumers : RelQmp(t, c)
    BY <1>3, <2>1 DEF RelQmp
  <2>2. CASE \E r \in Regions : DonQmp(t, r)
    BY <1>3, <2>2 DEF DonQmp
  <2>3. CASE ~((\E c \in Consumers : RelQmp(t, c)) \/ \E r \in Regions : DonQmp(t, r))
    BY <1>2, <1>5, <2>3 DEF ReturnStep, OrganizeOne, OrganizeDone, ConsumersDone, DonorsDone,
         RelClaim, RelWait, RelRemove, DonBook, vmVars
  <2>4. QED
    BY <2>1, <2>2, <2>3
<1>6. ASSUME NEW t \in Revokers, RevokeStep(t) PROVE Goal
  BY <1>2, <1>6 DEF RevokeStep, RevokeLock, RevokeSelect, RevokeReturn, vmVars
<1>7. CASE DetectorStep
  BY <1>2, <1>7 DEF DetectorStep, DetRemove, DetExited, DetConsumer, DetDonor, DetSelect,
       DetReturn, vmVars
<1>8. CASE EventStep
  <2>1. CASE EvtGap
    BY <1>3, <2>1 DEF EvtGap
  <2>2. CASE ~EvtGap
    BY <1>2, <1>8, <2>2 DEF EventStep, EvtTake, EvtAdd, EvtRelease, vmVars
  <2>3. QED
    BY <2>1, <2>2
<1>9. CASE Environment
  <2>1. ASSUME NEW c, NEW n, RequestArrives(c, n) PROVE Goal
    BY <1>1, <2>1 DEF RequestArrives
  <2>2. ASSUME NEW c, NEW S, GuestAdds(c, S) \/ GuestReleases(c, S) PROVE Goal
    BY <1>2, <2>2 DEF GuestAdds, GuestReleases
  <2>3. ASSUME NEW r, NEW n, DonorRevokes(r, n) PROVE Goal
    BY <1>1, <2>3 DEF DonorRevokes
  <2>4. ASSUME NEW v, VmExits(v) PROVE Goal
    BY <1>1, <2>4 DEF VmExits
  <2> HIDE DEF Goal
  <2>5. Goal
    BY <1>9, <2>1, <2>2, <2>3, <2>4 DEF Environment
  <2>6. QED
    BY <2>5 DEF Goal
<1>10. CASE UNCHANGED vars
  BY <1>2, <1>10 DEF vars, vmVars
<1>11. QED
  BY <1>4, <1>5, <1>6, <1>7, <1>8, <1>9, <1>10 DEF Next

(* Between its own steps a request thread keeps its place and its locals,  *)
(* except while it waits for a request or returns memory.                  *)
LEMMA ConsumerSteps ==
  ASSUME TypeOK, [Next]_vars, NEW b \in Consumers
  PROVE  \/ RequestStep(b)
         \/ pc'[b] = pc[b] /\ req'[b] = req[b]
         \/ /\ pc[b] \in {"idle", "organize", "consumers", "donors"}
            /\ pc'[b] \notin {"donate", "confirm", "give_back", "commit"}
<1>1. /\ b \in Threads /\ b \notin Revokers /\ b # Detector
      /\ pc \in [Threads -> Labels] /\ req \in [Consumers -> Request]
      /\ cont \in [Threads -> {"idle", "unbacked", "respond", "done", "consumer"}]
  BY OrchestratorAssumption DEF TypeOK, Threads, VMs
<1>2. ASSUME NEW c \in Consumers, RequestStep(c), c # b
      PROVE  pc'[b] = pc[b] /\ req'[b] = req[b]
  <2>1. pc'[b] = pc[b]
    BY <1>1, <1>2, RequestControl
  <2>2. req'[b] = req[b]
    BY <1>1, <1>2 DEF RequestStep, ReserveContig, InnerSkip, InnerTake, InnerNone, Donate,
         Confirm, GiveBack, CommitOne, CommitDone, Unbacked, UnbackedDone, Retain, RetainNone,
         AddCapacity, WaitAdd, Partition, PartitionDone, Respond
  <2>3. QED
    BY <2>1, <2>2
<1>3. ASSUME NEW t \in Threads, ReturnStep(t)
      PROVE  /\ req' = req
             /\ \/ pc'[b] = pc[b]
                \/ /\ pc[b] \in {"organize", "consumers", "donors"}
                   /\ pc'[b] \in {"consumers", "donors", cont[b]}
  BY <1>1, <1>3 DEF ReturnStep, OrganizeOne, OrganizeDone, ConsumersDone, DonorsDone, Goto,
       RelClaim, RelQmp, RelWait, RelRemove, DonQmp, DonBook
<1>4. ASSUME NEW t \in Revokers, RevokeStep(t)
      PROVE  pc'[b] = pc[b] /\ req'[b] = req[b]
  BY <1>1, <1>4 DEF RevokeStep, RevokeLock, RevokeSelect, RevokeReturn, Goto, CallReturn
<1>5. CASE DetectorStep \/ EventStep
  BY <1>1, <1>5 DEF DetectorStep, DetRemove, DetExited, DetConsumer, DetDonor, DetSelect,
       DetReturn, Goto, CallReturn, EventStep, EvtTake, EvtAdd, EvtGap, EvtRelease
<1>6. CASE Environment
  BY <1>1, <1>6 DEF Environment, RequestArrives, GuestAdds, GuestReleases, DonorRevokes,
       VmExits, threadVars, Goto
<1>7. CASE UNCHANGED vars
  BY <1>7 DEF vars, threadVars
<1>8. QED
  BY <1>1, <1>2, <1>3, <1>4, <1>5, <1>6, <1>7 DEF Next

(* A donor grants no more than it was asked for. *)
LEMMA GrantStep ==
  ASSUME LoanKept, [Next]_vars, GrantIsBounded
  PROVE  GrantIsBounded'
<1>1. TypeOK /\ nextId \in Nat /\ pc \in [Threads -> Labels] /\ req \in [Consumers -> Request]
  BY DEF LoanKept, Lifecycle, WellFormed, TypeOK
<1>2. SUFFICES ASSUME NEW b \in Consumers, pc'[b] = "confirm"
               PROVE  req'[b].granted <= Granularity * Cardinality(req'[b].chunk)
  BY DEF GrantIsBounded
<1>3. CASE pc'[b] = pc[b] /\ req'[b] = req[b]
  BY <1>2, <1>3 DEF GrantIsBounded
<1>4. CASE RequestStep(b)
  <2>1. b \in Threads /\ req[b] \in Request /\ pc[b] \in Labels
    BY <1>1 DEF Threads
  <2>2. Granularity * Cardinality(req[b].chunk) \in Nat
    BY <1>1, <2>1, IdsAreFinite, GranuleOrder DEF Request
  <2>3. CASE Donate(b)
    <3>1. PICK g \in 0..(Granularity * Cardinality(req[b].chunk)) : req' = [req EXCEPT ![b].granted = g]
      BY <2>2, <2>3 DEF Donate
    <3>2. req'[b].granted = g /\ req'[b].chunk = req[b].chunk
      BY <1>1, <3>1 DEF Request
    <3>3. QED
      BY <2>2, <3>1, <3>2
  <2>4. CASE ~Donate(b)
    BY <1>1, <1>2, <1>4, <2>1, <2>4 DEF RequestStep, ReserveContig, InnerSkip, InnerTake,
         InnerNone, Confirm, GiveBack, CommitOne, CommitDone, Unbacked, UnbackedDone, Retain,
         RetainNone, AddCapacity, WaitAdd, Partition, PartitionDone, Respond, Goto, CallReturn
  <2>5. QED
    BY <2>3, <2>4
<1>5. QED
  BY <1>1, <1>2, <1>3, <1>4, ConsumerSteps

(* A VM that is marked as exited does not run. *)
LEMMA ExitStep ==
  ASSUME LoanKept, [Next]_vars, ExitedIsDead
  PROVE  ExitedIsDead'
<1>1. /\ TypeOK /\ pc \in [Threads -> Labels] /\ Detector \in Threads
      /\ cont[Detector] \in {"idle", "unbacked", "respond", "done", "consumer"}
      /\ Detector \notin Consumers /\ Detector \notin Revokers
  BY OrchestratorAssumption DEF LoanKept, Lifecycle, WellFormed, TypeOK, Threads, VMs
<1>2. alive' \subseteq alive
  BY <1>1, FaultSteps
<1>3. ASSUME exited' \subseteq exited, pc'[Detector] = "exit" => pc[Detector] = "exit" /\ leaving' = leaving
      PROVE  ExitedIsDead'
  BY <1>2, <1>3 DEF ExitedIsDead
<1>4. CASE DetectorStep
  <2>1. ASSUME NEW v \in VMs, DetRemove(v) PROVE ExitedIsDead'
    BY <1>1, <1>2, <2>1 DEF DetRemove, ExitedIsDead, Goto
  <2>2. CASE DetExited
    BY <1>1, <1>2, <2>2 DEF DetExited, ExitedIsDead, Goto
  <2>3. CASE DetConsumer \/ DetDonor \/ DetSelect \/ DetReturn
    BY <1>1, <1>3, <2>3 DEF DetConsumer, DetDonor, DetSelect, DetReturn, Goto, CallReturn, allocVars
  <2>4. QED
    BY <1>4, <2>1, <2>2, <2>3 DEF DetectorStep
<1>5. ASSUME NEW c \in Consumers, RequestStep(c) PROVE ExitedIsDead'
  <2>1. pc'[Detector] = pc[Detector] /\ leaving' = leaving
    BY <1>1, <1>5, RequestControl
  <2>2. exited' = exited
    BY <1>5 DEF RequestStep, ReserveContig, InnerSkip, InnerTake, InnerNone, Donate, Confirm,
         GiveBack, CommitOne, CommitDone, Unbacked, UnbackedDone, Retain, RetainNone,
         AddCapacity, WaitAdd, Partition, PartitionDone, Respond, allocVars
  <2>3. QED
    BY <1>3, <2>1, <2>2
<1>6. ASSUME NEW t \in Threads, ReturnStep(t) PROVE ExitedIsDead'
  <2>1. exited' = exited /\ leaving' = leaving
    BY <1>6 DEF ReturnStep, OrganizeOne, OrganizeDone, ConsumersDone, DonorsDone, RelClaim,
         RelQmp, RelWait, RelRemove, DonQmp, DonBook, allocVars
  <2>2. pc'[Detector] \in {pc[Detector], "consumers", "donors", cont[Detector]}
    BY <1>1, <1>6 DEF ReturnStep, OrganizeOne, OrganizeDone, ConsumersDone, DonorsDone, RelClaim,
         RelQmp, RelWait, RelRemove, DonQmp, DonBook, Goto
  <2>3. QED
    BY <1>1, <1>3, <2>1, <2>2
<1>7. ASSUME NEW t \in Revokers, RevokeStep(t) PROVE ExitedIsDead'
  BY <1>1, <1>3, <1>7 DEF RevokeStep, RevokeLock, RevokeSelect, RevokeReturn, Goto, CallReturn,
       allocVars
<1>8. CASE EventStep
  BY <1>1, <1>3, <1>8 DEF EventStep, EvtTake, EvtAdd, EvtGap, EvtRelease, Goto, allocVars
<1>9. CASE Environment \/ UNCHANGED vars
  BY <1>1, <1>3, <1>9 DEF Environment, RequestArrives, GuestAdds, GuestReleases, DonorRevokes,
       VmExits, Goto, vars, allocVars, threadVars
<1>10. QED
  BY <1>4, <1>5, <1>6, <1>7, <1>8, <1>9 DEF Next

(* Who takes on and who gets rid of returns. *)
LEMMA DutySteps ==
  ASSUME TypeOK, [Next]_vars, NEW t \in Threads
  PROVE  \/ duty'[t] = duty[t]
         \/ t \in Consumers /\ CommitOne(t)
         \/ OrganizeOne(t)
         \/ /\ pc'[t] = pc[t] /\ (t \in Consumers => req'[t] = req[t])
            /\ \A r \in Regions : duty'[t][r] \subseteq duty[t][r]
<1>1. duty \in [Threads -> [Regions -> SUBSET Ids]]
  BY DEF TypeOK
<1>2. ASSUME NEW c \in Consumers, RequestStep(c), ~(c = t /\ CommitOne(c))
      PROVE  duty'[t] = duty[t]
  BY <1>1, <1>2 DEF RequestStep, ReserveContig, InnerSkip, InnerTake, InnerNone, Donate, Confirm,
       GiveBack, CommitOne, CommitDone, Unbacked, UnbackedDone, Retain, RetainNone,
       AddCapacity, WaitAdd, Partition, PartitionDone, Respond
<1>3. ASSUME NEW u \in Threads, OrganizeOne(u), u # t
      PROVE  duty'[t] = duty[t]
  BY <1>1, <1>3 DEF OrganizeOne
<1>4. ASSUME NEW u \in Threads, NEW q \in Regions, DonQmp(u, q) \/ DonBook(u, q)
      PROVE  /\ pc' = pc /\ req' = req
             /\ \A r \in Regions : duty'[t][r] \subseteq duty[t][r]
  BY <1>1, <1>4 DEF DonQmp, DonBook
<1>5. ASSUME NEW u \in Threads, ReturnStep(u), ~OrganizeOne(u),
             ~\E q \in Regions : DonQmp(u, q) \/ DonBook(u, q)
      PROVE  duty'[t] = duty[t]
  BY <1>5 DEF ReturnStep, OrganizeDone, ConsumersDone, DonorsDone, RelClaim, RelQmp, RelWait,
       RelRemove
<1>6. ASSUME NEW u \in Revokers, RevokeStep(u) PROVE duty'[t] = duty[t]
  BY <1>6 DEF RevokeStep, RevokeLock, RevokeSelect, RevokeReturn
<1>7. CASE DetectorStep \/ EventStep \/ Environment \/ UNCHANGED vars
  BY <1>7 DEF DetectorStep, DetRemove, DetExited, DetConsumer, DetDonor, DetSelect, DetReturn,
       EventStep, EvtTake, EvtAdd, EvtGap, EvtRelease, Environment, RequestArrives, GuestAdds,
       GuestReleases, DonorRevokes, VmExits, vars, threadVars
<1>8. QED
  BY <1>2, <1>3, <1>4, <1>5, <1>6, <1>7 DEF Next

(* A thread has something to return only while it commits a chunk or runs  *)
(* return_eph_memory_from_consumer.                                        *)
LEMMA TimelyStep ==
  ASSUME LoanKept, [Next]_vars, DutyIsTimely
  PROVE  DutyIsTimely'
<1>1. /\ TypeOK /\ pc \in [Threads -> Labels] /\ Consumers \subseteq Threads
      /\ duty \in [Threads -> [Regions -> SUBSET Ids]] /\ req \in [Consumers -> Request]
  BY DEF LoanKept, Lifecycle, WellFormed, TypeOK, Threads
<1>2. SUFFICES ASSUME NEW t \in Threads, NEW r \in Regions, duty'[t][r] # {}
               PROVE  \/ pc'[t] \in {"organize", "consumers", "donors"}
                      \/ t \in Consumers /\ pc'[t] = "commit" /\ req'[t].region = r
  BY DEF DutyIsTimely
<1>3. CASE t \in Consumers /\ CommitOne(t)
  <2>1. PICK i \in req[t].chunk :
          /\ duty' = IF alloc[i].state = "Abandoned"
                     THEN [duty EXCEPT ![t][req[t].region] = @ \cup {i}] ELSE duty
          /\ req' = [req EXCEPT ![t].chunk = @ \ {i}, ![t].unbacked = @ \ {i}]
    BY <1>3 DEF CommitOne
  <2>2. pc'[t] = "commit" /\ pc[t] = "commit" /\ req'[t].region = req[t].region
    BY <1>1, <1>3, <2>1 DEF CommitOne, Request
  <2>3. CASE duty[t][r] # {}
    BY <1>3, <2>2, <2>3 DEF DutyIsTimely
  <2>4. CASE duty[t][r] = {}
    BY <1>1, <1>2, <1>3, <2>1, <2>2, <2>4
  <2>5. QED
    BY <2>3, <2>4
<1>4. CASE OrganizeOne(t)
  BY <1>4 DEF OrganizeOne
<1>5. CASE /\ pc'[t] = pc[t] /\ (t \in Consumers => req'[t] = req[t])
           /\ \A q \in Regions : duty'[t][q] \subseteq duty[t][q]
  <2>1. duty[t][r] # {}
    BY <1>2, <1>5
  <2>2. QED
    BY <1>5, <2>1 DEF DutyIsTimely
<1>6. CASE duty'[t] = duty[t]
  <2>1. \/ pc[t] \in {"organize", "consumers", "donors"}
        \/ t \in Consumers /\ pc[t] = "commit" /\ req[t].region = r
    BY <1>2, <1>6 DEF DutyIsTimely
  <2>2. CASE pc[t] \in {"organize", "consumers", "donors"}
    <3>1. ASSUME NEW c \in Consumers, RequestStep(c) PROVE pc'[t] = pc[t]
      <4>1. CASE c # t
        BY <1>1, <3>1, <4>1, RequestControl
      <4>2. CASE c = t
        BY <2>2, <3>1, <4>2 DEF RequestStep, ReserveContig, InnerSkip, InnerTake, InnerNone,
             Donate, Confirm, GiveBack, CommitOne, CommitDone, Unbacked, UnbackedDone, Retain,
             RetainNone, AddCapacity, WaitAdd, Partition, PartitionDone, Respond
      <4>3. QED
        BY <4>1, <4>2
    <3>2. ASSUME NEW u \in Threads, ReturnStep(u) PROVE pc'[t] \in {"organize", "consumers", "donors"}
      <4>1. CASE DonorsDone(u)
        BY <1>1, <1>2, <1>6, <2>2, <4>1 DEF DonorsDone, Goto
      <4>2. CASE ~DonorsDone(u)
        BY <1>1, <2>2, <3>2, <4>2 DEF ReturnStep, OrganizeOne, OrganizeDone, ConsumersDone,
             RelClaim, RelQmp, RelWait, RelRemove, DonQmp, DonBook, Goto
      <4>3. QED
        BY <4>1, <4>2
    <3>3. ASSUME NEW u \in Revokers, RevokeStep(u) PROVE pc'[t] = pc[t]
      BY <1>1, <2>2, <3>3 DEF RevokeStep, RevokeLock, RevokeSelect, RevokeReturn, Goto, CallReturn
    <3>4. CASE DetectorStep \/ EventStep
      BY <1>1, <2>2, <3>4 DEF DetectorStep, DetRemove, DetExited, DetConsumer, DetDonor,
           DetSelect, DetReturn, Goto, CallReturn, EventStep, EvtTake, EvtAdd, EvtGap, EvtRelease
    <3>5. CASE Environment \/ UNCHANGED vars
      BY <1>1, <2>2, <3>5 DEF Environment, RequestArrives, GuestAdds, GuestReleases,
           DonorRevokes, VmExits, Goto, vars, threadVars
    <3>6. QED
      BY <2>2, <3>1, <3>2, <3>3, <3>4, <3>5 DEF Next
  <2>3. CASE t \in Consumers /\ pc[t] = "commit" /\ req[t].region = r
    <3>1. CASE pc'[t] = pc[t] /\ req'[t] = req[t]
      BY <2>3, <3>1
    <3>2. CASE CommitOne(t)
      BY <1>3, <2>3, <3>2
    <3>3. CASE CommitDone(t)
      BY <1>1, <1>2, <1>6, <2>3, <3>3 DEF CommitDone, Goto
    <3>4. RequestStep(t) => CommitOne(t) \/ CommitDone(t)
      BY <2>3 DEF RequestStep, ReserveContig, InnerSkip, InnerTake, InnerNone,
           Donate, Confirm, GiveBack, Unbacked, UnbackedDone, Retain,
           RetainNone, AddCapacity, WaitAdd, Partition, PartitionDone, Respond
    <3>5. QED
      BY <1>1, <2>3, <3>1, <3>2, <3>3, <3>4, ConsumerSteps
  <2>4. QED
    BY <2>1, <2>2, <2>3
<1>7. QED
  BY <1>1, <1>3, <1>4, <1>5, <1>6, DutySteps

-----------------------------------------------------------------------------
(***************************************************************************)
(* Most steps leave the accounts of every region alone.                    *)
(***************************************************************************)

(* While it is lent, an allocation is committed or claimed by a revoke. *)
IsLent(a) == a.state \in {"Committed", "PendingRelease"}

(* A request thread that neither starts, finishes nor is lending changes   *)
(* nothing in the accounts.                                                *)
LEMMA SameRequests ==
  ASSUME TypeOK, Ids \subseteq Ids', NEW r \in Regions,
         \A c \in Consumers :
           \/ pc'[c] = pc[c] /\ req'[c] = req[c]
           \/ /\ \/ pc[c] \notin {"donate", "confirm", "give_back", "commit"}
                 \/ pc[c] = "commit" /\ req[c].chunk = {}
              /\ pc'[c] \notin {"donate", "confirm", "give_back", "commit"}
  PROVE  Loose(r)' = Loose(r) /\ Confirming(r)' = Confirming(r) /\ Lending(r)' = Lending(r)
<1>1. \A c \in Consumers : req[c].chunk \subseteq Ids
  BY DEF TypeOK, Request
<1>2. Loose(r)' = Loose(r)
  <2>1. ASSUME NEW c \in Consumers PROVE Loose(r)'[c] = Loose(r)[c]
    BY <2>1 DEF Loose
  <2>2. QED
    BY <2>1 DEF Loose
<1>3. Confirming(r)' = Confirming(r)
  BY <1>1 DEF Confirming
<1>4. Lending(r)' = Lending(r)
  BY <1>1 DEF Lending
<1>5. QED
  BY <1>2, <1>3, <1>4

(* Returns and loans are the same when states, donors and duties are. *)
LEMMA SameLoaned ==
  ASSUME TypeOK, Ids \subseteq Ids', NEW r \in Regions, UNCHANGED <<duty, book>>,
         \A i \in Ids : /\ alloc'[i].donor_info = alloc[i].donor_info
                        /\ IsLent(alloc'[i]) <=> IsLent(alloc[i]),
         \A i \in Ids' \ Ids : alloc'[i].state = "PendingCommit"
  PROVE  InUse(r)' = InUse(r) /\ Unreturned(r)' = Unreturned(r) /\ InReturn(r)' = InReturn(r)
<1>1. \A t \in Threads : duty[t][r] \subseteq Ids
  BY DEF TypeOK
<1>2. QED
  BY <1>1 DEF InUse, Unreturned, InReturn, IsLent

(* What a step that no account depends on may change. *)
LEMMA QuietSteps ==
  ASSUME LoanKept, [Next]_vars,
         \A c \in Consumers :
           ~(InnerTake(c) \/ Donate(c) \/ Confirm(c) \/ GiveBack(c) \/ CommitOne(c)),
         \A t \in Threads :
           ~OrganizeOne(t) /\ \A r \in Regions : ~(DonQmp(t, r) \/ DonBook(t, r))
  PROVE  /\ UNCHANGED <<duty, book, held>> /\ Ids \subseteq Ids'
         /\ \A r \in Regions : region'[r].allocations = region[r].allocations
         /\ \A i \in Ids : /\ alloc'[i].donor_info = alloc[i].donor_info
                           /\ IsLent(alloc'[i]) <=> IsLent(alloc[i])
         /\ \A i \in Ids' \ Ids : alloc'[i].state = "PendingCommit"
         /\ \A c \in Consumers :
              \/ pc'[c] = pc[c] /\ req'[c] = req[c]
              \/ /\ \/ pc[c] \notin {"donate", "confirm", "give_back", "commit"}
                    \/ pc[c] = "commit" /\ req[c].chunk = {}
                 /\ pc'[c] \notin {"donate", "confirm", "give_back", "commit"}
<1>1. /\ TypeOK /\ nextId \in Nat \ {0} /\ alloc \in [Ids -> Allocation]
      /\ pc \in [Threads -> Labels] /\ Consumers \subseteq Threads /\ Revokers \subseteq Threads
      /\ region \in [Regions -> Region]
      /\ cont \in [Threads -> {"idle", "unbacked", "respond", "done", "consumer"}]
  BY DEF LoanKept, Lifecycle, WellFormed, TypeOK, Threads
<1> DEFINE Stays == /\ UNCHANGED <<duty, book, held>> /\ Ids \subseteq Ids'
                    /\ \A i \in Ids : /\ alloc'[i].donor_info = alloc[i].donor_info
                                      /\ IsLent(alloc'[i]) <=> IsLent(alloc[i])
                    /\ \A i \in Ids' \ Ids : alloc'[i].state = "PendingCommit"
<1>2. ASSUME UNCHANGED <<duty, book, held, nextId, alloc>> PROVE Stays
  BY <1>2 DEF Ids
<1>3. ASSUME NEW c \in Consumers, RequestStep(c) PROVE Stays
  <2>1. CASE ReserveContig(c)
    <3>1. PICK lo, hi \in 0..NumSlots :
            ContigRun(c) = <<lo, hi>> /\ lo <= hi /\ hi - lo <= req[c].left
      BY <1>1, ReserveRun
    <3>2. /\ alloc' = [i \in 1..(nextId + (hi - lo) - 1) |->
                        IF i < nextId THEN alloc[i]
                        ELSE NewAllocation(c, lo + (i - nextId))]
          /\ nextId' = nextId + (hi - lo)
      BY <2>1, <3>1 DEF ReserveContig
    <3>3. UNCHANGED <<duty, book, held>>
      BY <2>1 DEF ReserveContig, vmVars
    <3>4. lo \in Nat /\ hi \in Nat /\ hi - lo \in Nat
      BY <3>1, AllocationAssumption
    <3>5. Ids' = 1..(nextId + (hi - lo) - 1) /\ Ids \subseteq Ids'
      BY <1>1, <3>2, <3>4 DEF Ids
    <3>6. \A i \in Ids : alloc'[i] = alloc[i]
      BY <1>1, <3>2, <3>4, <3>5 DEF Ids
    <3>7. \A i \in Ids' \ Ids : alloc'[i].state = "PendingCommit"
      BY <1>1, <3>2, <3>4, <3>5 DEF Ids, NewAllocation
    <3>8. QED
      BY <3>3, <3>5, <3>6, <3>7
  <2>2. CASE ~ReserveContig(c)
    BY <1>2, <1>3, <2>2 DEF RequestStep, InnerSkip, InnerNone, CommitDone, Unbacked, UnbackedDone,
         Retain, RetainNone, AddCapacity, WaitAdd, Partition, PartitionDone, Respond, allocVars,
         vmVars
  <2>3. QED
    BY <2>1, <2>2
<1>4. ASSUME NEW t \in Threads, ReturnStep(t) PROVE Stays
  <2>1. CASE \E c \in Consumers : RelClaim(t, c)
    <3>1. UNCHANGED <<duty, book, held, nextId>>
      BY <2>1 DEF RelClaim, vmVars
    <3>2. \A i \in Ids : alloc'[i].state = alloc[i].state /\ alloc'[i].donor_info = alloc[i].donor_info
      BY <1>1, <2>1 DEF RelClaim, Allocation
    <3>3. QED
      BY <3>1, <3>2 DEF IsLent, Ids
  <2>2. CASE ~\E c \in Consumers : RelClaim(t, c)
    BY <1>2, <1>4, <2>2 DEF ReturnStep, OrganizeDone, ConsumersDone, DonorsDone, RelQmp, RelWait,
         RelRemove, allocVars, vmVars
  <2>3. QED
    BY <2>1, <2>2
<1>5. ASSUME NEW t \in Revokers, RevokeStep(t) PROVE Stays
  <2>1. UNCHANGED <<duty, book, held, nextId>>
    BY <1>5 DEF RevokeStep, RevokeLock, RevokeSelect, RevokeReturn, vmVars, allocVars
  <2>2. UNCHANGED alloc \/ RevokeSelect(t)
    BY <1>5 DEF RevokeStep, RevokeLock, RevokeReturn, allocVars
  <2>3. CASE RevokeSelect(t)
    <3>1. scan[t] \subseteq Ids
      BY <1>1 DEF TypeOK
    <3>2. PICK i \in scan[t] :
            \/ UNCHANGED alloc
            \/ is_committed(alloc[i]) /\ alloc' = [alloc EXCEPT ![i] = try_claim_for_revoke(@)]
      BY <2>3 DEF RevokeSelect
    <3>3. \A j \in Ids : /\ alloc'[j].donor_info = alloc[j].donor_info
                         /\ IsLent(alloc'[j]) <=> IsLent(alloc[j])
      BY <1>1, <3>1, <3>2 DEF is_committed, try_claim_for_revoke, IsLent, Allocation
    <3>4. QED
      BY <2>1, <3>3 DEF Ids
  <2>4. QED
    BY <1>2, <2>1, <2>2, <2>3
<1>6. ASSUME EvtAdd PROVE Stays
  <2>1. UNCHANGED <<duty, book, held, nextId>>
    BY <1>6 DEF EvtAdd, vmVars
  <2>2. \A i \in Ids : alloc'[i].state = alloc[i].state /\ alloc'[i].donor_info = alloc[i].donor_info
    BY <1>1, <1>6 DEF EvtAdd, Allocation
  <2>3. QED
    BY <2>1, <2>2 DEF IsLent, Ids
<1>7. ASSUME DetectorStep \/ (EventStep /\ ~EvtAdd) \/ Environment \/ UNCHANGED vars
      PROVE  Stays
  BY <1>2, <1>7 DEF DetectorStep, DetRemove, DetExited, DetConsumer, DetDonor, DetSelect, DetReturn,
       EventStep, EvtTake, EvtGap, EvtRelease, Environment, RequestArrives, GuestAdds,
       GuestReleases, DonorRevokes, VmExits, vars, threadVars, allocVars, vmVars
<1>8. Stays
  BY <1>3, <1>4, <1>5, <1>6, <1>7 DEF Next
<1>9. ASSUME NEW r \in Regions PROVE region'[r].allocations = region[r].allocations
  <2>1. UNCHANGED region \/ \E t \in Revokers : RevokeReturn(t)
    <3>1. ASSUME NEW c \in Consumers, RequestStep(c) PROVE UNCHANGED region
      BY <3>1 DEF RequestStep, ReserveContig, InnerSkip, InnerNone, CommitDone, Unbacked,
           UnbackedDone, Retain, RetainNone, AddCapacity, WaitAdd, Partition, PartitionDone,
           Respond, allocVars
    <3>2. ASSUME NEW t \in Threads, ReturnStep(t) PROVE UNCHANGED region
      BY <3>2 DEF ReturnStep, OrganizeDone, ConsumersDone, DonorsDone, RelClaim, RelQmp, RelWait,
           RelRemove, allocVars
    <3>3. ASSUME NEW t \in Revokers, RevokeStep(t), ~RevokeReturn(t) PROVE UNCHANGED region
      BY <3>3 DEF RevokeStep, RevokeLock, RevokeSelect, allocVars
    <3>4. ASSUME DetectorStep \/ EventStep \/ Environment \/ UNCHANGED vars PROVE UNCHANGED region
      BY <3>4 DEF DetectorStep, DetRemove, DetExited, DetConsumer, DetDonor, DetSelect, DetReturn,
           EventStep, EvtTake, EvtAdd, EvtGap, EvtRelease, Environment, RequestArrives, GuestAdds,
           GuestReleases, DonorRevokes, VmExits, vars, allocVars
    <3>5. QED
      BY <3>1, <3>2, <3>3, <3>4 DEF Next
  <2>2. CASE \E t \in Revokers : RevokeReturn(t)
    BY <1>1, <2>2 DEF RevokeReturn, OweRest, Region
  <2>3. QED
    BY <2>1, <2>2
<1>10. ASSUME NEW c \in Consumers
       PROVE  \/ pc'[c] = pc[c] /\ req'[c] = req[c]
              \/ /\ \/ pc[c] \notin {"donate", "confirm", "give_back", "commit"}
                    \/ pc[c] = "commit" /\ req[c].chunk = {}
                 /\ pc'[c] \notin {"donate", "confirm", "give_back", "commit"}
  <2>1. CASE RequestStep(c)
    BY <1>1, <2>1 DEF RequestStep, ReserveContig, InnerSkip, InnerNone, CommitDone, Unbacked,
         UnbackedDone, Retain, RetainNone, AddCapacity, WaitAdd, Partition, PartitionDone, Respond,
         Goto, CallReturn
  <2>2. QED
    BY <1>1, <2>1, ConsumerSteps
<1>11. QED
  BY <1>8, <1>9, <1>10

-----------------------------------------------------------------------------
(***************************************************************************)
(* What the donor counts as given away covers what is due to it.           *)
(***************************************************************************)
LEMMA DueTypes ==
  ASSUME TypeOK, NEW r \in Regions
  PROVE  /\ Loose(r) \in [Consumers -> Nat] /\ held[r] \in Int
         /\ Backed(r) \subseteq Ids /\ IsFiniteSet(Backed(r)) /\ Cardinality(Backed(r)) \in Nat
         /\ Granularity * Cardinality(Backed(r)) \in Nat
<1>1. nextId \in Nat /\ req \in [Consumers -> Request] /\ held \in [Regions -> Int]
  BY DEF TypeOK
<1>2. Loose(r) \in [Consumers -> Nat]
  BY <1>1 DEF Loose, Request
<1>3. Backed(r) \subseteq Ids
  BY DEF Backed, InUse, Unreturned, Confirming
<1>4. QED
  BY <1>1, <1>2, <1>3, IdsAreFinite, GranuleOrder

(* Without a grant or a return, less is due only when the donor failed. *)
LEMMA CoveredShrinks ==
  ASSUME TypeOK, TypeOK', NEW r \in Regions, Covered(r),
         held'[r] = held[r], Loose(r)' = Loose(r), Backed(r)' \subseteq Backed(r),
         FaultFree(r)' => FaultFree(r) /\ Backed(r)' = Backed(r)
  PROVE  Covered(r)'
<1> DEFINE b == Cardinality(Backed(r))
           u == Cardinality(Units(Loose(r)))
<1>1. /\ b \in Nat /\ held[r] \in Int /\ IsFiniteSet(Backed(r)) /\ Granularity * b \in Nat
  BY DueTypes
<1>2. b' \in Nat /\ b' <= b
  BY <1>1, FS_Subset, FS_CardinalityType
<1>3. Granularity * (b') \in Nat /\ Granularity * (b') <= Granularity * b
  BY <1>1, <1>2, GranuleOrder
<1>4. Units(Loose(r))' = Units(Loose(r))
  BY DEF Units
<1>5. IsFiniteSet(Units(Loose(r)))' /\ u \in Nat /\ u' = u
  BY <1>4, FS_CardinalityType DEF Covered
<1>6. Due(r) = Granularity * b + u /\ Due(r)' = Granularity * (b') + u
  BY <1>5 DEF Due
<1>7. FaultFree(r)' => b' = b
  OBVIOUS
<1> HIDE DEF b, u
<1>8. held[r] >= Granularity * b + u /\ (FaultFree(r) => held[r] = Granularity * b + u)
  BY <1>6 DEF Covered
<1>9. held'[r] >= Granularity * (b') + u
  BY <1>1, <1>3, <1>5, <1>8
<1>10. FaultFree(r)' => held'[r] = Granularity * (b') + u
  BY <1>7, <1>8
<1>11. QED
  BY <1>5, <1>6, <1>9, <1>10 DEF Covered

(* What is backed and what is loose change by as much as the donor counts. *)
LEMMA CoveredMoves ==
  ASSUME TypeOK, TypeOK', NEW r \in Regions, Covered(r), NEW c \in Consumers, NEW n \in Nat,
         Loose(r)' = [Loose(r) EXCEPT ![c] = n],
         NEW more \in Nat, Cardinality(Backed(r))' = Cardinality(Backed(r)) + more,
         NEW slack \in Nat,
         held'[r] = ((held[r] + Granularity * more) - Loose(r)[c]) + n + slack,
         FaultFree(r)' => FaultFree(r) /\ slack = 0
  PROVE  Covered(r)'
<1> DEFINE b == Cardinality(Backed(r))
           u == Cardinality(Units(Loose(r)))
           l == Loose(r)[c]
<1>1. /\ b \in Nat /\ held[r] \in Int /\ Granularity * b \in Nat /\ l \in Nat
      /\ Loose(r) \in [Consumers -> Nat]
  BY DueTypes
<1>2. Granularity * (b + more) = Granularity * b + Granularity * more /\ Granularity * more \in Nat
  BY <1>1, GranuleOrder
<1>3. IsFiniteSet(Units(Loose(r))) /\ u \in Nat
  BY FS_CardinalityType DEF Covered
<1>4. Units(Loose(r))' = Units([Loose(r) EXCEPT ![c] = n])
  BY DEF Units
<1>5. IsFiniteSet(Units(Loose(r)))' /\ u' = (u - l) + n
  <2>1. PICK f \in [Consumers -> Nat] : f = Loose(r)
    BY <1>1
  <2>2. PICK S : S = Consumers
    OBVIOUS
  <2>3. f \in [S -> Nat] /\ c \in S /\ IsFiniteSet(Units(f)) /\ n \in Nat
    BY <1>3, <2>1, <2>2
  <2>4. /\ IsFiniteSet(Units([f EXCEPT ![c] = n]))
        /\ Cardinality(Units([f EXCEPT ![c] = n])) = (Cardinality(Units(f)) - f[c]) + n
    BY ONLY <2>3, UnitsChange
  <2>5. QED
    BY <1>4, <2>1, <2>4
<1>6. u' \in Nat
  BY <1>5, FS_CardinalityType
<1>7. Due(r) = Granularity * b + u /\ Due(r)' = Granularity * (b + more) + u'
  BY DEF Due
<1> HIDE DEF b, u, l
<1>8. held[r] >= Granularity * b + u /\ (FaultFree(r) => held[r] = Granularity * b + u)
  BY <1>7 DEF Covered
<1>9. held'[r] = ((held[r] + Granularity * more) - l) + n + slack
  BY DEF l
<1>10. held'[r] >= Granularity * (b + more) + u'
  BY <1>1, <1>2, <1>3, <1>5, <1>8, <1>9
<1>11. FaultFree(r)' => held'[r] = Granularity * (b + more) + u'
  BY <1>1, <1>2, <1>3, <1>5, <1>8, <1>9
<1>12. QED
  BY <1>5, <1>7, <1>10, <1>11 DEF Covered

(* Once a command failed, a region is not free of faults. *)
LEMMA FaultKept ==
  ASSUME TypeOK, [Next]_vars, FaultsAreBounded, NEW r \in Regions
  PROVE  /\ FaultFree(r)' => FaultFree(r)
         /\ IoErr(DonorOf[r]) /\ alive' = alive => ~FaultFree(r)'
<1>1. /\ alive' \subseteq alive /\ budget'.faults \in Nat /\ budget'.faults <= budget.faults
      /\ budget.faults \in Nat /\ budget \in [requests : Nat, revokes : Nat, faults : Nat]
      /\ MaxFaults \in Nat /\ budget.faults <= MaxFaults
  BY FaultSteps, OrchestratorAssumption DEF TypeOK, FaultsAreBounded
<1>2. FaultFree(r)' => FaultFree(r)
  BY <1>1 DEF FaultFree
<1>3. ASSUME IoErr(DonorOf[r]), alive' = alive PROVE ~FaultFree(r)'
  BY <1>1, <1>3 DEF IoErr, FaultFree
<1>4. QED
  BY <1>2, <1>3

(* A grant is loose until it is confirmed. *)
LEMMA DonateCovered ==
  ASSUME LoanKept, TypeOK', [Next]_vars, FaultsAreBounded, HeldCoversDue,
         NEW c \in Consumers, Donate(c)
  PROVE  HeldCoversDue'
<1>1. /\ TypeOK /\ c \in Threads /\ Consumers \subseteq Threads /\ pc \in [Threads -> Labels]
      /\ req \in [Consumers -> Request] /\ req[c].region \in Regions
      /\ held \in [Regions -> Int] /\ nextId \in Nat
  BY DEF LoanKept, Lifecycle, WellFormed, TypeOK, RegionIsKnown, Request, Threads, Donate
<1>2. PICK r \in Regions : r = req[c].region
  BY <1>1
<1>3. /\ pc[c] = "donate" /\ pc' = [pc EXCEPT ![c] = "confirm"]
      /\ UNCHANGED <<alloc, nextId, duty, book, alive>>
  BY DEF Donate, Goto, allocVars
<1>4. PICK g \in Nat :
        /\ req' = [req EXCEPT ![c].granted = g]
        /\ held' = [held EXCEPT ![r] = @ + g]
  <2>1. Granularity * Cardinality(req[c].chunk) \in Nat
    BY <1>1, IdsAreFinite, GranuleOrder DEF Request
  <2>2. CASE \E g \in 0..(Granularity * Cardinality(req[c].chunk)) :
               /\ held' = [held EXCEPT ![r] = @ + g] /\ req' = [req EXCEPT ![c].granted = g]
    <3>1. PICK g \in 0..(Granularity * Cardinality(req[c].chunk)) :
            held' = [held EXCEPT ![r] = @ + g] /\ req' = [req EXCEPT ![c].granted = g]
      BY <2>2
    <3>2. g \in Nat
      BY <2>1, <3>1
    <3>3. QED
      BY <3>1, <3>2
  <2>3. CASE req' = [req EXCEPT ![c].granted = 0] /\ UNCHANGED held
    <3>1. held' = [held EXCEPT ![r] = @ + 0]
      BY <1>1, <2>3
    <3>2. QED
      BY <2>3, <3>1
  <2>4. QED
    BY <1>2, <2>2, <2>3 DEF Donate
<1>5. /\ \A b \in Consumers \ {c} : pc'[b] = pc[b] /\ req'[b] = req[b]
      /\ pc'[c] = "confirm" /\ req'[c].granted = g /\ req'[c].region = r
      /\ req'[c].chunk = req[c].chunk
  BY <1>1, <1>2, <1>3, <1>4 DEF Request
<1>6. ASSUME NEW q \in Regions PROVE Backed(q)' = Backed(q)
  <2>1. Ids' = Ids
    BY <1>3 DEF Ids
  <2>2. InUse(q)' = InUse(q) /\ Unreturned(q)' = Unreturned(q)
    BY <1>3, <2>1 DEF InUse, Unreturned
  <2>3. Confirming(q)' = Confirming(q)
    BY <1>3, <1>5, <2>1 DEF Confirming
  <2>4. QED
    BY <2>2, <2>3 DEF Backed
<1>7. ASSUME NEW q \in Regions
      PROVE  Loose(q)' = IF q = r THEN [Loose(q) EXCEPT ![c] = g] ELSE Loose(q)
  BY <1>2, <1>3, <1>5 DEF Loose
<1>8. SUFFICES ASSUME NEW q \in Regions PROVE Covered(q)'
  BY DEF HeldCoversDue
<1>9. Covered(q) /\ (FaultFree(q)' => FaultFree(q))
  BY <1>1, FaultKept DEF HeldCoversDue
<1>10. CASE q # r
  BY <1>1, <1>4, <1>6, <1>7, <1>9, <1>10, CoveredShrinks
<1>11. CASE q = r
  <2>1. Loose(q)[c] = 0
    BY <1>3 DEF Loose
  <2>2. Granularity * 0 = 0
    BY GranularityAssumption
  <2>3. held'[q] = held[q] + g /\ held[q] \in Int
    BY <1>1, <1>4, <1>11
  <2>4. held'[q] = ((held[q] + Granularity * 0) - Loose(q)[c]) + g + 0
    BY <2>1, <2>2, <2>3
  <2>5. Cardinality(Backed(q)) \in Nat
    BY <1>1, DueTypes
  <2>6. Cardinality(Backed(q))' = Cardinality(Backed(q)) + 0
    BY <1>6, <2>5
  <2>7. Loose(q)' = [Loose(q) EXCEPT ![c] = g]
    BY <1>7, <1>11
  <2>8. QED
    BY <1>1, <1>9, <2>4, <2>6, <2>7, CoveredMoves
<1>12. QED
  BY <1>10, <1>11

(* What is loose is matched with allocations or is to be given back. *)
LEMMA ConfirmCovered ==
  ASSUME LoanKept, TypeOK', [Next]_vars, FaultsAreBounded, OwedIsWhole, GrantIsBounded,
         HeldCoversDue, NEW c \in Consumers, Confirm(c)
  PROVE  HeldCoversDue'
<1>1. /\ TypeOK /\ c \in Threads /\ Consumers \subseteq Threads /\ pc \in [Threads -> Labels]
      /\ req \in [Consumers -> Request] /\ req[c].region \in Regions
      /\ held \in [Regions -> Int] /\ nextId \in Nat /\ region \in [Regions -> Region]
      /\ NoRegion \notin Regions
  BY AllocationAssumption
     DEF LoanKept, Lifecycle, WellFormed, TypeOK, RegionIsKnown, Request, Threads, Confirm, NoRegion
<1>2. PICK r \in Regions : r = req[c].region
  BY <1>1
<1>3. PICK g \in Nat : g = req[c].granted
  BY <1>1 DEF Request
<1>4. PICK ids \in SUBSET Ids : ids = req[c].chunk
  BY <1>1 DEF Request
<1> DEFINE conf == Confirmed(region[r], ids, g)
<1>5. PICK back \in Nat : back = GiveBackUnits(region[r], ids, g)
  BY <1>1, ConfirmTypes
<1>6. /\ pc[c] = "confirm" /\ pc' = [pc EXCEPT ![c] = IF back > 0 THEN "give_back" ELSE "commit"]
      /\ UNCHANGED <<alloc, nextId, duty, book, alive, held>>
      /\ req' = [req EXCEPT ![c].chunk = conf, ![c].granted = 0, ![c].give_back = back]
  BY <1>2, <1>3, <1>4, <1>5 DEF Confirm, Goto, vmVars
<1>7. /\ conf \subseteq ids
      /\ Cardinality(conf) \in Nat /\ IsFiniteSet(conf)
      /\ Granularity * Cardinality(conf) + back = g
  <2>1. ids \in SUBSET (0..nextId)
    BY <1>1, <1>4 DEF Ids
  <2>2. region[r].revoked_owed \in Nat /\ region[r].revoked_owed % Granularity = 0
    BY <1>1 DEF OwedIsWhole, Region
  <2>3. g <= Granularity * Cardinality(ids)
    BY <1>3, <1>4, <1>6 DEF GrantIsBounded
  <2>4. PICK reg : reg = region[r]
    OBVIOUS
  <2>5. /\ Confirmed(reg, ids, g) \subseteq ids
        /\ Granularity * Cardinality(Confirmed(reg, ids, g)) + GiveBackUnits(reg, ids, g) = g
    BY <1>1, <2>1, <2>2, <2>3, <2>4, ConfirmBalance
  <2>6. QED
    BY <1>1, <1>4, <1>5, <2>4, <2>5, IdsAreFinite
<1> HIDE DEF conf
<1>8. /\ \A b \in Consumers \ {c} : pc'[b] = pc[b] /\ req'[b] = req[b]
      /\ pc'[c] = IF back > 0 THEN "give_back" ELSE "commit"
      /\ req'[c].give_back = back /\ req'[c].region = r /\ req'[c].chunk = conf
  BY <1>1, <1>2, <1>6 DEF Request
<1>9. Ids' = Ids
  BY <1>6 DEF Ids
<1>10. ASSUME NEW q \in Regions
       PROVE  /\ InUse(q)' = InUse(q) /\ Unreturned(q)' = Unreturned(q)
              /\ Confirming(q)' = IF q = r THEN Confirming(q) \cup conf ELSE Confirming(q)
  <2>1. InUse(q)' = InUse(q) /\ Unreturned(q)' = Unreturned(q)
    BY <1>6, <1>9 DEF InUse, Unreturned
  <2>2. conf \subseteq Ids
    BY <1>7
  <2>3. Confirming(q)' = IF q = r THEN Confirming(q) \cup conf ELSE Confirming(q)
    BY <1>6, <1>8, <1>9, <2>2 DEF Confirming
  <2>4. QED
    BY <2>1, <2>3
<1>11. ASSUME NEW q \in Regions
       PROVE  Loose(q)' = IF q = r THEN [Loose(q) EXCEPT ![c] = back] ELSE Loose(q)
  <2>1. \A b \in Consumers \ {c} : Loose(q)'[b] = Loose(q)[b]
    BY <1>8 DEF Loose
  <2>2. Loose(q)'[c] = IF q = r THEN back ELSE 0
    <3>1. pc'[c] # "confirm" /\ (pc'[c] = "give_back" \/ back = 0)
      BY <1>8
    <3>2. QED
      BY <1>8, <3>1 DEF Loose
  <2>3. q # r => Loose(q)[c] = 0
    BY <1>2 DEF Loose
  <2>4. QED
    BY <2>1, <2>2, <2>3 DEF Loose
<1>12. conf \cap Backed(r) = {}
  <2>1. SUFFICES ASSUME NEW i \in conf, i \in Backed(r) PROVE FALSE
    OBVIOUS
  <2>2. alloc[i].donor_info = NoRegion /\ alloc[i].consumer_vm = c
    BY <1>4, <1>7, <2>1 DEF LoanKept, Lifecycle, PendingIsUncommitted, MayCommit
  <2>3. i \notin InUse(r) /\ i \notin Unreturned(r)
    BY <1>1, <2>2 DEF InUse, Unreturned, LoanKept, Lifecycle, DutyIsAbandoned
  <2>4. i \notin Confirming(r)
    BY <1>6, <2>2 DEF Confirming, LoanKept, Lifecycle, PendingIsUncommitted
  <2>5. QED
    BY <2>1, <2>3, <2>4 DEF Backed
<1>13. SUFFICES ASSUME NEW q \in Regions PROVE Covered(q)'
  BY DEF HeldCoversDue
<1>14. Covered(q) /\ (FaultFree(q)' => FaultFree(q))
  BY <1>1, FaultKept DEF HeldCoversDue
<1>15. CASE q # r
  <2>1. Backed(q)' = Backed(q)
    BY <1>10, <1>15 DEF Backed
  <2>2. QED
    BY <1>1, <1>6, <1>11, <1>14, <1>15, <2>1, CoveredShrinks
<1>16. CASE q = r
  <2>1. Loose(q)[c] = g
    BY <1>2, <1>3, <1>6, <1>16 DEF Loose
  <2>2. PICK more \in Nat : more = Cardinality(conf)
    BY <1>7
  <2>3. held[q] \in Int /\ held'[q] = held[q] /\ Granularity * more \in Nat
    BY <1>1, <1>6, GranuleOrder
  <2>4. held'[q] = ((held[q] + Granularity * more) - Loose(q)[c]) + back + 0
    BY <1>7, <2>1, <2>2, <2>3
  <2>5. Cardinality(Backed(q))' = Cardinality(Backed(q)) + more
    <3>1. Backed(q)' = Backed(q) \cup conf
      BY <1>10, <1>16 DEF Backed
    <3>2. IsFiniteSet(Backed(q)) /\ Cardinality(Backed(q)) \in Nat
      BY <1>1, DueTypes
    <3>3. Cardinality(Backed(q) \cup conf)
            = Cardinality(Backed(q)) + Cardinality(conf) - Cardinality(Backed(q) \cap conf)
      BY <1>7, <3>2, FS_Union
    <3>4. Cardinality(Backed(q) \cap conf) = 0
      BY <1>12, <1>16, FS_EmptySet
    <3>5. QED
      BY <2>2, <3>1, <3>2, <3>3, <3>4
  <2>6. Loose(q)' = [Loose(q) EXCEPT ![c] = back]
    BY <1>11, <1>16
  <2>7. QED
    BY <1>1, <1>14, <2>4, <2>5, <2>6, CoveredMoves
<1>17. QED
  BY <1>15, <1>16

(* What is given back was loose; it stays away if the command fails. *)
LEMMA GiveBackCovered ==
  ASSUME LoanKept, TypeOK', [Next]_vars, FaultsAreBounded, HeldCoversDue,
         NEW c \in Consumers, GiveBack(c)
  PROVE  HeldCoversDue'
<1>1. /\ TypeOK /\ c \in Threads /\ Consumers \subseteq Threads /\ pc \in [Threads -> Labels]
      /\ req \in [Consumers -> Request] /\ req[c].region \in Regions
      /\ held \in [Regions -> Int] /\ nextId \in Nat
  BY DEF LoanKept, Lifecycle, WellFormed, TypeOK, RegionIsKnown, Request, Threads, GiveBack
<1>2. PICK r \in Regions : r = req[c].region
  BY <1>1
<1>3. PICK n \in Nat : n = req[c].give_back
  BY <1>1 DEF Request
<1>4. /\ pc[c] = "give_back" /\ pc' = [pc EXCEPT ![c] = "commit"]
      /\ UNCHANGED <<alloc, nextId, duty, book, alive>>
      /\ req' = [req EXCEPT ![c].give_back = 0]
  BY DEF GiveBack, Goto, allocVars
<1>5. /\ \A b \in Consumers \ {c} : pc'[b] = pc[b] /\ req'[b] = req[b]
      /\ pc'[c] = "commit" /\ req'[c].region = r /\ req'[c].chunk = req[c].chunk
  BY <1>1, <1>2, <1>4 DEF Request
<1>6. ASSUME NEW q \in Regions PROVE Backed(q)' = Backed(q)
  <2>1. Ids' = Ids
    BY <1>4 DEF Ids
  <2>2. InUse(q)' = InUse(q) /\ Unreturned(q)' = Unreturned(q)
    BY <1>4, <2>1 DEF InUse, Unreturned
  <2>3. Confirming(q)' = Confirming(q)
    BY <1>2, <1>4, <1>5, <2>1 DEF Confirming
  <2>4. QED
    BY <2>2, <2>3 DEF Backed
<1>7. ASSUME NEW q \in Regions
      PROVE  Loose(q)' = IF q = r THEN [Loose(q) EXCEPT ![c] = 0] ELSE Loose(q)
  <2>1. \A b \in Consumers \ {c} : Loose(q)'[b] = Loose(q)[b]
    BY <1>5 DEF Loose
  <2>2. Loose(q)'[c] = 0
    BY <1>5 DEF Loose
  <2>3. q # r => Loose(q)[c] = 0
    BY <1>2 DEF Loose
  <2>4. QED
    BY <2>1, <2>2, <2>3 DEF Loose
<1>8. SUFFICES ASSUME NEW q \in Regions PROVE Covered(q)'
  BY DEF HeldCoversDue
<1>9. /\ Covered(q) /\ (FaultFree(q)' => FaultFree(q))
      /\ IoErr(DonorOf[q]) => ~FaultFree(q)'
  BY <1>1, <1>4, FaultKept DEF HeldCoversDue
<1>10. held' = [held EXCEPT ![r] = @ - n] \/ (IoErr(DonorOf[r]) /\ held' = held)
  BY <1>2, <1>3 DEF GiveBack, DonorRegains
<1>11. CASE q # r
  <2>1. held'[q] = held[q]
    BY <1>1, <1>10, <1>11
  <2>2. QED
    BY <1>1, <1>6, <1>7, <1>9, <1>11, <2>1, CoveredShrinks
<1>12. CASE q = r
  <2>1. Loose(q)[c] = n
    BY <1>2, <1>3, <1>4, <1>12 DEF Loose
  <2>2. Granularity * 0 = 0 /\ held[q] \in Int
    BY <1>1, GranularityAssumption
  <2>3. Cardinality(Backed(q)) \in Nat
    BY <1>1, DueTypes
  <2>4. Cardinality(Backed(q))' = Cardinality(Backed(q)) + 0
    BY <1>6, <2>3
  <2>5. Loose(q)' = [Loose(q) EXCEPT ![c] = 0]
    BY <1>7, <1>12
  <2>6. CASE held' = [held EXCEPT ![r] = @ - n]
    <3>1. held'[q] = ((held[q] + Granularity * 0) - Loose(q)[c]) + 0 + 0
      BY <1>1, <1>12, <2>1, <2>2, <2>6
    <3>2. QED
      BY <1>1, <1>9, <2>4, <2>5, <3>1, CoveredMoves
  <2>7. CASE IoErr(DonorOf[r]) /\ held' = held
    <3>1. held'[q] = ((held[q] + Granularity * 0) - Loose(q)[c]) + 0 + n
      BY <1>1, <2>1, <2>2, <2>7
    <3>2. ~FaultFree(q)'
      BY <1>9, <1>12, <2>7
    <3>3. QED
      BY <1>1, <1>9, <2>4, <2>5, <3>1, <3>2, CoveredMoves
  <2>8. QED
    BY <1>10, <2>6, <2>7
<1>13. QED
  BY <1>11, <1>12

(* A commit puts an allocation in use, or among those to be returned. *)
LEMMA CommitCovered ==
  ASSUME LoanKept, TypeOK', [Next]_vars, FaultsAreBounded, HeldCoversDue,
         NEW c \in Consumers, CommitOne(c)
  PROVE  HeldCoversDue'
<1>1. /\ TypeOK /\ c \in Threads /\ Consumers \subseteq Threads
      /\ req \in [Consumers -> Request] /\ req[c].region \in Regions
      /\ alloc \in [Ids -> Allocation] /\ duty \in [Threads -> [Regions -> SUBSET Ids]]
      /\ NoRegion \notin Regions
  BY AllocationAssumption
     DEF LoanKept, Lifecycle, WellFormed, TypeOK, RegionIsKnown, Request, Threads, CommitOne, NoRegion
<1>2. PICK r \in Regions : r = req[c].region
  BY <1>1
<1>3. PICK i \in req[c].chunk :
        /\ alloc' = [alloc EXCEPT ![i] = commit_allocation(@, r)]
        /\ duty' = IF alloc[i].state = "Abandoned"
                   THEN [duty EXCEPT ![c][r] = @ \cup {i}] ELSE duty
        /\ req' = [req EXCEPT ![c].chunk = @ \ {i}, ![c].unbacked = @ \ {i}]
  BY <1>2 DEF CommitOne
<1>4. /\ pc[c] = "commit" /\ UNCHANGED <<pc, book, held, nextId, alive>> /\ Ids' = Ids /\ i \in Ids
  BY <1>1, <1>3 DEF CommitOne, vmVars, Ids, Request
<1>5. /\ alloc[i].donor_info = NoRegion /\ alloc[i].state \in {"PendingCommit", "Abandoned"}
      /\ \A b \in Consumers \ {c} : i \notin req[b].chunk
      /\ \A t \in Threads, q \in Regions : i \notin duty[t][q]
      /\ ~book[c][r]
  <2>1. MayCommit(alloc[i]) /\ alloc[i].consumer_vm = c
    BY <1>3 DEF LoanKept, Lifecycle, PendingIsUncommitted
  <2>2. \A b \in Consumers \ {c} : i \notin req[b].chunk
    BY <2>1 DEF LoanKept, Lifecycle, PendingIsUncommitted
  <2>3. \A t \in Threads, q \in Regions : i \notin duty[t][q]
    BY <1>1, <2>1 DEF LoanKept, Lifecycle, DutyIsAbandoned, MayCommit
  <2>4. ~book[c][r]
    BY <1>1, <1>4 DEF LoanKept, BookingIsDue
  <2>5. QED
    BY <2>1, <2>2, <2>3, <2>4 DEF MayCommit
<1>6. /\ \A j \in Ids \ {i} : alloc'[j] = alloc[j]
      /\ alloc'[i].donor_info = r
      /\ alloc'[i].state = IF alloc[i].state = "Abandoned" THEN "Abandoned" ELSE "Committed"
  BY <1>1, <1>3, <1>4, <1>5 DEF commit_allocation, Allocation
<1>7. /\ \A b \in Consumers \ {c} : req'[b] = req[b]
      /\ req'[c].region = r /\ req'[c].chunk = req[c].chunk \ {i}
  BY <1>1, <1>2, <1>3 DEF Request
<1>8. \A t \in Threads, q \in Regions :
        duty'[t][q] = IF t = c /\ q = r /\ alloc[i].state = "Abandoned"
                      THEN duty[t][q] \cup {i} ELSE duty[t][q]
  BY <1>1, <1>3
<1>9. ASSUME NEW q \in Regions PROVE Backed(q)' = Backed(q) /\ Loose(q)' = Loose(q)
  <2>1. ASSUME NEW j \in Ids \ {i} PROVE j \in Backed(q)' <=> j \in Backed(q)
    <3>1. j \in InUse(q)' <=> j \in InUse(q)
      BY <1>4, <1>6, <2>1 DEF InUse
    <3>2. j \in Unreturned(q)' <=> j \in Unreturned(q)
      <4>1. \A t \in Threads : j \in duty'[t][q] <=> j \in duty[t][q]
        BY <1>8, <2>1
      <4>2. QED
        BY <1>4, <2>1, <4>1 DEF Unreturned
    <3>3. j \in Confirming(q)' <=> j \in Confirming(q)
      BY <1>2, <1>4, <1>7, <2>1 DEF Confirming
    <3>4. QED
      BY <3>1, <3>2, <3>3 DEF Backed
  <2>2. i \in Backed(q) <=> q = r
    <3>1. i \notin InUse(q) /\ i \notin Unreturned(q)
      BY <1>1, <1>5 DEF InUse, Unreturned
    <3>2. i \in Confirming(q) <=> q = r
      BY <1>2, <1>3, <1>4, <1>5 DEF Confirming
    <3>3. QED
      BY <3>1, <3>2 DEF Backed
  <2>3. i \in Backed(q)' <=> q = r
    <3>1. i \notin Confirming(q)'
      BY <1>4, <1>5, <1>7 DEF Confirming
    <3>2. i \in InUse(q)' <=> q = r /\ alloc[i].state # "Abandoned"
      BY <1>4, <1>6 DEF InUse
    <3>3. i \in Unreturned(q)' <=> q = r /\ alloc[i].state = "Abandoned"
      <4>1. \A t \in Threads : i \in duty'[t][q] <=> t = c /\ q = r /\ alloc[i].state = "Abandoned"
        BY <1>5, <1>8
      <4>2. QED
        BY <1>1, <1>4, <1>5, <4>1 DEF Unreturned
    <3>4. QED
      BY <3>1, <3>2, <3>3 DEF Backed
  <2>4. Backed(q) \subseteq Ids /\ Backed(q)' \subseteq Ids
    BY <1>4 DEF Backed, InUse, Unreturned, Confirming
  <2>5. Backed(q)' = Backed(q)
    BY <2>1, <2>2, <2>3, <2>4
  <2>6. Loose(q)' = Loose(q)
    <3>1. \A b \in Consumers : Loose(q)'[b] = Loose(q)[b]
      BY <1>2, <1>4, <1>7 DEF Loose
    <3>2. QED
      BY <3>1 DEF Loose
  <2>7. QED
    BY <2>5, <2>6
<1>10. QED
  BY <1>1, <1>4, <1>9, FaultKept, CoveredShrinks DEF HeldCoversDue

(* An allocation in use becomes one to be returned, or is lost with its donor. *)
LEMMA OrganizeCovered ==
  ASSUME LoanKept, TypeOK', [Next]_vars, FaultsAreBounded, ExitedIsDead, HeldCoversDue,
         MapIsAccounted, NEW t \in Threads, OrganizeOne(t)
  PROVE  HeldCoversDue' /\ MapIsAccounted'
<1>1. /\ TypeOK /\ alloc \in [Ids -> Allocation] /\ duty \in [Threads -> [Regions -> SUBSET Ids]]
      /\ todo[t] \subseteq Ids /\ NoRegion \notin Regions
  BY AllocationAssumption DEF LoanKept, Lifecycle, WellFormed, TypeOK, NoRegion
<1>2. PICK i \in todo[t] :
        /\ alloc' = [alloc EXCEPT ![i] = abandon(@)]
        /\ duty' = IF TakesDonor(alloc[i]) /\ DonorOf[alloc[i].donor_info] \notin exited
                   THEN [duty EXCEPT ![t][alloc[i].donor_info] = @ \cup {i}] ELSE duty
  BY DEF OrganizeOne
<1> DEFINE d     == alloc[i].donor_info
           taken == TakesDonor(alloc[i]) /\ DonorOf[d] \notin exited
<1>3. /\ Ids' = Ids /\ i \in Ids /\ pc[t] = "organize"
      /\ UNCHANGED <<nextId, region, pc, req, book, held, alive, budget>>
  BY <1>1 DEF OrganizeOne, Ids, vmVars
<1>4. /\ \A j \in Ids \ {i} : alloc'[j] = alloc[j]
      /\ alloc'[i].state = "Abandoned" /\ d \in Regions \cup {NoRegion}
  BY <1>1, <1>2, <1>3 DEF abandon, Allocation
<1>5. TakesDonor(alloc[i]) => d \in Regions
  BY <1>3, <1>4 DEF TakesDonor, LoanKept, Lifecycle, CommittedIsTracked
<1>6. \A u \in Threads, q \in Regions :
        duty'[u][q] = IF u = t /\ q = d /\ taken THEN duty[u][q] \cup {i} ELSE duty[u][q]
  BY <1>1, <1>2, <1>5
<1>7. \A q \in Regions : ~book[t][q]
  BY <1>3 DEF LoanKept, BookingIsDue
<1>8. \A q \in Regions : Loose(q)' = Loose(q) /\ Confirming(q)' = Confirming(q) /\ Lending(q)' = Lending(q)
  BY <1>3 DEF Loose, Confirming, Lending
<1>9. ASSUME NEW q \in Regions, NEW j \in Ids \ {i}
      PROVE  /\ j \in InUse(q)' <=> j \in InUse(q)
             /\ j \in Unreturned(q)' <=> j \in Unreturned(q)
             /\ j \in InReturn(q)' <=> j \in InReturn(q)
  <2>1. j \in InUse(q)' <=> j \in InUse(q)
    BY <1>3, <1>4, <1>9 DEF InUse
  <2>2. \A u \in Threads : j \in duty'[u][q] <=> j \in duty[u][q]
    BY <1>6, <1>9
  <2>3. j \in Unreturned(q)' <=> j \in Unreturned(q)
    BY <1>3, <1>9, <2>2 DEF Unreturned
  <2>4. j \in InReturn(q)' <=> j \in InReturn(q)
    BY <1>3, <1>9, <2>2 DEF InReturn
  <2>5. QED
    BY <2>1, <2>3, <2>4
<1>10. ASSUME NEW q \in Regions, TakesDonor(alloc[i]), q = d, FaultFree(q) PROVE taken
  BY <1>10 DEF FaultFree, ExitedIsDead
<1> HIDE DEF taken
<1>11. ASSUME NEW q \in Regions, taken, q = d
       PROVE  i \in InUse(q) /\ i \in Unreturned(q)' /\ i \in InReturn(q)'
  <2>1. i \in duty'[t][q] /\ ~book'[t][q]
    BY <1>3, <1>6, <1>7, <1>11
  <2>2. i \in InUse(q)
    BY <1>3, <1>11 DEF InUse, TakesDonor, taken
  <2>3. QED
    BY <1>3, <2>1, <2>2 DEF Unreturned, InReturn
<1>12. ASSUME NEW q \in Regions, ~(taken /\ q = d)
       PROVE  /\ i \notin InUse(q)' /\ (FaultFree(q) => i \notin InUse(q))
              /\ i \in Unreturned(q)' <=> i \in Unreturned(q)
              /\ i \in InReturn(q)' <=> i \in InReturn(q)
  <2>1. \A u \in Threads : duty'[u][q] = duty[u][q]
    BY <1>6, <1>12
  <2>2. i \notin InUse(q)'
    BY <1>3, <1>4 DEF InUse
  <2>3. i \in InUse(q) => TakesDonor(alloc[i]) /\ q = d
    BY DEF InUse, TakesDonor
  <2>4. FaultFree(q) => i \notin InUse(q)
    BY <1>10, <1>12, <2>3
  <2>5. QED
    BY <1>3, <2>1, <2>2, <2>4 DEF Unreturned, InReturn
<1> HIDE DEF d
<1>13. ASSUME NEW q \in Regions PROVE Covered(q)'
  <2>1. /\ Confirming(q)' = Confirming(q)
        /\ \A x : x \in Backed(q) <=> x \in InUse(q) \/ x \in Unreturned(q) \/ x \in Confirming(q)
        /\ \A x : x \in Backed(q)' <=> x \in InUse(q)' \/ x \in Unreturned(q)' \/ x \in Confirming(q)
    BY <1>8 DEF Backed
  <2>2. \A x \in Ids \ {i} : x \in Backed(q)' <=> x \in Backed(q)
    BY <1>9, <2>1
  <2>3. /\ i \in Backed(q)' => i \in Backed(q)
        /\ FaultFree(q) => (i \in Backed(q)' <=> i \in Backed(q))
    <3>1. CASE taken /\ q = d
      BY <1>11, <2>1, <3>1
    <3>2. CASE ~(taken /\ q = d)
      BY <1>12, <2>1, <3>2
    <3>3. QED
      BY <3>1, <3>2
  <2>4. Backed(q) \subseteq Ids /\ Backed(q)' \subseteq Ids
    BY <1>3 DEF Backed, InUse, Unreturned, Confirming
  <2>5. Backed(q)' \subseteq Backed(q) /\ (FaultFree(q) => Backed(q)' = Backed(q))
    BY <2>2, <2>3, <2>4
  <2>6. QED
    BY <1>1, <1>3, <1>8, <2>5, FaultKept, CoveredShrinks DEF HeldCoversDue
<1>14. ASSUME NEW q \in Regions, FaultFree(q)', NEW j \in region'[q].allocations
       PROVE  j \in InUse(q)' \cup Lending(q)' \cup InReturn(q)'
  <2>1. FaultFree(q) /\ j \in region[q].allocations
    BY <1>1, <1>3, <1>14, FaultKept
  <2>2. j \in InUse(q) \cup Lending(q) \cup InReturn(q)
    BY <2>1 DEF MapIsAccounted
  <2>3. j \in Ids
    BY <2>2 DEF InUse, Lending, InReturn
  <2>4. CASE j # i
    BY <1>8, <1>9, <2>2, <2>3, <2>4
  <2>5. CASE j = i /\ taken /\ q = d
    BY <1>11, <2>5
  <2>6. CASE j = i /\ ~(taken /\ q = d)
    BY <1>8, <1>12, <2>1, <2>2, <2>6
  <2>7. QED
    BY <2>4, <2>5, <2>6
<1>15. QED
  BY <1>13, <1>14 DEF HeldCoversDue, MapIsAccounted

(* A return takes back what was due; it is lost when the command fails. *)
LEMMA DonQmpCovered ==
  ASSUME LoanKept, TypeOK', [Next]_vars, FaultsAreBounded, HeldCoversDue, MapIsAccounted,
         NEW t \in Threads, NEW r \in Regions, DonQmp(t, r)
  PROVE  HeldCoversDue' /\ MapIsAccounted'
<1>1. /\ TypeOK /\ duty \in [Threads -> [Regions -> SUBSET Ids]] /\ nextId \in Nat
      /\ book \in [Threads -> [Regions -> BOOLEAN]] /\ held \in [Regions -> Int]
      /\ NoRegion \notin Regions
  BY AllocationAssumption DEF LoanKept, Lifecycle, WellFormed, TypeOK, NoRegion
<1>2. /\ Ids' = Ids /\ UNCHANGED <<alloc, nextId, region, pc, req, alive>> /\ ~book[t][r]
  BY DEF DonQmp, Ids, allocVars
<1>3. \A q \in Regions : /\ Loose(q)' = Loose(q) /\ Confirming(q)' = Confirming(q)
                         /\ Lending(q)' = Lending(q) /\ InUse(q)' = InUse(q)
  BY <1>2 DEF Loose, Confirming, Lending, InUse
<1> DEFINE ok == /\ held' = [held EXCEPT ![r] = @ - Granularity * Cardinality(duty[t][r])]
                 /\ book' = [book EXCEPT ![t][r] = TRUE] /\ UNCHANGED duty
           err == /\ IoErr(DonorOf[r]) /\ duty' = [duty EXCEPT ![t][r] = {}]
                  /\ UNCHANGED <<held, book>>
<1>4. ok \/ err
  BY DEF DonQmp, DonorRegains
<1>5. \A q \in Regions : (FaultFree(q)' => FaultFree(q)) /\ (err /\ q = r => ~FaultFree(q)')
  BY <1>1, <1>2, FaultKept
<1>6. ASSUME NEW q \in Regions, NEW i \in Ids
      PROVE  i \in Unreturned(q)' <=> (i \in Unreturned(q) /\ ~(q = r /\ i \in duty[t][r]))
  <2>1. ASSUME NEW u \in Threads
        PROVE  (i \in duty'[u][q] /\ ~book'[u][q]) <=>
                 (i \in duty[u][q] /\ ~book[u][q] /\ <<u, q>> # <<t, r>>)
    BY <1>1, <1>4, <2>1
  <2>2. ASSUME NEW u \in Threads, i \in duty[u][q], q = r, i \in duty[t][r] PROVE u = t
    BY <2>2 DEF LoanKept, Lifecycle, SingleReturner
  <2>3. i \in Unreturned(q)' <=> \E u \in Threads : i \in duty[u][q] /\ ~book[u][q] /\ <<u, q>> # <<t, r>>
    BY <1>2, <2>1 DEF Unreturned
  <2>4. QED
    BY <2>2, <2>3 DEF Unreturned
<1>7. ASSUME NEW q \in Regions
      PROVE  Backed(q)' = IF q = r THEN Backed(q) \ duty[t][r] ELSE Backed(q)
  <2>1. ASSUME NEW i \in duty[t][r] PROVE i \notin InUse(r) /\ i \notin Confirming(r)
    <3>1. alloc[i].state = "Abandoned" /\ alloc[i].donor_info = r
      BY DEF LoanKept, Lifecycle, DutyIsAbandoned
    <3>2. i \notin InUse(r)
      BY <3>1 DEF InUse
    <3>3. i \notin Confirming(r)
      BY <1>1, <3>1 DEF Confirming, LoanKept, Lifecycle, PendingIsUncommitted, MayCommit
    <3>4. QED
      BY <3>2, <3>3
  <2>2. Unreturned(q)' \subseteq Ids /\ Unreturned(q) \subseteq Ids
    BY <1>2 DEF Unreturned
  <2>3. QED
    BY <1>3, <1>6, <2>1, <2>2 DEF Backed
<1>8. ASSUME NEW q \in Regions PROVE Covered(q)'
  <2>1. Covered(q)
    BY DEF HeldCoversDue
  <2>2. CASE q # r \/ err
    <3>1. held'[q] = held[q]
      BY <1>1, <1>4, <2>2
    <3>2. QED
      BY <1>1, <1>3, <1>5, <1>7, <2>1, <2>2, <3>1, CoveredShrinks
  <2>3. CASE q = r /\ ok
    <3> DEFINE D == duty[t][r]
               b == Cardinality(Backed(r))
               n == Cardinality(D)
               u == Cardinality(Units(Loose(r)))
    <3>1. D \subseteq Backed(r)
      BY <1>1, <1>2 DEF Backed, Unreturned
    <3>2. /\ IsFiniteSet(Backed(r)) /\ b \in Nat /\ held[r] \in Int
      BY <1>1, DueTypes
    <3>3. n \in Nat /\ IsFiniteSet(D)
      BY <1>1, IdsAreFinite
    <3>4. Cardinality(Backed(r) \ D) \in Nat /\ b = Cardinality(Backed(r) \ D) + n
      <4>1. Cardinality(Backed(r) \ D) = Cardinality(Backed(r)) - Cardinality(Backed(r) \cap D)
        BY <3>2, FS_Difference
      <4>2. Cardinality(Backed(r) \cap D) = Cardinality(D)
        <5>1. Backed(r) \cap D = D
          BY <3>1
        <5>2. QED
          BY <5>1
      <4>3. IsFiniteSet(Backed(r) \ D) /\ Cardinality(Backed(r) \ D) \in Nat
        BY <3>2, FS_Difference, FS_CardinalityType
      <4> HIDE DEF D
      <4>4. QED
        BY <3>2, <3>3, <4>1, <4>2, <4>3
    <3>5. b' = Cardinality(Backed(r) \ D)
      BY <1>7, <2>3
    <3>6. Units(Loose(r))' = Units(Loose(r))
      BY <1>3 DEF Units
    <3>7. IsFiniteSet(Units(Loose(r)))' /\ u \in Nat /\ u' = u
      BY <2>1, <2>3, <3>6, FS_CardinalityType DEF Covered
    <3>8. held'[r] = held[r] - Granularity * n
      BY <1>1, <2>3
    <3>9. Due(r) = Granularity * b + u /\ Due(r)' = Granularity * (b') + u
      BY <3>7 DEF Due
    <3> HIDE DEF b, n, u, D
    <3>10. b' \in Nat /\ b = b' + n
      BY <3>4, <3>5
    <3>11. /\ Granularity * b = Granularity * (b') + Granularity * n
           /\ Granularity * (b') \in Nat /\ Granularity * n \in Nat
      BY <3>3, <3>10, GranuleOrder
    <3>12. held[r] >= Granularity * b + u /\ (FaultFree(r) => held[r] = Granularity * b + u)
      BY <2>1, <2>3, <3>9 DEF Covered
    <3>13. held'[r] >= Granularity * (b') + u
      BY <3>2, <3>7, <3>8, <3>11, <3>12
    <3>14. FaultFree(r)' => held'[r] = Granularity * (b') + u
      BY <1>5, <3>2, <3>7, <3>8, <3>11, <3>12
    <3>15. QED
      BY <2>3, <3>7, <3>9, <3>13, <3>14 DEF Covered
  <2>4. QED
    BY <1>4, <2>2, <2>3
<1>9. ASSUME NEW q \in Regions, FaultFree(q)', NEW j \in region'[q].allocations
      PROVE  j \in InUse(q)' \cup Lending(q)' \cup InReturn(q)'
  <2>1. j \in InUse(q) \cup Lending(q) \cup InReturn(q)
    BY <1>2, <1>5, <1>9 DEF MapIsAccounted
  <2>2. \A u \in Threads : duty'[u][q] = duty[u][q]
    BY <1>1, <1>4, <1>5, <1>9
  <2>3. InReturn(q)' = InReturn(q)
    BY <1>2, <2>2 DEF InReturn
  <2>4. QED
    BY <1>3, <2>1, <2>3
<1>10. QED
  BY <1>8, <1>9 DEF HeldCoversDue, MapIsAccounted

(* A booked return leaves the map; it was not due any more. *)
LEMMA DonBookCovered ==
  ASSUME LoanKept, TypeOK', [Next]_vars, FaultsAreBounded, HeldCoversDue, MapIsAccounted,
         NEW t \in Threads, NEW r \in Regions, DonBook(t, r)
  PROVE  HeldCoversDue' /\ MapIsAccounted'
<1>1. /\ TypeOK /\ duty \in [Threads -> [Regions -> SUBSET Ids]]
      /\ book \in [Threads -> [Regions -> BOOLEAN]] /\ region \in [Regions -> Region]
  BY DEF LoanKept, Lifecycle, WellFormed, TypeOK
<1>2. /\ Ids' = Ids /\ UNCHANGED <<alloc, nextId, pc, req, alive, held>> /\ book[t][r]
  BY DEF DonBook, Ids, vmVars
<1>3. PICK i \in duty[t][r] :
        /\ region' = [region EXCEPT ![r] = bookkeep_returned_eph_memory(@, i)]
        /\ duty' = [duty EXCEPT ![t][r] = @ \ {i}]
        /\ book' = [book EXCEPT ![t][r] = duty[t][r] # {i}]
  BY DEF DonBook
<1>4. \A q \in Regions : /\ Loose(q)' = Loose(q) /\ Confirming(q)' = Confirming(q)
                         /\ Lending(q)' = Lending(q) /\ InUse(q)' = InUse(q)
  BY <1>2 DEF Loose, Confirming, Lending, InUse
<1>5. ASSUME NEW q \in Regions PROVE Unreturned(q)' = Unreturned(q)
  <2>1. ASSUME NEW u \in Threads, NEW j
        PROVE  (j \in duty'[u][q] /\ ~book'[u][q]) <=> (j \in duty[u][q] /\ ~book[u][q])
    <3>1. CASE u = t /\ q = r
      BY <1>1, <1>2, <1>3, <3>1
    <3>2. CASE ~(u = t /\ q = r)
      BY <1>1, <1>3, <3>2
    <3>3. QED
      BY <3>1, <3>2
  <2>2. QED
    BY <1>2, <2>1 DEF Unreturned
<1>6. ASSUME NEW q \in Regions, NEW j \in InReturn(q), ~(q = r /\ j = i) PROVE j \in InReturn(q)'
  <2>1. PICK u \in Threads : j \in duty[u][q]
    BY <1>6 DEF InReturn
  <2>2. j \in duty'[u][q]
    BY <1>1, <1>3, <1>6, <2>1
  <2>3. QED
    BY <1>2, <1>6, <2>2 DEF InReturn
<1>7. region'[r].allocations = region[r].allocations \ {i}
  BY <1>1, <1>3 DEF bookkeep_returned_eph_memory, Region
<1>8. \A q \in Regions \ {r} : region'[q] = region[q]
  BY <1>1, <1>3
<1>9. ASSUME NEW q \in Regions PROVE Covered(q)'
  BY <1>1, <1>2, <1>4, <1>5, FaultKept, CoveredShrinks DEF HeldCoversDue, Backed
<1>10. ASSUME NEW q \in Regions, FaultFree(q)', NEW j \in region'[q].allocations
       PROVE  j \in InUse(q)' \cup Lending(q)' \cup InReturn(q)'
  <2>1. j \in region[q].allocations /\ ~(q = r /\ j = i)
    BY <1>7, <1>8, <1>10
  <2>2. j \in InUse(q) \cup Lending(q) \cup InReturn(q)
    BY <1>1, <1>10, <2>1, FaultKept DEF MapIsAccounted
  <2>3. QED
    BY <1>4, <1>6, <2>1, <2>2
<1>11. QED
  BY <1>9, <1>10 DEF HeldCoversDue, MapIsAccounted

(* The map of a region while a chunk is reserved, granted and committed. *)
LEMMA LendingMap ==
  ASSUME LoanKept, [Next]_vars, FaultsAreBounded, MapIsAccounted, NEW c \in Consumers,
         InnerTake(c) \/ Donate(c) \/ Confirm(c) \/ GiveBack(c) \/ CommitOne(c)
  PROVE  MapIsAccounted'
<1>1. /\ TypeOK /\ c \in Threads /\ Consumers \subseteq Threads /\ pc \in [Threads -> Labels]
      /\ req \in [Consumers -> Request] /\ region \in [Regions -> Region] /\ nextId \in Nat
      /\ alloc \in [Ids -> Allocation] /\ duty \in [Threads -> [Regions -> SUBSET Ids]]
  BY DEF LoanKept, Lifecycle, WellFormed, TypeOK, Threads
<1>2. SUFFICES ASSUME NEW q \in Regions, FaultFree(q)', NEW j \in region'[q].allocations
               PROVE  j \in InUse(q)' \cup Lending(q)' \cup InReturn(q)'
  BY DEF MapIsAccounted
<1>3. FaultFree(q)
  BY <1>1, <1>2, FaultKept
<1>4. Ids' = Ids
  BY DEF InnerTake, Donate, Confirm, GiveBack, CommitOne, Ids, allocVars
<1>5. pc'[c] \in {"donate", "confirm", "give_back", "commit"}
  BY <1>1 DEF InnerTake, Donate, Confirm, GiveBack, CommitOne, Goto
<1>6. \A b \in Consumers \ {c} : pc'[b] = pc[b] /\ req'[b] = req[b]
  BY <1>1 DEF InnerTake, Donate, Confirm, GiveBack, CommitOne, Goto
<1>7. ASSUME UNCHANGED <<alloc, duty>> PROVE InUse(q)' = InUse(q) /\ InReturn(q)' = InReturn(q)
  BY <1>4, <1>7 DEF InUse, InReturn
<1>8. ASSUME j \in Ids, req'[c].region = q, j \in req'[c].chunk PROVE j \in Lending(q)'
  BY <1>4, <1>5, <1>8 DEF Lending
<1>9. ASSUME j \in Lending(q), ~(req[c].region = q /\ j \in req[c].chunk
                                  /\ pc[c] \in {"donate", "confirm", "give_back", "commit"})
      PROVE  j \in Lending(q)'
  BY <1>4, <1>6, <1>9 DEF Lending
<1>10. CASE InnerTake(c)
  <2>1. PICK r \in Regions :
          LET chunk == Lowest(req[c].unbacked, FreeGranules(region[r], RegionSize[r]))
          IN  /\ region' = [region EXCEPT ![r] = Reserve(@, chunk)]
              /\ req' = [req EXCEPT ![c].region = r, ![c].chunk = chunk]
    BY <1>10 DEF InnerTake
  <2> DEFINE chunk == Lowest(req[c].unbacked, FreeGranules(region[r], RegionSize[r]))
  <2>2. chunk \subseteq Ids
    BY <1>1 DEF Lowest, Request
  <2> HIDE DEF chunk
  <2>3. /\ region' = [region EXCEPT ![r] = Reserve(@, chunk)]
        /\ req' = [req EXCEPT ![c].region = r, ![c].chunk = chunk]
    BY <2>1 DEF chunk
  <2>4. req'[c].region = r /\ req'[c].chunk = chunk
    BY <1>1, <2>3 DEF Request
  <2>5. j \in region[q].allocations \/ (q = r /\ j \in chunk)
    BY <1>1, <1>2, <2>3 DEF Reserve, Region
  <2>6. pc[c] = "inner" /\ UNCHANGED <<alloc, duty>>
    BY <1>10 DEF InnerTake
  <2>7. QED
    BY <1>3, <1>7, <1>8, <1>9, <2>2, <2>4, <2>5, <2>6 DEF MapIsAccounted
<1>11. CASE Donate(c) \/ GiveBack(c)
  <2>1. /\ UNCHANGED <<alloc, duty, region>>
        /\ pc[c] \in {"donate", "give_back"}
    BY <1>11 DEF Donate, GiveBack, allocVars
  <2>2. req'[c].region = req[c].region /\ req'[c].chunk = req[c].chunk
    BY <1>1, <1>11 DEF Donate, GiveBack, Request
  <2>3. j \in InUse(q) \cup Lending(q) \cup InReturn(q)
    BY <1>2, <1>3, <2>1 DEF MapIsAccounted
  <2>4. j \in Lending(q) => j \in Lending(q)'
    BY <1>8, <1>9, <2>2 DEF Lending
  <2>5. QED
    BY <1>7, <2>1, <2>3, <2>4
<1>12. CASE Confirm(c)
  <2>1. /\ req[c].region \in Regions /\ pc[c] = "confirm" /\ UNCHANGED <<alloc, duty>>
    BY <1>1, <1>12 DEF Confirm, LoanKept, Lifecycle, WellFormed, RegionIsKnown, Request
  <2>2. PICK r \in Regions : r = req[c].region
    BY <2>1
  <2> DEFINE conf == Confirmed(region[r], req[c].chunk, req[c].granted)
  <2>3. /\ req'[c].region = r /\ req'[c].chunk = conf
        /\ region'[r].allocations = region[r].allocations \ (req[c].chunk \ conf)
        /\ \A p \in Regions \ {r} : region'[p] = region[p]
    BY <1>1, <1>12, <2>2 DEF Confirm, handle_reserved_alloc, Request, Region
  <2> HIDE DEF conf
  <2>4. j \in region[q].allocations /\ (q = r /\ j \in req[c].chunk => j \in conf)
    BY <1>2, <2>3
  <2>5. j \in InUse(q) \cup Lending(q) \cup InReturn(q)
    BY <1>3, <2>4 DEF MapIsAccounted
  <2>6. j \in Lending(q) => j \in Lending(q)'
    <3>1. ASSUME j \in Lending(q) PROVE j \in Ids
      BY <3>1 DEF Lending
    <3>2. QED
      BY <1>8, <1>9, <2>2, <2>3, <2>4, <3>1
  <2>7. QED
    BY <1>7, <2>1, <2>5, <2>6
<1>13. CASE CommitOne(c)
  <2>1. PICK r \in Regions : r = req[c].region
    BY <1>1, <1>13 DEF CommitOne, LoanKept, Lifecycle, WellFormed, RegionIsKnown, Request
  <2>2. PICK i \in req[c].chunk :
          /\ MayCommit(alloc[i])
          /\ alloc' = [alloc EXCEPT ![i] = commit_allocation(@, r)]
          /\ duty' = IF alloc[i].state = "Abandoned"
                     THEN [duty EXCEPT ![c][r] = @ \cup {i}] ELSE duty
          /\ req' = [req EXCEPT ![c].chunk = @ \ {i}, ![c].unbacked = @ \ {i}]
    BY <1>13, <2>1 DEF CommitOne
  <2>3. i \in Ids /\ UNCHANGED region /\ pc[c] = "commit"
    BY <1>1, <1>13, <2>2 DEF CommitOne, Request
  <2>4. req'[c].region = r /\ req'[c].chunk = req[c].chunk \ {i}
    BY <1>1, <2>1, <2>2 DEF Request
  <2>5. j \in InUse(q) \cup Lending(q) \cup InReturn(q)
    BY <1>2, <1>3, <2>3 DEF MapIsAccounted
  <2>6. j \in Ids
    BY <2>5 DEF InUse, Lending, InReturn
  <2>7. CASE j = i /\ q = r
    <3>1. CASE alloc[i].state = "Abandoned"
      <4>1. i \in duty'[c][r]
        BY <1>1, <2>2, <3>1
      <4>2. QED
        BY <1>1, <1>4, <2>7, <2>6, <4>1 DEF InReturn
    <3>2. CASE alloc[i].state # "Abandoned"
      <4>1. alloc'[i].state = "Committed" /\ alloc'[i].donor_info = r
        BY <1>1, <2>2, <2>3, <3>2 DEF commit_allocation, MayCommit, Allocation
      <4>2. QED
        BY <1>4, <2>6, <2>7, <4>1 DEF InUse
    <3>3. QED
      BY <3>1, <3>2
  <2>8. CASE ~(j = i /\ q = r)
    <3>1. CASE j \in InUse(q)
      <4>1. j # i
        BY <2>2, <3>1 DEF InUse, MayCommit
      <4>2. alloc'[j] = alloc[j]
        BY <1>1, <2>2, <2>6, <4>1
      <4>3. QED
        BY <1>4, <3>1, <4>2 DEF InUse
    <3>2. CASE j \in Lending(q)
      BY <1>8, <1>9, <2>1, <2>4, <2>6, <2>8, <3>2
    <3>3. CASE j \in InReturn(q)
      <4>1. PICK u \in Threads : j \in duty[u][q]
        BY <3>3 DEF InReturn
      <4>2. j \in duty'[u][q]
        BY <1>1, <2>2, <4>1
      <4>3. QED
        BY <1>4, <2>6, <4>2 DEF InReturn
    <3>4. QED
      BY <2>5, <3>1, <3>2, <3>3
  <2>9. QED
    BY <2>7, <2>8
<1>14. QED
  BY <1>10, <1>11, <1>12, <1>13

-----------------------------------------------------------------------------
(***************************************************************************)
(* The accounts are kept.                                                  *)
(***************************************************************************)
LEMMA InitAccounts ==
  ASSUME Init PROVE AccountsKept
<1>1. Ids = {} /\ MaxFaults \in Nat /\ RegionSize \in [Regions -> Nat]
  BY OrchestratorAssumption DEF Init, Ids
<1>2. Granularity * 0 = 0 /\ 0 % Granularity = 0
  <2>1. Granularity * 0 = 0 /\ (Granularity * 0) % Granularity = 0
    BY GranuleOrder, WholeGranules
  <2>2. QED
    BY <2>1
<1>3. Cardinality({}) = 0 /\ IsFiniteSet({})
  BY FS_EmptySet
<1>4. \A r \in Regions : /\ region[r].allocations = {} /\ region[r].donated = 0
                         /\ region[r].revoked_owed = 0 /\ held[r] = 0
  BY DEF Init, NewRegion
<1>5. DonatedCoversAllocations /\ OwedIsWhole /\ MapIsAccounted
  <2>1. DonatedCoversAllocations
    <3>1. \A r \in Regions : Granularity * Cardinality(region[r].allocations) = 0
      BY <1>2, <1>3, <1>4
    <3>2. \A r \in Regions : region[r].donated <= RegionSize[r] /\ 0 <= region[r].donated
      BY <1>1, <1>4
    <3>3. QED
      BY <3>1, <3>2 DEF DonatedCoversAllocations
  <2>2. OwedIsWhole /\ MapIsAccounted
    BY <1>2, <1>4 DEF OwedIsWhole, MapIsAccounted
  <2>3. QED
    BY <2>1, <2>2
<1>6. \A c \in Consumers : pc[c] = "idle"
  BY OrchestratorAssumption DEF Init, Threads, VMs
<1>7. GrantIsBounded
  BY <1>6 DEF GrantIsBounded
<1>8. ExitedIsDead /\ FaultsAreBounded /\ DutyIsTimely
  <2>1. pc[Detector] = "idle"
    BY OrchestratorAssumption DEF Init, Threads
  <2>2. QED
    BY <1>1, <2>1 DEF Init, ExitedIsDead, FaultsAreBounded, DutyIsTimely
<1>9. HeldCoversDue
  <2>1. SUFFICES ASSUME NEW r \in Regions PROVE Covered(r)
    BY DEF HeldCoversDue
  <2>2. \A c \in Consumers : Loose(r)[c] = 0
    BY <1>6 DEF Loose
  <2>3. Units(Loose(r)) = {}
    BY <2>2 DEF Units, Loose
  <2>4. Backed(r) = {}
    BY <1>1 DEF Backed, InUse, Unreturned, Confirming
  <2>5. Due(r) = 0
    BY <1>2, <1>3, <2>3, <2>4 DEF Due
  <2>6. QED
    BY <1>3, <1>4, <2>3, <2>5 DEF Covered
<1>10. QED
  BY <1>5, <1>7, <1>8, <1>9 DEF AccountsKept

LEMMA NextAccounts ==
  ASSUME LoanKept, AccountsKept, [Next]_vars
  PROVE  AccountsKept'
<1>1. TypeOK /\ TypeOK'
  BY NextLoans DEF LoanKept, Lifecycle, WellFormed
<1>2. /\ DonatedCoversAllocations /\ OwedIsWhole /\ GrantIsBounded /\ ExitedIsDead
      /\ FaultsAreBounded /\ DutyIsTimely /\ HeldCoversDue /\ MapIsAccounted
  BY DEF AccountsKept
<1>3. DonatedCoversAllocations' /\ OwedIsWhole'
  BY <1>2, RegionAccounts DEF DonatedCoversAllocations, OwedIsWhole
<1>4. GrantIsBounded' /\ ExitedIsDead' /\ DutyIsTimely'
  BY <1>2, GrantStep, ExitStep, TimelyStep
<1>5. FaultsAreBounded'
  <2>1. budget'.faults \in Nat /\ budget'.faults <= budget.faults
    BY <1>1, FaultSteps
  <2>2. budget.faults \in Nat /\ budget.faults <= MaxFaults /\ MaxFaults \in Nat
    BY <1>1, <1>2, OrchestratorAssumption DEF FaultsAreBounded, TypeOK
  <2>3. QED
    BY <2>1, <2>2 DEF FaultsAreBounded
<1>6. ASSUME NEW c \in Consumers, Donate(c) \/ Confirm(c) \/ GiveBack(c) \/ CommitOne(c)
      PROVE  HeldCoversDue' /\ MapIsAccounted'
  BY <1>1, <1>2, <1>6, DonateCovered, ConfirmCovered, GiveBackCovered, CommitCovered, LendingMap
<1>7. ASSUME NEW c \in Consumers, InnerTake(c) PROVE HeldCoversDue' /\ MapIsAccounted'
  <2>1. /\ pc \in [Threads -> Labels] /\ req \in [Consumers -> Request] /\ c \in Threads
    BY <1>1 DEF TypeOK, Threads
  <2>2. /\ pc[c] = "inner" /\ pc'[c] = "donate" /\ UNCHANGED <<alloc, nextId, duty, book, held>>
    BY <1>7, <2>1 DEF InnerTake, Goto, vmVars
  <2>3. \A b \in Consumers \ {c} : pc'[b] = pc[b] /\ req'[b] = req[b]
    BY <1>7, <2>1 DEF InnerTake, Goto
  <2>4. Ids' = Ids
    BY <2>2 DEF Ids
  <2>5. ASSUME NEW q \in Regions PROVE Covered(q)'
    <3>1. InUse(q)' = InUse(q) /\ Unreturned(q)' = Unreturned(q)
      BY <2>2, <2>4 DEF InUse, Unreturned
    <3>2. Confirming(q)' = Confirming(q)
      BY <2>2, <2>3, <2>4 DEF Confirming
    <3>3. Loose(q)' = Loose(q)
      <4>1. \A b \in Consumers : Loose(q)'[b] = Loose(q)[b]
        BY <2>2, <2>3 DEF Loose
      <4>2. QED
        BY <4>1 DEF Loose
    <3>4. QED
      BY <1>1, <1>2, <2>2, <3>1, <3>2, <3>3, FaultKept, CoveredShrinks DEF HeldCoversDue, Backed
  <2>6. QED
    BY <1>2, <1>7, <2>5, LendingMap DEF HeldCoversDue
<1>8. ASSUME NEW t \in Threads, OrganizeOne(t) PROVE HeldCoversDue' /\ MapIsAccounted'
  BY <1>1, <1>2, <1>8, OrganizeCovered
<1>9. ASSUME NEW t \in Threads, NEW r \in Regions, DonQmp(t, r) \/ DonBook(t, r)
      PROVE  HeldCoversDue' /\ MapIsAccounted'
  BY <1>1, <1>2, <1>9, DonQmpCovered, DonBookCovered
<1>10. ASSUME \A c \in Consumers :
                ~(InnerTake(c) \/ Donate(c) \/ Confirm(c) \/ GiveBack(c) \/ CommitOne(c)),
              \A t \in Threads :
                ~OrganizeOne(t) /\ \A r \in Regions : ~(DonQmp(t, r) \/ DonBook(t, r))
       PROVE  HeldCoversDue' /\ MapIsAccounted'
  <2>1. ASSUME NEW r \in Regions
        PROVE  /\ Loose(r)' = Loose(r) /\ Backed(r)' = Backed(r) /\ Lending(r)' = Lending(r)
               /\ InUse(r)' = InUse(r) /\ InReturn(r)' = InReturn(r)
    <3>1. Loose(r)' = Loose(r) /\ Confirming(r)' = Confirming(r) /\ Lending(r)' = Lending(r)
      BY <1>1, <1>10, QuietSteps, SameRequests
    <3>2. InUse(r)' = InUse(r) /\ Unreturned(r)' = Unreturned(r) /\ InReturn(r)' = InReturn(r)
      BY <1>1, <1>10, QuietSteps, SameLoaned
    <3>3. QED
      BY <3>1, <3>2 DEF Backed
  <2>2. held' = held /\ \A r \in Regions : region'[r].allocations = region[r].allocations
    BY <1>10, QuietSteps
  <2>3. HeldCoversDue'
    BY <1>1, <1>2, <2>1, <2>2, FaultKept, CoveredShrinks DEF HeldCoversDue
  <2>4. MapIsAccounted'
    BY <1>1, <1>2, <2>1, <2>2, FaultKept DEF MapIsAccounted
  <2>5. QED
    BY <2>3, <2>4
<1>11. HeldCoversDue' /\ MapIsAccounted'
  BY <1>6, <1>7, <1>8, <1>9, <1>10
<1>12. QED
  BY <1>3, <1>4, <1>5, <1>11 DEF AccountsKept

(***************************************************************************)
(* The accounts of every region are kept, for every number of VMs, regions *)
(* and revokes, every granularity and every grant of a donor.              *)
(***************************************************************************)
THEOREM AccountsKeptAlways == Spec => []AccountsKept
<1>1. Init => AccountsKept
  BY InitAccounts
<1>2. LoanKept /\ AccountsKept /\ [Next]_vars => AccountsKept'
  BY NextAccounts
<1>3. QED
  BY <1>1, <1>2, LoanKeptAlways, PTL DEF Spec

(***************************************************************************)
(* donated covers the map of its region and stays within the region's      *)
(* size, so that size - donated never wraps around and a return is never   *)
(* larger than what was donated.                                           *)
(***************************************************************************)
THEOREM DonatedCoversAllocationsAlways == Spec => []DonatedCoversAllocations
<1>1. AccountsKept => DonatedCoversAllocations
  BY DEF AccountsKept
<1>2. QED
  BY <1>1, AccountsKeptAlways, PTL

(* What is in use and what is to be returned are due, and apart. *)
LEMMA DueCoversLoans ==
  ASSUME LoanKept, AccountsKept PROVE NeverOverReturned
<1>1. SUFFICES ASSUME NEW r \in Regions
               PROVE  held[r] >= Granularity * (Cardinality(InUse(r)) + Cardinality(Unreturned(r)))
  BY DEF NeverOverReturned
<1>2. TypeOK /\ nextId \in Nat /\ Covered(r)
  BY DEF LoanKept, Lifecycle, WellFormed, TypeOK, AccountsKept, HeldCoversDue
<1> DEFINE m == Cardinality(InUse(r))
           n == Cardinality(Unreturned(r))
           b == Cardinality(Backed(r))
           u == Cardinality(Units(Loose(r)))
<1>3. /\ IsFiniteSet(InUse(r)) /\ IsFiniteSet(Unreturned(r)) /\ m \in Nat /\ n \in Nat
  <2>1. InUse(r) \in SUBSET Ids /\ Unreturned(r) \in SUBSET Ids
    BY DEF InUse, Unreturned
  <2>2. QED
    BY <1>2, <2>1, IdsAreFinite
<1>4. InUse(r) \cap Unreturned(r) = {}
  BY DEF InUse, Unreturned, LoanKept, Lifecycle, DutyIsAbandoned
<1>5. Cardinality(InUse(r) \cup Unreturned(r)) = m + n
  <2>1. Cardinality(InUse(r) \cup Unreturned(r)) = m + n - Cardinality(InUse(r) \cap Unreturned(r))
    BY <1>3, FS_Union
  <2>2. Cardinality(InUse(r) \cap Unreturned(r)) = 0
    BY <1>4, FS_EmptySet
  <2>3. QED
    BY <1>3, <2>1, <2>2
<1>6. IsFiniteSet(Backed(r)) /\ b \in Nat /\ held[r] \in Int /\ Granularity * b \in Nat
  BY <1>2, DueTypes
<1>7. m + n <= b
  <2>1. InUse(r) \cup Unreturned(r) \subseteq Backed(r)
    BY DEF Backed
  <2>2. Cardinality(InUse(r) \cup Unreturned(r)) <= b
    BY <1>6, <2>1, FS_Subset
  <2>3. QED
    BY <1>5, <2>2
<1>8. u \in Nat /\ held[r] >= Granularity * b + u
  BY <1>2, FS_CardinalityType DEF Covered, Due
<1> HIDE DEF m, n, b, u
<1>9. Granularity * (m + n) <= Granularity * b /\ Granularity * (m + n) \in Nat
  <2>1. m + n \in Nat
    BY <1>3
  <2>2. QED
    BY <1>6, <1>7, <2>1, GranuleOrder
<1>10. held[r] >= Granularity * (m + n)
  BY <1>6, <1>8, <1>9
<1>11. QED
  BY <1>10 DEF m, n

(***************************************************************************)
(* A donor is never given back more than it gave: what it counts as given  *)
(* away covers all that is in use and all that has yet to go back, whatever *)
(* failed, exited or was revoked in between.                               *)
(***************************************************************************)
THEOREM NeverOverReturnedAlways == Spec => []NeverOverReturned
<1>1. LoanKept /\ AccountsKept => NeverOverReturned
  BY DueCoversLoans
<1>2. QED
  BY <1>1, LoanKeptAlways, AccountsKeptAlways, PTL

(* When nothing is in progress, only what is in use is due. *)
LEMMA QuietBalances ==
  ASSUME LoanKept, AccountsKept PROVE DonorAccountsBalance
<1>1. SUFFICES ASSUME Quiet, budget.faults = MaxFaults, NEW r \in Regions, DonorOf[r] \in vms
               PROVE  /\ held[r] = Granularity * Cardinality(region[r].allocations)
                      /\ region[r].allocations = InUse(r)
  BY DEF DonorAccountsBalance
<1>2. TypeOK /\ Covered(r) /\ DutyIsTimely /\ MapIsAccounted /\ Consumers \subseteq Threads
  BY DEF LoanKept, Lifecycle, WellFormed, AccountsKept, HeldCoversDue, Threads
<1>3. FaultFree(r)
  <2>1. DonorOf[r] \in VMs
    BY OrchestratorAssumption DEF VMs
  <2>2. QED
    BY <1>1, <2>1 DEF FaultFree, Quiet
<1>4. \A t \in Threads : pc[t] \in {"idle", "unused", "done"}
  BY <1>1 DEF Quiet
<1>5. \A t \in Threads : duty[t][r] = {}
  BY <1>2, <1>4 DEF DutyIsTimely
<1>6. Unreturned(r) = {} /\ InReturn(r) = {}
  BY <1>5 DEF Unreturned, InReturn
<1>7. Confirming(r) = {} /\ Lending(r) = {}
  BY <1>2, <1>4 DEF Confirming, Lending
<1>8. Units(Loose(r)) = {}
  <2>1. \A c \in Consumers : Loose(r)[c] = 0
    BY <1>2, <1>4 DEF Loose
  <2>2. QED
    BY <2>1 DEF Units, Loose
<1>9. region[r].allocations = InUse(r)
  <2>1. region[r].allocations \subseteq InUse(r)
    BY <1>2, <1>3, <1>6, <1>7 DEF MapIsAccounted
  <2>2. InUse(r) \subseteq region[r].allocations
    BY DEF InUse, LoanKept, Lifecycle, CommittedIsTracked
  <2>3. QED
    BY <2>1, <2>2
<1>10. Backed(r) = InUse(r)
  BY <1>6, <1>7 DEF Backed
<1>11. held[r] = Granularity * Cardinality(InUse(r))
  <2>1. Granularity * Cardinality(InUse(r)) \in Nat
    BY <1>2, <1>10, DueTypes
  <2>2. held[r] = Granularity * Cardinality(InUse(r)) + Cardinality({})
    BY <1>2, <1>3, <1>8, <1>10 DEF Covered, Due
  <2>3. QED
    BY <2>1, <2>2, FS_EmptySet
<1>12. QED
  BY <1>9, <1>11

(***************************************************************************)
(* Nothing leaks on the donor's side: when the orchestrator is quiet and   *)
(* no command failed, a donor that is in the VmList counts as given away   *)
(* exactly the allocations in the map of its region, and all are in use.   *)
(***************************************************************************)
THEOREM DonorAccountsBalanceAlways == Spec => []DonorAccountsBalance
<1>1. LoanKept /\ AccountsKept => DonorAccountsBalance
  BY QuietBalances
<1>2. QED
  BY <1>1, LoanKeptAlways, AccountsKeptAlways, PTL

-----------------------------------------------------------------------------
(***************************************************************************)
(* Debts.  Until a revoke is paid for, it is an event, the rest of a scan, *)
(* a claimed allocation, a return to be made or a debt of the region.      *)
(***************************************************************************)

(* The units of a queue that grows at its end. *)
LEMMA UnitsAppend ==
  ASSUME NEW n \in Nat, NEW f \in [1..n -> Nat], IsFiniteSet(Units(f)),
         NEW g \in [1..(n + 1) -> Nat], \A k \in 1..n : g[k] = f[k]
  PROVE  IsFiniteSet(Units(g)) /\ Cardinality(Units(g)) = Cardinality(Units(f)) + g[n + 1]
<1> DEFINE Last == {n + 1} \X (1..g[n + 1])
<1>1. g[n + 1] \in Nat
  OBVIOUS
<1>2. IsFiniteSet(Last) /\ Cardinality(Last) = g[n + 1]
  BY <1>1, KeyUnits
<1>3. Units(g) = Units(f) \cup Last
  <2>1. 1..(n + 1) = (1..n) \cup {n + 1} /\ DOMAIN g = 1..(n + 1) /\ DOMAIN f = 1..n
    OBVIOUS
  <2>2. QED
    BY <2>1 DEF Units
<1>4. Units(f) \cap Last = {}
  <2>1. \A u \in Units(f) : u[1] \in 1..n
    BY DEF Units
  <2>2. \A u \in Last : u[1] = n + 1
    OBVIOUS
  <2>3. QED
    BY <2>1, <2>2
<1> HIDE DEF Last
<1>5. /\ IsFiniteSet(Units(f) \cup Last)
      /\ Cardinality(Units(f) \cup Last)
           = Cardinality(Units(f)) + Cardinality(Last) - Cardinality(Units(f) \cap Last)
  BY <1>2, FS_Union
<1>6. Cardinality(Units(f) \cap Last) = 0 /\ Cardinality(Units(f)) \in Nat
  BY <1>4, FS_EmptySet, FS_CardinalityType
<1>7. QED
  BY <1>1, <1>2, <1>3, <1>5, <1>6

(* The units of a queue that loses its head. *)
LEMMA UnitsTail ==
  ASSUME NEW n \in Nat, NEW f \in [1..(n + 1) -> Nat], IsFiniteSet(Units(f)),
         NEW g \in [1..n -> Nat], \A k \in 1..n : g[k] = f[k + 1]
  PROVE  IsFiniteSet(Units(g)) /\ Cardinality(Units(f)) = Cardinality(Units(g)) + f[1]
<1> DEFINE First == {1} \X (1..f[1])
           Rest  == { u \in Units(f) : u[1] # 1 }
           h     == [u \in Rest |-> <<u[1] - 1, u[2]>>]
<1>1. f[1] \in Nat /\ IsFiniteSet(First) /\ Cardinality(First) = f[1]
  <2>1. f[1] \in Nat
    OBVIOUS
  <2>2. QED
    BY <2>1, KeyUnits
<1>2. Units(f) = Rest \cup First /\ Rest \cap First = {}
  BY DEF Units
<1>3. IsFiniteSet(Rest) /\ Cardinality(Rest) \in Nat
  BY FS_Subset, FS_CardinalityType
<1>4. \A u \in Units(g) : /\ u[1] \in 1..n /\ u[2] \in 1..g[u[1]] /\ u = <<u[1], u[2]>>
  BY DEF Units
<1>5. \A u \in Rest : /\ u[1] \in 2..(n + 1) /\ u[2] \in 1..f[u[1]] /\ u = <<u[1], u[2]>>
  BY DEF Units
<1>6. ASSUME NEW u \in Rest PROVE h[u] \in Units(g)
  <2>1. u[1] - 1 \in 1..n /\ u[2] \in 1..g[u[1] - 1]
    <3>1. PICK m \in 2..(n + 1) : m = u[1]
      BY <1>5
    <3>2. m - 1 \in 1..n /\ (m - 1) + 1 = m
      OBVIOUS
    <3>3. g[m - 1] = f[m]
      BY <3>2
    <3>4. QED
      BY <1>5, <3>1, <3>2, <3>3
  <2>2. <<u[1] - 1, u[2]>> \in Units(g)
    BY <2>1 DEF Units
  <2>3. QED
    BY <2>2
<1>7. ASSUME NEW u \in Units(g) PROVE \E v \in Rest : h[v] = u
  <2>1. u[1] + 1 \in 1..(n + 1) /\ u[1] + 1 # 1 /\ u[2] \in 1..f[u[1] + 1] /\ u[1] \in Int
    BY <1>4
  <2>2. <<u[1] + 1, u[2]>> \in {u[1] + 1} \X (1..f[u[1] + 1])
    BY <2>1
  <2>3. <<u[1] + 1, u[2]>> \in Rest
    BY <2>1, <2>2 DEF Units
  <2>4. h[<<u[1] + 1, u[2]>>] = <<u[1], u[2]>>
    BY <2>1, <2>3
  <2>5. QED
    BY <1>4, <2>3, <2>4
<1>8. ASSUME NEW u \in Rest, NEW v \in Rest, h[u] = h[v] PROVE u = v
  <2>1. u[1] - 1 = v[1] - 1 /\ u[2] = v[2]
    BY <1>8
  <2>2. u[1] \in Int /\ v[1] \in Int /\ u = <<u[1], u[2]>> /\ v = <<v[1], v[2]>>
    BY <1>5
  <2>3. u[1] = v[1]
    BY <2>1, <2>2
  <2>4. QED
    BY <2>1, <2>2, <2>3
<1> HIDE DEF Rest, First
<1>9. h \in Bijection(Rest, Units(g))
  <2>1. h \in [Rest -> Units(g)]
    BY <1>6
  <2>2. h \in Injection(Rest, Units(g))
    BY <1>8, <2>1 DEF Injection, IsInjective
  <2>3. h \in Surjection(Rest, Units(g))
    BY <1>7, <2>1 DEF Surjection
  <2>4. QED
    BY <2>2, <2>3 DEF Bijection
<1> HIDE DEF h
<1>10. ExistsBijection(Rest, Units(g))
  BY <1>9 DEF ExistsBijection
<1>11. IsFiniteSet(Units(g)) /\ Cardinality(Units(g)) = Cardinality(Rest)
  BY <1>3, <1>10, FS_Bijection
<1>12. Cardinality(Units(f)) = Cardinality(Rest) + f[1]
  <2>1. Cardinality(Rest \cup First) = Cardinality(Rest) + Cardinality(First) - Cardinality(Rest \cap First)
    BY <1>1, <1>3, FS_Union
  <2>2. Cardinality(Rest \cap First) = 0
    BY <1>2, FS_EmptySet
  <2>3. QED
    BY <1>1, <1>2, <1>3, <2>1, <2>2
<1>13. QED
  BY <1>11, <1>12

(* What a revoke event asks for. *)
LEMMA DemandType ==
  ASSUME NEW r \in Regions, NEW e \in DcEvent \cup RevokeEvent
  PROVE  /\ Demand(e, r) \in Nat
         /\ e.type = "revoke" => e \in RevokeEvent
         /\ e.type # "revoke" => Demand(e, r) = 0
<1>1. e.type = "revoke" => e \in RevokeEvent
  BY DEF DcEvent
<1>2. QED
  BY <1>1 DEF Demand, RevokeEvent

LEMMA WantedAppend ==
  ASSUME NEW S, NEW q \in Seq(S), NEW e \in S, NEW r, \A x \in S : Demand(x, r) \in Nat,
         IsFiniteSet(Units(Wanted(q, r)))
  PROVE  /\ IsFiniteSet(Units(Wanted(Append(q, e), r)))
         /\ Cardinality(Units(Wanted(Append(q, e), r)))
              = Cardinality(Units(Wanted(q, r))) + Demand(e, r)
<1>1. PICK n \in Nat : n = Len(q)
  OBVIOUS
<1>2. PICK f : f = Wanted(q, r)
  OBVIOUS
<1>3. PICK g : g = Wanted(Append(q, e), r)
  OBVIOUS
<1>4. f \in [1..n -> Nat]
  BY <1>1, <1>2 DEF Wanted
<1>5. /\ DOMAIN Append(q, e) = 1..(n + 1) /\ Append(q, e)[n + 1] = e
      /\ \A k \in 1..n : Append(q, e)[k] = q[k]
  BY <1>1
<1>6. g \in [1..(n + 1) -> Nat]
  <2>1. \A k \in 1..(n + 1) : Append(q, e)[k] \in S
    BY <1>1
  <2>2. QED
    BY <1>3, <1>5, <2>1 DEF Wanted
<1>7. g[n + 1] = Demand(e, r) /\ \A k \in 1..n : g[k] = f[k]
  <2>1. \A k \in 1..n : k \in 1..(n + 1) /\ k \in DOMAIN q
    BY <1>1
  <2>2. n + 1 \in 1..(n + 1)
    OBVIOUS
  <2>3. QED
    BY <1>2, <1>3, <1>5, <2>1, <2>2 DEF Wanted
<1>8. IsFiniteSet(Units(g)) /\ Cardinality(Units(g)) = Cardinality(Units(f)) + g[n + 1]
  BY <1>2, <1>4, <1>6, <1>7, UnitsAppend
<1>9. QED
  BY <1>2, <1>3, <1>7, <1>8

LEMMA WantedTail ==
  ASSUME NEW S, NEW q \in Seq(S), q # <<>>, NEW r, \A x \in S : Demand(x, r) \in Nat,
         IsFiniteSet(Units(Wanted(q, r)))
  PROVE  /\ IsFiniteSet(Units(Wanted(Tail(q), r)))
         /\ Cardinality(Units(Wanted(q, r)))
              = Cardinality(Units(Wanted(Tail(q), r))) + Demand(Head(q), r)
<1>1. PICK n \in Nat : n + 1 = Len(q)
  <2>1. Len(q) \in Nat /\ Len(q) # 0
    OBVIOUS
  <2>2. Len(q) - 1 \in Nat /\ (Len(q) - 1) + 1 = Len(q)
    BY <2>1
  <2>3. QED
    BY <2>2
<1>2. PICK f : f = Wanted(q, r)
  OBVIOUS
<1>3. PICK g : g = Wanted(Tail(q), r)
  OBVIOUS
<1>4. f \in [1..(n + 1) -> Nat]
  BY <1>1, <1>2 DEF Wanted
<1>5. /\ Tail(q) \in Seq(S) /\ DOMAIN Tail(q) = 1..n /\ Head(q) = q[1]
      /\ \A k \in 1..n : Tail(q)[k] = q[k + 1]
  BY <1>1
<1>6. g \in [1..n -> Nat]
  <2>1. \A k \in 1..n : Tail(q)[k] \in S
    BY <1>1, <1>5
  <2>2. QED
    BY <1>3, <1>5, <2>1 DEF Wanted
<1>7. f[1] = Demand(Head(q), r) /\ \A k \in 1..n : g[k] = f[k + 1]
  <2>1. 1 \in DOMAIN q /\ \A k \in 1..n : k + 1 \in DOMAIN q
    BY <1>1
  <2>2. QED
    BY <1>2, <1>3, <1>5, <2>1 DEF Wanted
<1>8. IsFiniteSet(Units(g)) /\ Cardinality(Units(f)) = Cardinality(Units(g)) + f[1]
  BY <1>2, <1>4, <1>6, <1>7, UnitsTail
<1>9. QED
  BY <1>2, <1>3, <1>7, <1>8

LEMMA DebtTypes ==
  ASSUME TypeOK, NEW r \in Regions
  PROVE  /\ Carried(r) \in [Consumers \cup Revokers -> Nat]
         /\ asked[r] \in Nat /\ region[r].revoked_owed \in Nat
         /\ Owing(r) \subseteq Ids /\ IsFiniteSet(Owing(r)) /\ Cardinality(Owing(r)) \in Nat
         /\ Granularity * Cardinality(Owing(r)) \in Nat
<1>1. /\ nextId \in Nat /\ req \in [Consumers -> Request] /\ asked \in [Regions -> Nat]
      /\ region \in [Regions -> Region]
      /\ revoke \in [Revokers -> [region : Regions \cup {NoRegion}, remaining : Nat]]
  BY DEF TypeOK
<1>2. ASSUME NEW t \in Consumers \cup Revokers PROVE Carried(r)[t] \in Nat
  <2>1. CASE t \in Consumers
    BY <1>1, <2>1 DEF Carried, Request
  <2>2. CASE t \notin Consumers
    <3>1. t \in Revokers /\ revoke[t].remaining \in Nat
      BY <1>1, <2>2
    <3>2. Granularity * revoke[t].remaining \in Nat
      BY <3>1, GranuleOrder
    <3>3. QED
      BY <2>2, <3>1, <3>2 DEF Carried
  <2>3. QED
    BY <2>1, <2>2
<1>3. Carried(r) \in [Consumers \cup Revokers -> Nat]
  BY <1>2 DEF Carried
<1>4. Owing(r) \subseteq Ids
  BY DEF Owing, Unreturned
<1>5. QED
  BY <1>1, <1>3, <1>4, IdsAreFinite, GranuleOrder DEF Region

(* The same in the next state. *)
LEMMA NextDebtTypes ==
  ASSUME TypeOK', NEW r \in Regions
  PROVE  /\ asked'[r] \in Nat /\ region'[r].revoked_owed \in Nat
         /\ IsFiniteSet(Owing(r)') /\ Cardinality(Owing(r)') \in Nat
         /\ Granularity * Cardinality(Owing(r)') \in Nat
<1>1. asked'[r] \in Nat /\ region'[r].revoked_owed \in Nat /\ nextId' \in Nat
  BY DEF TypeOK, Region
<1>2. PICK m, I : m \in Nat /\ m = nextId' /\ I = 1..(m - 1)
  BY <1>1
<1>3. PICK P : P = Owing(r)'
  OBVIOUS
<1>4. P \subseteq I
  BY <1>2, <1>3 DEF Owing, Unreturned, Ids
<1>5. IsFiniteSet(I)
  <2>1. m - 1 \in Int /\ 1 \in Int
    BY <1>2
  <2>2. QED
    BY <1>2, <2>1, FS_Interval
<1>6. IsFiniteSet(P) /\ Cardinality(P) \in Nat
  BY <1>4, <1>5, FS_Subset, FS_CardinalityType
<1>7. QED
  BY <1>1, <1>3, <1>6, GranuleOrder

(* What is asked for stays covered when the parts of the debt of r change  *)
(* by as much, in all, as what is asked for.                               *)
LEMMA DebtMoves ==
  ASSUME TypeOK, TypeOK', NEW r \in Regions, Owes(r), NEW x \in Int, NEW w \in Int,
         IsFiniteSet(Units(Carried(r)))',
         Cardinality(Units(Carried(r)))' = Cardinality(Units(Carried(r))) + x,
         IsFiniteSet(Units(Wanted(events[DonorOf[r]], r)))',
         Cardinality(Units(Wanted(events[DonorOf[r]], r)))'
           = Cardinality(Units(Wanted(events[DonorOf[r]], r))) + w,
         FaultFree(r)' =>
           /\ FaultFree(r)
           /\ \/ asked'[r] = 0
              \/ asked'[r] + (region[r].revoked_owed + Granularity * Cardinality(Owing(r)))
                   <= asked[r] + (region'[r].revoked_owed + Granularity * Cardinality(Owing(r)')) + x + w
  PROVE  Owes(r)'
<1> DEFINE a == asked[r]
           o == region[r].revoked_owed
           p == Granularity * Cardinality(Owing(r))
           u == Cardinality(Units(Carried(r)))
           v == Cardinality(Units(Wanted(events[DonorOf[r]], r)))
<1>1. a \in Nat /\ o \in Nat /\ p \in Nat
  BY DebtTypes
<1>2. a' \in Nat /\ o' \in Nat /\ p' \in Nat
  BY NextDebtTypes
<1>3. u \in Nat /\ v \in Nat /\ u' \in Nat /\ v' \in Nat /\ u' = u + x /\ v' = v + w
  BY FS_CardinalityType DEF Owes
<1>4. FaultFree(r) => a <= o + p + u + v
  BY DEF Owes, Debt
<1>5. FaultFree(r)' => FaultFree(r) /\ (a' = 0 \/ a' + (o + p) <= a + (o' + p') + x + w)
  OBVIOUS
<1>6. Debt(r)' = o' + p' + u' + v'
  BY DEF Debt
<1> HIDE DEF a, o, p, u, v
<1>7. FaultFree(r)' => a' <= o' + p' + u' + v'
  <2>1. SUFFICES ASSUME FaultFree(r)' PROVE a' <= o' + p' + u' + v'
    OBVIOUS
  <2>2. a <= o + p + u + v /\ (a' = 0 \/ a' + (o + p) <= a + (o' + p') + x + w)
    BY <1>4, <1>5, <2>1
  <2>3. QED
    BY <1>1, <1>2, <1>3, <2>2
<1>8. FaultFree(r)' => asked'[r] <= Debt(r)'
  BY <1>6, <1>7 DEF a
<1>9. QED
  BY <1>8 DEF Owes

LEMMA SameCarried ==
  ASSUME NEW r \in Regions, Owes(r), Carried(r)' = Carried(r)
  PROVE  /\ IsFiniteSet(Units(Carried(r)))'
         /\ Cardinality(Units(Carried(r)))' = Cardinality(Units(Carried(r))) + 0
<1>1. Units(Carried(r))' = Units(Carried(r))
  BY DEF Units
<1>2. QED
  BY <1>1, FS_CardinalityType DEF Owes

LEMMA SameWanted ==
  ASSUME NEW r \in Regions, Owes(r), events'[DonorOf[r]] = events[DonorOf[r]]
  PROVE  /\ IsFiniteSet(Units(Wanted(events[DonorOf[r]], r)))'
         /\ Cardinality(Units(Wanted(events[DonorOf[r]], r)))'
              = Cardinality(Units(Wanted(events[DonorOf[r]], r))) + 0
<1>1. Units(Wanted(events[DonorOf[r]], r))' = Units(Wanted(events[DonorOf[r]], r))
  BY DEF Units, Wanted, Demand
<1>2. QED
  BY <1>1, FS_CardinalityType DEF Owes

LEMMA CarriedChange ==
  ASSUME TypeOK, NEW r \in Regions, Owes(r), NEW t \in Consumers \cup Revokers, NEW n \in Nat,
         Carried(r)' = [Carried(r) EXCEPT ![t] = n]
  PROVE  /\ IsFiniteSet(Units(Carried(r)))'
         /\ Cardinality(Units(Carried(r)))' = Cardinality(Units(Carried(r))) + (n - Carried(r)[t])
         /\ Carried(r)[t] \in Nat
<1>1. Carried(r) \in [Consumers \cup Revokers -> Nat]
  BY DebtTypes
<1>2. PICK S : S = Consumers \cup Revokers
  OBVIOUS
<1>3. PICK f \in [S -> Nat] : f = Carried(r)
  BY <1>1, <1>2
<1>4. IsFiniteSet(Units(f)) /\ t \in S /\ n \in Nat
  BY <1>2, <1>3 DEF Owes
<1>5. /\ IsFiniteSet(Units([f EXCEPT ![t] = n]))
      /\ Cardinality(Units([f EXCEPT ![t] = n])) = (Cardinality(Units(f)) - f[t]) + n
  BY ONLY <1>3, <1>4, UnitsChange
<1>6. Units(Carried(r))' = Units([f EXCEPT ![t] = n])
  BY <1>3 DEF Units
<1>7. Cardinality(Units(f)) \in Nat /\ f[t] \in Nat
  BY <1>3, <1>4, FS_CardinalityType
<1>8. QED
  BY <1>3, <1>5, <1>6, <1>7

(* A claimed allocation stays claimed until a thread sees to its return. *)
LEMMA ClaimedSteps ==
  ASSUME LoanKept, [Next]_vars, NEW i \in Ids, alloc[i].state = "PendingRelease"
  PROVE  /\ i \in Ids' /\ alloc'[i].donor_info = alloc[i].donor_info
         /\ \/ alloc'[i].state = "PendingRelease"
            \/ \E t \in Threads :
                 /\ OrganizeOne(t) /\ alloc'[i].state = "Abandoned"
                 /\ DonorOf[alloc[i].donor_info] \notin exited =>
                      /\ i \in duty'[t][alloc[i].donor_info]
                      /\ ~book'[t][alloc[i].donor_info]
<1>1. /\ TypeOK /\ nextId \in Nat \ {0} /\ alloc \in [Ids -> Allocation]
      /\ alloc[i].donor_info \in Regions /\ duty \in [Threads -> [Regions -> SUBSET Ids]]
  BY DEF LoanKept, Lifecycle, WellFormed, TypeOK, CommittedIsTracked, Allocation
<1> DEFINE Stays == /\ i \in Ids' /\ alloc'[i].donor_info = alloc[i].donor_info
                    /\ alloc'[i].state = "PendingRelease"
<1>2. ASSUME UNCHANGED <<alloc, nextId>> PROVE Stays
  BY <1>2 DEF Ids
<1>3. ASSUME NEW c \in Consumers, RequestStep(c) PROVE Stays
  <2>1. CASE ReserveContig(c)
    <3>1. PICK lo, hi \in 0..NumSlots :
            ContigRun(c) = <<lo, hi>> /\ lo <= hi /\ hi - lo <= req[c].left
      BY <1>1, ReserveRun
    <3>2. /\ alloc' = [j \in 1..(nextId + (hi - lo) - 1) |->
                        IF j < nextId THEN alloc[j]
                        ELSE NewAllocation(c, lo + (j - nextId))]
          /\ nextId' = nextId + (hi - lo)
      BY <2>1, <3>1 DEF ReserveContig
    <3>3. lo \in Nat /\ hi \in Nat /\ hi - lo \in Nat
      BY <3>1, AllocationAssumption
    <3>4. i \in 1..(nextId + (hi - lo) - 1) /\ i < nextId /\ i \in Ids'
      BY <1>1, <3>2, <3>3 DEF Ids
    <3>5. QED
      BY <3>2, <3>4
  <2>2. CASE CommitOne(c)
    <3>1. PICK j \in req[c].chunk :
            MayCommit(alloc[j]) /\ alloc' = [alloc EXCEPT ![j] = commit_allocation(@, req[c].region)]
      BY <2>2 DEF CommitOne
    <3>2. j # i
      BY <3>1 DEF MayCommit
    <3>3. UNCHANGED nextId
      BY <2>2 DEF CommitOne
    <3>4. QED
      BY <1>1, <3>1, <3>2, <3>3 DEF Ids
  <2>3. CASE ~(ReserveContig(c) \/ CommitOne(c))
    BY <1>2, <1>3, <2>3 DEF RequestStep, InnerSkip, InnerTake, InnerNone, Donate, Confirm, GiveBack,
         CommitDone, Unbacked, UnbackedDone, Retain, RetainNone, AddCapacity, WaitAdd, Partition,
         PartitionDone, Respond, allocVars
  <2>4. QED
    BY <2>1, <2>2, <2>3
<1>4. ASSUME NEW t \in Threads, ReturnStep(t), ~OrganizeOne(t) PROVE Stays
  <2>1. CASE \E c \in Consumers : RelClaim(t, c)
    BY <1>1, <2>1 DEF RelClaim, Allocation, Ids
  <2>2. CASE ~\E c \in Consumers : RelClaim(t, c)
    BY <1>2, <1>4, <2>2 DEF ReturnStep, OrganizeDone, ConsumersDone, DonorsDone, RelQmp, RelWait,
         RelRemove, DonQmp, DonBook, allocVars
  <2>3. QED
    BY <2>1, <2>2
<1>5. ASSUME NEW t \in Threads, OrganizeOne(t)
      PROVE  \/ Stays
             \/ /\ i \in Ids' /\ alloc'[i].donor_info = alloc[i].donor_info
                /\ alloc'[i].state = "Abandoned"
                /\ DonorOf[alloc[i].donor_info] \notin exited =>
                     /\ i \in duty'[t][alloc[i].donor_info]
                     /\ ~book'[t][alloc[i].donor_info]
  <2>1. PICK j \in todo[t] :
          /\ alloc' = [alloc EXCEPT ![j] = abandon(@)]
          /\ duty' = IF TakesDonor(alloc[j]) /\ DonorOf[alloc[j].donor_info] \notin exited
                     THEN [duty EXCEPT ![t][alloc[j].donor_info] = @ \cup {j}] ELSE duty
    BY <1>5 DEF OrganizeOne
  <2>2. UNCHANGED <<nextId, book>> /\ pc[t] = "organize"
    BY <1>5 DEF OrganizeOne
  <2>3. CASE j # i
    BY <1>1, <2>1, <2>2, <2>3 DEF Ids
  <2>4. CASE j = i
    <3>1. alloc'[i] = abandon(alloc[i]) /\ alloc[i] \in Allocation
      BY <1>1, <2>1, <2>4
    <3>2. alloc'[i].donor_info = alloc[i].donor_info /\ alloc'[i].state = "Abandoned"
      BY <3>1 DEF abandon, Allocation
    <3>3. ~book'[t][alloc[i].donor_info]
      BY <1>1, <2>2 DEF LoanKept, BookingIsDue
    <3>4. DonorOf[alloc[i].donor_info] \notin exited => i \in duty'[t][alloc[i].donor_info]
      BY <1>1, <2>1, <2>4 DEF TakesDonor
    <3>5. i \in Ids'
      BY <2>2 DEF Ids
    <3>6. QED
      BY <3>2, <3>3, <3>4, <3>5
  <2>5. QED
    BY <2>3, <2>4
<1>6. ASSUME NEW t \in Revokers, RevokeStep(t) PROVE Stays
  <2>1. UNCHANGED nextId
    BY <1>6 DEF RevokeStep, RevokeLock, RevokeSelect, RevokeReturn, allocVars
  <2>2. UNCHANGED alloc \/ RevokeSelect(t)
    BY <1>6 DEF RevokeStep, RevokeLock, RevokeReturn, allocVars
  <2>3. CASE RevokeSelect(t)
    <3>1. PICK j \in scan[t] :
            \/ UNCHANGED alloc
            \/ is_committed(alloc[j]) /\ alloc' = [alloc EXCEPT ![j] = try_claim_for_revoke(@)]
      BY <2>3 DEF RevokeSelect
    <3>2. alloc'[i] = alloc[i]
      BY <1>1, <3>1 DEF is_committed
    <3>3. QED
      BY <2>1, <3>2 DEF Ids
  <2>4. QED
    BY <1>2, <2>1, <2>2, <2>3
<1>7. ASSUME EvtAdd PROVE Stays
  BY <1>1, <1>7 DEF EvtAdd, Allocation, Ids
<1>8. ASSUME DetectorStep \/ (EventStep /\ ~EvtAdd) \/ Environment \/ UNCHANGED vars
      PROVE  Stays
  BY <1>2, <1>8 DEF DetectorStep, DetRemove, DetExited, DetConsumer, DetDonor, DetSelect, DetReturn,
       EventStep, EvtTake, EvtGap, EvtRelease, Environment, RequestArrives, GuestAdds,
       GuestReleases, DonorRevokes, VmExits, vars, allocVars
<1> HIDE DEF Stays
<1>9. Stays \/ \E t \in Threads : OrganizeOne(t)
  BY <1>3, <1>4, <1>6, <1>7, <1>8 DEF Next
<1>10. QED
  BY <1>5, <1>9 DEF Stays

(* A return that is to be made stays so until its command is sent. *)
LEMMA UnreturnedSteps ==
  ASSUME TypeOK, [Next]_vars, NEW r \in Regions, NEW t \in Threads,
         NEW i \in duty[t][r], ~book[t][r], ~DonQmp(t, r)
  PROVE  i \in duty'[t][r] /\ ~book'[t][r]
<1>1. /\ duty \in [Threads -> [Regions -> SUBSET Ids]] /\ book \in [Threads -> [Regions -> BOOLEAN]]
  BY DEF TypeOK
<1> DEFINE Goal == i \in duty'[t][r] /\ ~book'[t][r]
<1>2. UNCHANGED <<duty, book>> => Goal
  OBVIOUS
<1>3. ASSUME NEW c \in Consumers, RequestStep(c) PROVE Goal
  <2>1. CASE CommitOne(c)
    <3>1. PICK S : duty' = duty \/ duty' = [duty EXCEPT ![c][req[c].region] = @ \cup S]
      BY <2>1 DEF CommitOne
    <3>2. UNCHANGED book
      BY <2>1 DEF CommitOne
    <3>3. QED
      BY <1>1, <3>1, <3>2
  <2>2. CASE ~CommitOne(c)
    BY <1>2, <1>3, <2>2 DEF RequestStep, ReserveContig, InnerSkip, InnerTake, InnerNone, Donate,
         Confirm, GiveBack, CommitDone, Unbacked, UnbackedDone, Retain, RetainNone, AddCapacity,
         WaitAdd, Partition, PartitionDone, Respond
  <2>3. QED
    BY <2>1, <2>2
<1>4. ASSUME NEW u \in Threads, OrganizeOne(u) PROVE Goal
  <2>1. PICK S, q : duty' = duty \/ duty' = [duty EXCEPT ![u][q] = @ \cup S]
    BY <1>4 DEF OrganizeOne
  <2>2. UNCHANGED book
    BY <1>4 DEF OrganizeOne
  <2>3. QED
    BY <1>1, <2>1, <2>2
<1>5. ASSUME NEW u \in Threads, NEW q \in Regions, DonQmp(u, q) PROVE Goal
  <2>1. u # t \/ q # r
    BY <1>5
  <2>2. \/ UNCHANGED duty /\ book' = [book EXCEPT ![u][q] = TRUE]
        \/ UNCHANGED book /\ duty' = [duty EXCEPT ![u][q] = {}]
    BY <1>5 DEF DonQmp
  <2>3. QED
    BY <1>1, <2>1, <2>2
<1>6. ASSUME NEW u \in Threads, NEW q \in Regions, DonBook(u, q) PROVE Goal
  <2>1. u # t \/ q # r
    BY <1>6 DEF DonBook
  <2>2. PICK S, b : duty' = [duty EXCEPT ![u][q] = S] /\ book' = [book EXCEPT ![u][q] = b]
    BY <1>6 DEF DonBook
  <2>3. QED
    BY <1>1, <2>1, <2>2
<1>7. ASSUME NEW u \in Threads, ReturnStep(u), ~OrganizeOne(u),
             ~\E q \in Regions : DonQmp(u, q) \/ DonBook(u, q)
      PROVE  Goal
  BY <1>2, <1>7 DEF ReturnStep, OrganizeDone, ConsumersDone, DonorsDone, RelClaim, RelQmp, RelWait,
       RelRemove
<1>8. ASSUME NEW u \in Revokers, RevokeStep(u) PROVE Goal
  BY <1>2, <1>8 DEF RevokeStep, RevokeLock, RevokeSelect, RevokeReturn
<1>9. ASSUME DetectorStep \/ EventStep \/ Environment \/ UNCHANGED vars PROVE Goal
  BY <1>2, <1>9 DEF DetectorStep, DetRemove, DetExited, DetConsumer, DetDonor, DetSelect, DetReturn,
       EventStep, EvtTake, EvtAdd, EvtGap, EvtRelease, Environment, RequestArrives, GuestAdds,
       GuestReleases, DonorRevokes, VmExits, vars, threadVars
<1> HIDE DEF Goal
<1>10. ASSUME NEW u \in Threads, ReturnStep(u) PROVE Goal
  BY <1>4, <1>5, <1>6, <1>7, <1>10
<1>11. Goal
  BY <1>3, <1>8, <1>9, <1>10 DEF Next
<1>12. QED
  BY <1>11 DEF Goal

(* As long as no command fails, what is owed in allocations is paid only   *)
(* by a return.                                                            *)
LEMMA OwingKept ==
  ASSUME LoanKept, FaultsAreBounded, ExitedIsDead, [Next]_vars, NEW r \in Regions, FaultFree(r)',
         UNCHANGED <<duty, book>> \/ \A t \in Threads : ~DonQmp(t, r)
  PROVE  Owing(r) \subseteq Owing(r)'
<1>1. TypeOK /\ FaultFree(r) /\ DonorOf[r] \notin exited
  <2>1. TypeOK
    BY DEF LoanKept, Lifecycle, WellFormed
  <2>2. QED
    BY <2>1, FaultKept DEF FaultFree, ExitedIsDead
<1>2. SUFFICES ASSUME NEW i \in Owing(r) PROVE i \in Owing(r)'
  OBVIOUS
<1>3. duty' \in [Threads -> [Regions -> SUBSET Ids']]
  BY NextLoans DEF LoanKept, Lifecycle, WellFormed, TypeOK
<1>4. CASE i \in Unreturned(r)
  <2>1. PICK t \in Threads : i \in duty[t][r] /\ ~book[t][r]
    BY <1>4 DEF Unreturned
  <2>2. i \in duty'[t][r] /\ ~book'[t][r]
    BY <1>1, <2>1, UnreturnedSteps
  <2>3. i \in Ids'
    BY <1>3, <2>2
  <2>4. QED
    BY <2>2, <2>3 DEF Owing, Unreturned
<1>5. CASE i \in Ids /\ alloc[i].state = "PendingRelease" /\ alloc[i].donor_info = r
  <2>1. /\ i \in Ids' /\ alloc'[i].donor_info = r
        /\ \/ alloc'[i].state = "PendingRelease"
           \/ \E t \in Threads : i \in duty'[t][r] /\ ~book'[t][r]
    BY <1>1, <1>5, ClaimedSteps
  <2>2. QED
    BY <2>1 DEF Owing, Unreturned
<1>6. QED
  BY <1>2, <1>4, <1>5 DEF Owing

-----------------------------------------------------------------------------
(***************************************************************************)
(* The smaller invariants of a revoke.                                     *)
(***************************************************************************)

(* A VM is taken out of the list only once it is gone. *)
LEMMA ListedStep ==
  ASSUME TypeOK, AliveIsListed, [Next]_vars
  PROVE  AliveIsListed'
<1>1. alive' \subseteq alive
  BY FaultSteps
<1>2. ASSUME NEW v \in VMs, DetRemove(v) PROVE AliveIsListed'
  BY <1>1, <1>2 DEF DetRemove, AliveIsListed
<1>3. UNCHANGED vms => AliveIsListed'
  BY <1>1 DEF AliveIsListed
<1>4. ASSUME NEW c \in Consumers, RequestStep(c) PROVE UNCHANGED vms
  BY <1>4 DEF RequestStep, ReserveContig, InnerSkip, InnerTake, InnerNone, Donate, Confirm,
       GiveBack, CommitOne, CommitDone, Unbacked, UnbackedDone, Retain, RetainNone, AddCapacity,
       WaitAdd, Partition, PartitionDone, Respond, allocVars
<1>5. ASSUME NEW t \in Threads, ReturnStep(t) PROVE UNCHANGED vms
  BY <1>5 DEF ReturnStep, OrganizeOne, OrganizeDone, ConsumersDone, DonorsDone, RelClaim, RelQmp,
       RelWait, RelRemove, DonQmp, DonBook, allocVars
<1>6. ASSUME NEW t \in Revokers, RevokeStep(t) PROVE UNCHANGED vms
  BY <1>6 DEF RevokeStep, RevokeLock, RevokeSelect, RevokeReturn, allocVars
<1>7. ASSUME DetectorStep, ~\E v \in VMs : DetRemove(v) PROVE UNCHANGED vms
  BY <1>7 DEF DetectorStep, DetExited, DetConsumer, DetDonor, DetSelect, DetReturn, allocVars
<1>8. ASSUME EventStep \/ Environment \/ UNCHANGED vars PROVE UNCHANGED vms
  BY <1>8 DEF EventStep, EvtTake, EvtAdd, EvtGap, EvtRelease, Environment, RequestArrives, GuestAdds,
       GuestReleases, DonorRevokes, VmExits, vars, allocVars
<1>9. QED
  BY <1>2, <1>3, <1>4, <1>5, <1>6, <1>7, <1>8 DEF Next

(* Between its own steps a revoke keeps its place and its locals, except   *)
(* when it is started or while it returns memory.                          *)
LEMMA RevokerSteps ==
  ASSUME TypeOK, [Next]_vars, NEW t \in Revokers
  PROVE  \/ RevokeStep(t)
         \/ pc'[t] = pc[t] /\ revoke'[t] = revoke[t] /\ scan'[t] = scan[t]
         \/ \E v \in VMs : EvtTake(v) /\ pc[t] = "unused" /\ pc'[t] = "revoke"
         \/ /\ pc[t] \in {"organize", "consumers", "donors"} /\ revoke'[t] = revoke[t]
            /\ pc'[t] \notin {"revoke", "select"}
<1>1. /\ t \in Threads /\ t \notin Consumers /\ t # Detector /\ t \notin VMs
      /\ pc \in [Threads -> Labels] /\ scan \in [Threads -> SUBSET Ids]
      /\ revoke \in [Revokers -> [region : Regions \cup {NoRegion}, remaining : Nat]]
      /\ cont[t] \in {"idle", "unbacked", "respond", "done", "consumer"}
  BY OrchestratorAssumption DEF TypeOK, Threads, VMs
<1> DEFINE Same == pc'[t] = pc[t] /\ revoke'[t] = revoke[t] /\ scan'[t] = scan[t]
<1>2. ASSUME NEW c \in Consumers, RequestStep(c) PROVE Same
  <2>1. pc'[t] = pc[t] /\ revoke' = revoke
    BY <1>1, <1>2, RequestControl
  <2>2. scan'[t] = scan[t]
    BY <1>1, <1>2 DEF RequestStep, ReserveContig, InnerSkip, InnerTake, InnerNone, Donate, Confirm,
         GiveBack, CommitOne, CommitDone, Unbacked, UnbackedDone, Retain, RetainNone, AddCapacity,
         WaitAdd, Partition, PartitionDone, Respond
  <2>3. QED
    BY <2>1, <2>2
<1>3. ASSUME NEW u \in Threads, ReturnStep(u)
      PROVE  \/ Same
             \/ /\ pc[t] \in {"organize", "consumers", "donors"} /\ revoke'[t] = revoke[t]
                /\ pc'[t] \notin {"revoke", "select"}
  <2>1. revoke' = revoke /\ scan' = scan
    BY <1>3 DEF ReturnStep, OrganizeOne, OrganizeDone, ConsumersDone, DonorsDone, RelClaim, RelQmp,
         RelWait, RelRemove, DonQmp, DonBook
  <2>2. \/ pc'[t] = pc[t]
        \/ /\ pc[t] \in {"organize", "consumers", "donors"}
           /\ pc'[t] \in {"consumers", "donors", cont[t]}
    BY <1>1, <1>3 DEF ReturnStep, OrganizeOne, OrganizeDone, ConsumersDone, DonorsDone, Goto,
         RelClaim, RelQmp, RelWait, RelRemove, DonQmp, DonBook
  <2>3. QED
    BY <1>1, <2>1, <2>2
<1>4. ASSUME NEW u \in Revokers, RevokeStep(u), u # t PROVE Same
  BY <1>1, <1>4 DEF RevokeStep, RevokeLock, RevokeSelect, RevokeReturn, Goto, CallReturn
<1>5. ASSUME DetectorStep PROVE Same
  BY <1>1, <1>5 DEF DetectorStep, DetRemove, DetExited, DetConsumer, DetDonor, DetSelect, DetReturn,
       Goto, CallReturn
<1>6. ASSUME NEW v \in VMs, EvtTake(v)
      PROVE  Same \/ (pc[t] = "unused" /\ pc'[t] = "revoke")
  BY <1>1, <1>6 DEF EvtTake, Goto
<1>7. ASSUME EvtAdd \/ EvtGap \/ EvtRelease PROVE Same
  BY <1>7 DEF EvtAdd, EvtGap, EvtRelease
<1>8. ASSUME Environment \/ UNCHANGED vars PROVE Same
  BY <1>1, <1>8 DEF Environment, RequestArrives, GuestAdds, GuestReleases, DonorRevokes,
       VmExits, vars, threadVars, Goto
<1>9. QED
  BY <1>2, <1>3, <1>4, <1>5, <1>6, <1>7, <1>8 DEF Next, EventStep

(* While the donor's mutex is held, the map of its regions only grows. *)
LEMMA LockedMap ==
  ASSUME TypeOK, [Next]_vars, NEW r \in Regions, DonorLocked(DonorOf[r])
  PROVE  region[r].allocations \subseteq region'[r].allocations
<1>1. region \in [Regions -> Region]
  BY DEF TypeOK
<1>2. ASSUME NEW c \in Consumers, RequestStep(c), ~InnerTake(c), ~Confirm(c)
      PROVE  UNCHANGED region
  BY <1>2 DEF RequestStep, ReserveContig, InnerSkip, InnerNone, Donate, GiveBack, CommitOne,
       CommitDone, Unbacked, UnbackedDone, Retain, RetainNone, AddCapacity, WaitAdd, Partition,
       PartitionDone, Respond, allocVars
<1>3. ASSUME NEW c \in Consumers, InnerTake(c) \/ Confirm(c) PROVE region'[r] = region[r]
  <2>1. CASE InnerTake(c)
    <3>1. PICK q, reg : /\ q \in Regions /\ ~DonorLocked(DonorOf[q])
                      /\ region' = [region EXCEPT ![q] = reg]
      BY <2>1 DEF InnerTake, IsFirstRoomy
    <3>2. QED
      BY <1>1, <3>1
  <2>2. CASE Confirm(c)
    <3>1. ~DonorLocked(DonorOf[req[c].region])
      BY <2>2 DEF Confirm
    <3>2. PICK reg : region' = [region EXCEPT ![req[c].region] = reg]
      BY <2>2 DEF Confirm
    <3>3. QED
      BY <1>1, <3>1, <3>2
  <2>3. QED
    BY <1>3, <2>1, <2>2
<1>4. ASSUME NEW t \in Threads, ReturnStep(t) PROVE region'[r] = region[r]
  <2>1. ASSUME NEW q \in Regions, DonBook(t, q) PROVE region'[r] = region[r]
    <3>1. PICK reg : region' = [region EXCEPT ![q] = reg]
      BY <2>1 DEF DonBook
    <3>2. q # r
      BY <2>1 DEF DonBook
    <3>3. QED
      BY <1>1, <3>1, <3>2
  <2>2. CASE ~\E q \in Regions : DonBook(t, q)
    BY <1>4, <2>2 DEF ReturnStep, OrganizeOne, OrganizeDone, ConsumersDone, DonorsDone,
         RelClaim, RelQmp, RelWait, RelRemove, DonQmp, allocVars
  <2>3. QED
    BY <2>1, <2>2
<1>5. ASSUME NEW t \in Revokers, RevokeStep(t)
      PROVE  region'[r] = region[r] \/ region'[r] = OweRest(region[r], revoke[t].remaining)
  BY <1>1, <1>5 DEF RevokeStep, RevokeLock, RevokeSelect, RevokeReturn, allocVars
<1>6. \A n : OweRest(region[r], n).allocations = region[r].allocations
  BY <1>1 DEF OweRest, Region
<1>7. CASE DetectorStep \/ EventStep \/ Environment \/ UNCHANGED vars
  BY <1>7 DEF DetectorStep, DetRemove, DetExited, DetConsumer, DetDonor, DetSelect, DetReturn,
       EventStep, EvtTake, EvtAdd, EvtGap, EvtRelease, Environment, RequestArrives, GuestAdds,
       GuestReleases, DonorRevokes, VmExits, vars, allocVars
<1>8. QED
  BY <1>2, <1>3, <1>4, <1>5, <1>6, <1>7 DEF Next

(* A revoke scans allocations of the map of its region. *)
LEMMA ScanStep ==
  ASSUME WellFormed, ScanIsMapped, [Next]_vars
  PROVE  ScanIsMapped'
<1>1. /\ TypeOK /\ pc \in [Threads -> Labels] /\ Revokers \subseteq Threads
      /\ scan \in [Threads -> SUBSET Ids]
      /\ revoke \in [Revokers -> [region : Regions \cup {NoRegion}, remaining : Nat]]
  BY DEF WellFormed, TypeOK, Threads
<1>2. SUFFICES ASSUME NEW t \in Revokers
      PROVE  /\ pc'[t] \notin {"revoke", "select"} => revoke'[t].region = NoRegion
             /\ pc'[t] = "select" => scan'[t] \subseteq region'[revoke'[t].region].allocations
  BY DEF ScanIsMapped
<1>3. /\ pc[t] \notin {"revoke", "select"} => revoke[t].region = NoRegion
      /\ pc[t] = "select" => scan[t] \subseteq region[revoke[t].region].allocations
      /\ pc[t] = "select" => revoke[t].region \in Regions
  BY <1>1 DEF ScanIsMapped, WellFormed, RegionIsKnown
<1>4. CASE RevokeLock(t)
  <2>1. pc'[t] = "select" /\ scan'[t] = region[revoke[t].region].allocations
    BY <1>1, <1>4 DEF RevokeLock, Goto
  <2>2. region' = region /\ revoke' = revoke
    BY <1>4 DEF RevokeLock, allocVars
  <2>3. QED
    BY <2>1, <2>2
<1>5. CASE RevokeSelect(t)
  <2>1. pc' = pc /\ pc[t] = "select" /\ region' = region
    BY <1>5 DEF RevokeSelect
  <2>2. scan'[t] \subseteq scan[t]
    BY <1>1, <1>5 DEF RevokeSelect
  <2>3. PICK n : revoke' = revoke \/ revoke' = [revoke EXCEPT ![t].remaining = n]
    BY <1>5 DEF RevokeSelect
  <2>4. revoke'[t].region = revoke[t].region
    BY <1>1, <2>3
  <2>5. QED
    BY <1>3, <2>1, <2>2, <2>4
<1>6. CASE RevokeReturn(t)
  BY <1>1, <1>6 DEF RevokeReturn, CallReturn
<1>7. CASE pc'[t] = pc[t] /\ revoke'[t] = revoke[t] /\ scan'[t] = scan[t]
  <2>1. ASSUME pc[t] = "select" PROVE scan'[t] \subseteq region'[revoke'[t].region].allocations
    <3>1. PICK r \in Regions : r = revoke[t].region
      BY <1>3, <2>1
    <3>2. DonorLocked(DonorOf[r])
      BY <2>1, <3>1 DEF DonorLocked
    <3>3. region[r].allocations \subseteq region'[r].allocations
      BY <1>1, <3>2, LockedMap
    <3>4. QED
      BY <1>3, <1>7, <2>1, <3>1, <3>3
  <2>2. QED
    BY <1>3, <1>7, <2>1
<1>8. CASE pc'[t] = "revoke"
  BY <1>8
<1>9. CASE /\ pc[t] \in {"organize", "consumers", "donors"} /\ revoke'[t] = revoke[t]
           /\ pc'[t] \notin {"revoke", "select"}
  BY <1>3, <1>9
<1>10. QED
  BY <1>1, <1>4, <1>5, <1>6, <1>7, <1>8, <1>9, RevokerSteps DEF RevokeStep

(* An allocation becomes claimed when a revoke selects it. *)
LEMMA NewClaims ==
  ASSUME LoanKept, [Next]_vars, NEW i \in Ids', alloc'[i].state = "PendingRelease"
  PROVE  \/ i \in Ids /\ alloc[i].state = "PendingRelease"
         \/ \E t \in Revokers : i \in todo'[t] /\ pc'[t] = "select"
<1>1. /\ TypeOK /\ nextId \in Nat \ {0} /\ alloc \in [Ids -> Allocation]
      /\ todo \in [Threads -> SUBSET Ids] /\ Revokers \subseteq Threads
  BY DEF LoanKept, Lifecycle, WellFormed, TypeOK, Threads
<1> DEFINE Old == i \in Ids /\ alloc[i].state = "PendingRelease"
<1>2. ASSUME UNCHANGED <<alloc, nextId>> PROVE Old
  BY <1>2 DEF Ids
<1>3. ASSUME NEW c \in Consumers, RequestStep(c) PROVE Old
  <2>1. CASE ReserveContig(c)
    <3>1. PICK lo, hi \in 0..NumSlots :
            ContigRun(c) = <<lo, hi>> /\ lo <= hi /\ hi - lo <= req[c].left
      BY <1>1, ReserveRun
    <3>2. /\ alloc' = [j \in 1..(nextId + (hi - lo) - 1) |->
                        IF j < nextId THEN alloc[j]
                        ELSE NewAllocation(c, lo + (j - nextId))]
          /\ nextId' = nextId + (hi - lo)
      BY <2>1, <3>1 DEF ReserveContig
    <3>3. lo \in Nat /\ hi \in Nat /\ hi - lo \in Nat
      BY <3>1, AllocationAssumption
    <3>4. i \in 1..(nextId + (hi - lo) - 1)
      BY <1>1, <3>2, <3>3 DEF Ids
    <3>5. i < nextId
      BY <1>1, <3>2, <3>4 DEF NewAllocation
    <3>6. QED
      BY <1>1, <3>2, <3>4, <3>5 DEF Ids
  <2>2. CASE CommitOne(c)
    <3>1. PICK j \in req[c].chunk :
            MayCommit(alloc[j]) /\ alloc' = [alloc EXCEPT ![j] = commit_allocation(@, req[c].region)]
      BY <2>2 DEF CommitOne
    <3>2. i \in Ids
      BY <2>2 DEF CommitOne, Ids
    <3>3. i = j => alloc'[i].state # "PendingRelease"
      BY <1>1, <3>1, <3>2 DEF MayCommit, commit_allocation, Allocation
    <3>4. QED
      BY <1>1, <3>1, <3>2, <3>3
  <2>3. CASE ~(ReserveContig(c) \/ CommitOne(c))
    BY <1>2, <1>3, <2>3 DEF RequestStep, InnerSkip, InnerTake, InnerNone, Donate, Confirm, GiveBack,
         CommitDone, Unbacked, UnbackedDone, Retain, RetainNone, AddCapacity, WaitAdd, Partition,
         PartitionDone, Respond, allocVars
  <2>4. QED
    BY <2>1, <2>2, <2>3
<1>4. ASSUME NEW t \in Threads, ReturnStep(t) PROVE Old
  <2>1. CASE \E c \in Consumers : RelClaim(t, c)
    BY <1>1, <2>1 DEF RelClaim, Allocation, Ids
  <2>2. CASE OrganizeOne(t)
    <3>1. PICK j \in todo[t] : alloc' = [alloc EXCEPT ![j] = abandon(@)]
      BY <2>2 DEF OrganizeOne
    <3>2. i \in Ids
      BY <2>2 DEF OrganizeOne, Ids
    <3>3. i = j => alloc'[i].state # "PendingRelease"
      BY <1>1, <3>1, <3>2 DEF abandon, Allocation
    <3>4. QED
      BY <1>1, <3>1, <3>2, <3>3
  <2>3. CASE ~OrganizeOne(t) /\ ~\E c \in Consumers : RelClaim(t, c)
    BY <1>2, <1>4, <2>3 DEF ReturnStep, OrganizeDone, ConsumersDone, DonorsDone, RelQmp, RelWait,
         RelRemove, DonQmp, DonBook, allocVars
  <2>4. QED
    BY <2>1, <2>2, <2>3
<1>5. ASSUME NEW t \in Revokers, RevokeStep(t)
      PROVE  Old \/ (i \in todo'[t] /\ pc'[t] = "select")
  <2>1. CASE RevokeSelect(t)
    <3>1. pc'[t] = "select" /\ i \in Ids
      BY <2>1 DEF RevokeSelect, Ids
    <3>2. PICK j \in scan[t] :
            \/ UNCHANGED alloc
            \/ /\ alloc' = [alloc EXCEPT ![j] = try_claim_for_revoke(@)]
               /\ todo' = [todo EXCEPT ![t] = @ \cup {j}]
      BY <2>1 DEF RevokeSelect
    <3>3. QED
      BY <1>1, <3>1, <3>2
  <2>2. CASE ~RevokeSelect(t)
    BY <1>2, <1>5, <2>2 DEF RevokeStep, RevokeLock, RevokeReturn, allocVars
  <2>3. QED
    BY <2>1, <2>2
<1>6. ASSUME EvtAdd PROVE Old
  BY <1>1, <1>6 DEF EvtAdd, Allocation, Ids
<1>7. ASSUME DetectorStep \/ (EventStep /\ ~EvtAdd) \/ Environment \/ UNCHANGED vars PROVE Old
  BY <1>2, <1>7 DEF DetectorStep, DetRemove, DetExited, DetConsumer, DetDonor, DetSelect, DetReturn,
       EventStep, EvtTake, EvtGap, EvtRelease, Environment, RequestArrives, GuestAdds,
       GuestReleases, DonorRevokes, VmExits, vars, allocVars
<1>8. QED
  BY <1>3, <1>4, <1>5, <1>6, <1>7 DEF Next

(* What a thread has collected it goes through to the end. *)
LEMMA TodoSteps ==
  ASSUME TypeOK, [Next]_vars, NEW t \in Threads, NEW i \in Ids, ToOrganize(t, i)
  PROVE  ToOrganize(t, i)' \/ alloc'[i].state = "Abandoned"
<1>1. /\ pc \in [Threads -> Labels] /\ todo \in [Threads -> SUBSET Ids]
      /\ Consumers \subseteq Threads /\ Revokers \subseteq Threads /\ Detector \in Threads
      /\ alloc \in [Ids -> Allocation] /\ i \in todo[t] /\ pc[t] \in {"select", "organize"}
  BY DEF TypeOK, Threads, ToOrganize
<1> DEFINE Goal == i \in todo'[t] /\ pc'[t] \in {"select", "organize"}
<1>2. ASSUME NEW c \in Consumers, RequestStep(c) PROVE Goal
  <2>1. c # t /\ todo'[t] = todo[t] /\ pc'[t] = pc[t]
    BY <1>1, <1>2 DEF RequestStep, ReserveContig, InnerSkip, InnerTake, InnerNone, Donate, Confirm,
         GiveBack, CommitOne, CommitDone, Unbacked, UnbackedDone, Retain, RetainNone, AddCapacity,
         WaitAdd, Partition, PartitionDone, Respond, Goto, CallReturn
  <2>2. QED
    BY <1>1, <2>1
<1>3. ASSUME NEW u \in Threads, OrganizeOne(u) PROVE Goal \/ alloc'[i].state = "Abandoned"
  <2>1. PICK j \in todo[u] : /\ todo' = [todo EXCEPT ![u] = @ \ {j}]
                             /\ alloc' = [alloc EXCEPT ![j] = abandon(@)]
    BY <1>3 DEF OrganizeOne
  <2>2. pc' = pc
    BY <1>3 DEF OrganizeOne
  <2>3. CASE j = i
    <3>1. alloc'[i] = abandon(alloc[i]) /\ alloc[i] \in Allocation
      BY <1>1, <2>1, <2>3
    <3>2. QED
      BY <3>1 DEF abandon, Allocation
  <2>4. CASE j # i
    BY <1>1, <2>1, <2>2, <2>4
  <2>5. QED
    BY <2>3, <2>4
<1>4. ASSUME NEW u \in Threads, ReturnStep(u), ~OrganizeOne(u) PROVE Goal
  BY <1>1, <1>4 DEF ReturnStep, OrganizeDone, ConsumersDone, DonorsDone, RelClaim, RelQmp, RelWait,
       RelRemove, DonQmp, DonBook, Goto
<1>5. ASSUME NEW u \in Revokers, RevokeStep(u) PROVE Goal
  BY <1>1, <1>5 DEF RevokeStep, RevokeLock, RevokeSelect, RevokeReturn, Goto, CallReturn
<1>6. ASSUME DetectorStep PROVE Goal
  BY <1>1, <1>6 DEF DetectorStep, DetRemove, DetExited, DetConsumer, DetDonor, DetSelect, DetReturn,
       Goto, CallReturn
<1>7. ASSUME EventStep PROVE Goal
  BY <1>1, <1>7 DEF EventStep, EvtTake, EvtAdd, EvtGap, EvtRelease, Goto
<1>8. ASSUME Environment \/ UNCHANGED vars PROVE Goal
  BY <1>1, <1>8 DEF Environment, RequestArrives, GuestAdds, GuestReleases, DonorRevokes,
       VmExits, vars, threadVars, Goto
<1>9. Goal \/ alloc'[i].state = "Abandoned"
  BY <1>2, <1>3, <1>4, <1>5, <1>6, <1>7, <1>8 DEF Next
<1>10. QED
  BY <1>9 DEF ToOrganize

(* Every claimed allocation is in the hands of a thread. *)
LEMMA ClaimedStep ==
  ASSUME LoanKept, ClaimedIsOrganized, [Next]_vars
  PROVE  ClaimedIsOrganized'
<1>1. TypeOK /\ Revokers \subseteq Threads
  BY DEF LoanKept, Lifecycle, WellFormed, Threads
<1>2. SUFFICES ASSUME NEW i \in Ids', alloc'[i].state = "PendingRelease"
               PROVE  \E t \in Threads : ToOrganize(t, i)'
  BY DEF ClaimedIsOrganized
<1>3. CASE i \in Ids /\ alloc[i].state = "PendingRelease"
  <2>1. PICK t \in Threads : ToOrganize(t, i)
    BY <1>3 DEF ClaimedIsOrganized
  <2>2. ToOrganize(t, i)'
    BY <1>1, <1>2, <1>3, <2>1, TodoSteps
  <2>3. QED
    BY <2>2
<1>4. CASE \E t \in Revokers : i \in todo'[t] /\ pc'[t] = "select"
  BY <1>1, <1>4 DEF ToOrganize
<1>5. QED
  BY <1>2, <1>3, <1>4, NewClaims

-----------------------------------------------------------------------------
(***************************************************************************)
(* What is asked for stays covered.                                        *)
(***************************************************************************)

LEMMA OwingGrows ==
  ASSUME TypeOK', NEW r \in Regions, FaultFree(r)' => Owing(r) \subseteq Owing(r)'
  PROVE  FaultFree(r)' => Granularity * Cardinality(Owing(r)) <= Granularity * Cardinality(Owing(r)')
<1>1. SUFFICES ASSUME FaultFree(r)'
               PROVE  Granularity * Cardinality(Owing(r)) <= Granularity * Cardinality(Owing(r)')
  OBVIOUS
<1>2. PICK P, Q : P = Owing(r) /\ Q = Owing(r)'
  OBVIOUS
<1>3. P \subseteq Q /\ IsFiniteSet(Q)
  BY <1>1, <1>2, NextDebtTypes
<1>4. Cardinality(P) <= Cardinality(Q) /\ Cardinality(P) \in Nat /\ Cardinality(Q) \in Nat
  BY <1>3, FS_Subset, FS_CardinalityType
<1>5. QED
  BY <1>2, <1>4, GranuleOrder

(* A step that pays nothing and claims nothing. *)
LEMMA DebtStays ==
  ASSUME TypeOK, TypeOK', NEW r \in Regions, Owes(r),
         Carried(r)' = Carried(r), events'[DonorOf[r]] = events[DonorOf[r]],
         asked'[r] = asked[r], region'[r].revoked_owed = region[r].revoked_owed,
         FaultFree(r)' => FaultFree(r) /\ Owing(r) \subseteq Owing(r)'
  PROVE  Owes(r)'
<1>1. FaultFree(r)' => Granularity * Cardinality(Owing(r)) <= Granularity * Cardinality(Owing(r)')
  BY OwingGrows
<1> DEFINE p == Granularity * Cardinality(Owing(r))
<1>2. asked[r] \in Nat /\ region[r].revoked_owed \in Nat /\ p \in Nat /\ p' \in Nat
  BY DebtTypes, NextDebtTypes
<1> HIDE DEF p
<1>3. FaultFree(r)' => asked'[r] + (region[r].revoked_owed + p)
                         <= asked[r] + (region'[r].revoked_owed + p') + 0 + 0
  BY <1>1, <1>2 DEF p
<1>4. QED
  BY <1>3, SameCarried, SameWanted, DebtMoves DEF p

(* Only a confirmed grant, a give-back and a revoke change what is carried. *)
LEMMA CarriedSteps ==
  ASSUME TypeOK, [Next]_vars, NEW r \in Regions, UNCHANGED revoke,
         \A c \in Consumers : ~(Confirm(c) \/ GiveBack(c))
  PROVE  Carried(r)' = Carried(r)
<1>1. ASSUME NEW c \in Consumers
      PROVE  \/ pc'[c] = pc[c] /\ req'[c] = req[c]
             \/ pc'[c] # "give_back" /\ pc[c] # "give_back"
  <2>1. pc \in [Threads -> Labels] /\ c \in Threads
    BY DEF TypeOK, Threads
  <2>2. CASE RequestStep(c)
    BY <2>1, <2>2 DEF RequestStep, ReserveContig, InnerSkip, InnerTake, InnerNone, Donate,
         CommitOne, CommitDone, Unbacked, UnbackedDone, Retain, RetainNone, AddCapacity, WaitAdd,
         Partition, PartitionDone, Respond, Goto, CallReturn
  <2>3. QED
    BY <2>2, ConsumerSteps
<1>2. ASSUME NEW t \in Consumers \cup Revokers PROVE Carried(r)'[t] = Carried(r)[t]
  BY <1>1 DEF Carried
<1>3. QED
  BY <1>2 DEF Carried

(* What the steps that no debt depends on leave alone. *)
LEMMA CalmSteps ==
  ASSUME TypeOK, [Next]_vars,
         \A c \in Consumers : ~(Confirm(c) \/ GiveBack(c)),
         \A t \in Threads, r \in Regions : ~DonQmp(t, r),
         \A t \in Revokers : ~(RevokeSelect(t) \/ RevokeReturn(t)),
         \A v \in VMs : ~EvtTake(v),
         \A c \in Consumers : \A S \in SUBSET Slots : ~(GuestAdds(c, S) \/ GuestReleases(c, S)),
         \A r \in Regions : \A n \in 1..RegionSize[r] : ~DonorRevokes(r, n)
  PROVE  /\ UNCHANGED <<revoke, asked, events>>
         /\ \A r \in Regions : region'[r].revoked_owed = region[r].revoked_owed
<1>1. region \in [Regions -> Region]
  BY DEF TypeOK
<1> DEFINE Calm == /\ UNCHANGED <<revoke, asked, events>>
                   /\ \A r \in Regions : region'[r].revoked_owed = region[r].revoked_owed
<1>2. ASSUME NEW c \in Consumers, RequestStep(c) PROVE Calm
  <2>1. UNCHANGED <<revoke, asked, events>>
    BY <1>2 DEF RequestStep, ReserveContig, InnerSkip, InnerTake, InnerNone, Donate,
         CommitOne, CommitDone, Unbacked, UnbackedDone, Retain, RetainNone, AddCapacity, WaitAdd,
         Partition, PartitionDone, Respond, vmVars
  <2>2. CASE InnerTake(c)
    <3>1. PICK q, chunk : q \in Regions /\ region' = [region EXCEPT ![q] = Reserve(@, chunk)]
      BY <2>2 DEF InnerTake
    <3>2. \A r \in Regions : region'[r].revoked_owed = region[r].revoked_owed
      BY <1>1, <3>1 DEF Reserve, Region
    <3>3. QED
      BY <2>1, <3>2
  <2>3. CASE ~InnerTake(c)
    <3>1. UNCHANGED region
      BY <1>2, <2>3 DEF RequestStep, ReserveContig, InnerSkip, InnerNone, Donate,
         CommitOne, CommitDone, Unbacked, UnbackedDone, Retain, RetainNone, AddCapacity, WaitAdd,
         Partition, PartitionDone, Respond, allocVars
    <3>2. QED
      BY <2>1, <3>1
  <2>4. QED
    BY <2>2, <2>3
<1>3. ASSUME NEW t \in Threads, ReturnStep(t) PROVE Calm
  <2>1. UNCHANGED <<revoke, asked, events>>
    BY <1>3 DEF ReturnStep, OrganizeOne, OrganizeDone, ConsumersDone, DonorsDone, RelClaim, RelQmp,
         RelWait, RelRemove, DonBook, vmVars
  <2>2. ASSUME NEW q \in Regions, DonBook(t, q) PROVE Calm
    <3>1. PICK i : region' = [region EXCEPT ![q] = bookkeep_returned_eph_memory(@, i)]
      BY <2>2 DEF DonBook
    <3>2. bookkeep_returned_eph_memory(region[q], i).revoked_owed = region[q].revoked_owed
      BY <1>1 DEF bookkeep_returned_eph_memory, Region
    <3>3. \A r \in Regions : region'[r].revoked_owed = region[r].revoked_owed
      BY <1>1, <3>1, <3>2
    <3>4. QED
      BY <2>1, <3>3
  <2>3. CASE ~\E q \in Regions : DonBook(t, q)
    <3>1. UNCHANGED region
      BY <1>3, <2>3 DEF ReturnStep, OrganizeOne, OrganizeDone, ConsumersDone, DonorsDone,
           RelClaim, RelQmp, RelWait, RelRemove, allocVars
    <3>2. QED
      BY <2>1, <3>1
  <2>4. QED
    BY <2>2, <2>3
<1>4. ASSUME NEW t \in Revokers, RevokeStep(t) PROVE Calm
  BY <1>4 DEF RevokeStep, RevokeLock, allocVars, vmVars
<1>5. ASSUME DetectorStep \/ UNCHANGED vars PROVE Calm
  BY <1>5 DEF DetectorStep, DetRemove, DetExited, DetConsumer, DetDonor, DetSelect, DetReturn,
       vars, allocVars, threadVars, vmVars
<1>6. ASSUME EventStep PROVE Calm
  BY <1>6 DEF EventStep, EvtAdd, EvtGap, EvtRelease, allocVars, vmVars
<1>7. ASSUME Environment PROVE Calm
  BY <1>7 DEF Environment, RequestArrives, VmExits, allocVars, threadVars, vmVars
<1>8. QED
  BY <1>2, <1>3, <1>4, <1>5, <1>6, <1>7 DEF Next

(* What a grant pays of the debt is given back at once. *)
LEMMA ConfirmPays ==
  ASSUME nextId \in Nat, NEW reg \in Region, NEW ids \in SUBSET Ids, NEW g \in Nat
  PROVE  \E paid \in Nat :
           /\ handle_reserved_alloc(reg, ids, g).revoked_owed = reg.revoked_owed - paid
           /\ paid <= reg.revoked_owed /\ paid <= GiveBackUnits(reg, ids, g)
<1> DEFINE m == MinOf(g, Granularity * Cardinality(ids))
<1>1. Granularity * Cardinality(ids) \in Nat
  BY IdsAreFinite, GranuleOrder
<1>2. m \in Nat
  BY <1>1 DEF MinOf
<1>3. m % Granularity \in Nat /\ m % Granularity <= m
  BY <1>2, Remainders
<1>4. Usable(ids, g) = m - (m % Granularity)
  BY DEF Usable
<1>5. GiveBackUnits(reg, ids, g) = Owed(reg, ids, g) + (m % Granularity)
  BY DEF GiveBackUnits
<1> HIDE DEF m
<1>6. Usable(ids, g) \in Nat /\ reg.revoked_owed \in Nat
  BY <1>2, <1>3, <1>4 DEF Region
<1>7. Owed(reg, ids, g) \in Nat /\ Owed(reg, ids, g) <= reg.revoked_owed
  BY <1>6 DEF Owed, MinOf
<1>8. handle_reserved_alloc(reg, ids, g).revoked_owed = reg.revoked_owed - Owed(reg, ids, g)
  BY DEF handle_reserved_alloc, Region
<1>9. Owed(reg, ids, g) <= GiveBackUnits(reg, ids, g)
  BY <1>3, <1>5, <1>7
<1>10. QED
  BY <1>7, <1>8, <1>9

(* A confirmed grant moves what it pays from the debt to its give-back. *)
LEMMA ConfirmOwes ==
  ASSUME LoanKept, TypeOK', [Next]_vars, FaultsAreBounded, ExitedIsDead, AskedIsCovered,
         NEW c \in Consumers, Confirm(c)
  PROVE  AskedIsCovered'
<1>1. /\ TypeOK /\ c \in Threads /\ Consumers \subseteq Threads /\ pc \in [Threads -> Labels]
      /\ req \in [Consumers -> Request] /\ req[c].region \in Regions /\ c \notin Revokers
      /\ nextId \in Nat /\ region \in [Regions -> Region]
  BY OrchestratorAssumption
     DEF LoanKept, Lifecycle, WellFormed, TypeOK, RegionIsKnown, Request, Threads, VMs, Confirm
<1>2. PICK r \in Regions : r = req[c].region
  BY <1>1
<1>3. PICK g \in Nat, ids \in SUBSET Ids : g = req[c].granted /\ ids = req[c].chunk
  BY <1>1 DEF Request
<1>4. PICK back \in Nat : back = GiveBackUnits(region[r], ids, g)
  BY <1>1, ConfirmTypes
<1>5. /\ pc[c] = "confirm" /\ pc' = [pc EXCEPT ![c] = IF back > 0 THEN "give_back" ELSE "commit"]
      /\ UNCHANGED <<duty, book, revoke, asked, events>>
      /\ region' = [region EXCEPT ![r] = handle_reserved_alloc(@, ids, g)]
  BY <1>2, <1>3, <1>4 DEF Confirm, Goto, vmVars
<1>6. PICK conf : req' = [req EXCEPT ![c].chunk = conf, ![c].granted = 0, ![c].give_back = back]
  BY <1>2, <1>3, <1>4 DEF Confirm
<1>7. /\ \A b \in Consumers \ {c} : pc'[b] = pc[b] /\ req'[b] = req[b]
      /\ pc'[c] = IF back > 0 THEN "give_back" ELSE "commit"
      /\ req'[c].give_back = back /\ req'[c].region = r
  BY <1>1, <1>2, <1>5, <1>6 DEF Request
<1>8. ASSUME NEW q \in Regions
      PROVE  Carried(q)' = IF q = r THEN [Carried(q) EXCEPT ![c] = back] ELSE Carried(q)
  <2>1. \A t \in (Consumers \cup Revokers) \ {c} : Carried(q)'[t] = Carried(q)[t]
    BY <1>5, <1>7 DEF Carried
  <2>2. Carried(q)'[c] = IF q = r THEN back ELSE 0
    <3>1. pc'[c] = "give_back" \/ (pc'[c] # "give_back" /\ back = 0)
      BY <1>7
    <3>2. QED
      BY <1>7, <3>1 DEF Carried
  <2>3. Carried(q)[c] = 0
    BY <1>5 DEF Carried
  <2>4. QED
    BY <2>1, <2>2, <2>3 DEF Carried
<1>9. ASSUME NEW q \in Regions
      PROVE  Owes(q) /\ (FaultFree(q)' => FaultFree(q) /\ Owing(q) \subseteq Owing(q)')
  BY <1>1, <1>5, FaultKept, OwingKept DEF AskedIsCovered
<1>10. ASSUME NEW q \in Regions, q # r PROVE Owes(q)'
  <2>1. region'[q] = region[q] /\ asked'[q] = asked[q] /\ events'[DonorOf[q]] = events[DonorOf[q]]
    BY <1>1, <1>5, <1>10
  <2>2. Carried(q)' = Carried(q)
    BY <1>8, <1>10
  <2>3. QED
    BY <1>1, <1>9, <2>1, <2>2, DebtStays
<1>11. Owes(r)'
  <2>1. PICK paid \in Nat :
          /\ handle_reserved_alloc(region[r], ids, g).revoked_owed = region[r].revoked_owed - paid
          /\ paid <= region[r].revoked_owed /\ paid <= back
    <3>1. PICK reg \in Region : reg = region[r]
      BY <1>1
    <3>2. \E paid \in Nat :
            /\ handle_reserved_alloc(reg, ids, g).revoked_owed = reg.revoked_owed - paid
            /\ paid <= reg.revoked_owed /\ paid <= GiveBackUnits(reg, ids, g)
      BY <1>1, ConfirmPays
    <3>3. QED
      BY <1>4, <3>1, <3>2
  <2>2. region'[r].revoked_owed = region[r].revoked_owed - paid
    BY <1>1, <1>5, <2>1
  <2>3. Carried(r)[c] = 0 /\ Carried(r)' = [Carried(r) EXCEPT ![c] = back]
    BY <1>5, <1>8 DEF Carried
  <2>4. PICK x \in Int : x = back - 0
    OBVIOUS
  <2>5. /\ IsFiniteSet(Units(Carried(r)))'
        /\ Cardinality(Units(Carried(r)))' = Cardinality(Units(Carried(r))) + x
    BY <1>1, <1>9, <2>3, <2>4, CarriedChange
  <2> DEFINE p == Granularity * Cardinality(Owing(r))
  <2>6. asked[r] \in Nat /\ region[r].revoked_owed \in Nat /\ p \in Nat /\ p' \in Nat
    BY <1>1, DebtTypes, NextDebtTypes
  <2>7. FaultFree(r)' => p <= p'
    BY <1>1, <1>9, OwingGrows
  <2> HIDE DEF p
  <2>8. FaultFree(r)' => asked'[r] + (region[r].revoked_owed + p)
                           <= asked[r] + (region'[r].revoked_owed + p') + x + 0
    BY <1>5, <2>1, <2>2, <2>4, <2>6, <2>7
  <2>9. events'[DonorOf[r]] = events[DonorOf[r]]
    BY <1>5
  <2>10. QED
    BY <1>1, <1>9, <2>5, <2>8, <2>9, SameWanted, DebtMoves DEF p
<1>12. QED
  BY <1>10, <1>11 DEF AskedIsCovered

(* What is given back pays the donor. *)
LEMMA GiveBackOwes ==
  ASSUME LoanKept, TypeOK', [Next]_vars, FaultsAreBounded, ExitedIsDead, AskedIsCovered,
         NEW c \in Consumers, GiveBack(c)
  PROVE  AskedIsCovered'
<1>1. /\ TypeOK /\ c \in Threads /\ Consumers \subseteq Threads /\ pc \in [Threads -> Labels]
      /\ req \in [Consumers -> Request] /\ req[c].region \in Regions
      /\ asked \in [Regions -> Nat]
  BY DEF LoanKept, Lifecycle, WellFormed, TypeOK, RegionIsKnown, Request, Threads, GiveBack
<1>2. PICK r \in Regions, n \in Nat : r = req[c].region /\ n = req[c].give_back
  BY <1>1 DEF Request
<1>3. /\ pc[c] = "give_back" /\ pc' = [pc EXCEPT ![c] = "commit"]
      /\ UNCHANGED <<duty, book, revoke, events, region, alive>>
      /\ req' = [req EXCEPT ![c].give_back = 0]
  BY DEF GiveBack, Goto, allocVars
<1>4. \/ asked' = [asked EXCEPT ![r] = IF @ > n THEN @ - n ELSE 0]
      \/ IoErr(DonorOf[r]) /\ UNCHANGED asked
  BY <1>2 DEF GiveBack, DonorRegains
<1>5. (\A b \in Consumers \ {c} : pc'[b] = pc[b] /\ req'[b] = req[b]) /\ pc'[c] = "commit"
  BY <1>1, <1>3 DEF Request
<1>6. ASSUME NEW q \in Regions
      PROVE  Carried(q)' = IF q = r THEN [Carried(q) EXCEPT ![c] = 0] ELSE Carried(q)
  <2>1. \A t \in (Consumers \cup Revokers) \ {c} : Carried(q)'[t] = Carried(q)[t]
    BY <1>3, <1>5 DEF Carried
  <2>2. Carried(q)'[c] = 0
    BY <1>5 DEF Carried
  <2>3. q # r => Carried(q)[c] = 0
    BY <1>2 DEF Carried
  <2>4. QED
    BY <2>1, <2>2, <2>3 DEF Carried
<1>7. ASSUME NEW q \in Regions
      PROVE  /\ Owes(q) /\ (FaultFree(q)' => FaultFree(q) /\ Owing(q) \subseteq Owing(q)')
             /\ IoErr(DonorOf[q]) => ~FaultFree(q)'
  BY <1>1, <1>3, FaultKept, OwingKept DEF AskedIsCovered
<1>8. ASSUME NEW q \in Regions, q # r PROVE Owes(q)'
  <2>1. region'[q] = region[q] /\ asked'[q] = asked[q] /\ events'[DonorOf[q]] = events[DonorOf[q]]
    BY <1>1, <1>3, <1>4, <1>8
  <2>2. Carried(q)' = Carried(q)
    BY <1>6, <1>8
  <2>3. QED
    BY <1>1, <1>7, <2>1, <2>2, DebtStays
<1>9. Owes(r)'
  <2>1. Carried(r)[c] = n /\ Carried(r)' = [Carried(r) EXCEPT ![c] = 0]
    BY <1>2, <1>3, <1>6 DEF Carried
  <2>2. PICK x \in Int : x = 0 - n
    OBVIOUS
  <2>3. /\ IsFiniteSet(Units(Carried(r)))'
        /\ Cardinality(Units(Carried(r)))' = Cardinality(Units(Carried(r))) + x
    BY <1>1, <1>7, <2>1, <2>2, CarriedChange
  <2> DEFINE p == Granularity * Cardinality(Owing(r))
  <2>4. asked[r] \in Nat /\ region[r].revoked_owed \in Nat /\ p \in Nat /\ p' \in Nat
    BY <1>1, DebtTypes, NextDebtTypes
  <2>5. FaultFree(r)' => p <= p'
    BY <1>1, <1>7, OwingGrows
  <2>6. FaultFree(r)' => asked'[r] = IF asked[r] > n THEN asked[r] - n ELSE 0
    BY <1>1, <1>4, <1>7
  <2>7. region'[r] = region[r] /\ events'[DonorOf[r]] = events[DonorOf[r]]
    BY <1>3
  <2> HIDE DEF p
  <2>8. FaultFree(r)' => \/ asked'[r] = 0
                         \/ asked'[r] + (region[r].revoked_owed + p)
                              <= asked[r] + (region'[r].revoked_owed + p') + x + 0
    BY <2>2, <2>4, <2>5, <2>6, <2>7
  <2>9. QED
    BY <1>1, <1>7, <2>3, <2>7, <2>8, SameWanted, DebtMoves DEF p
<1>10. QED
  BY <1>8, <1>9 DEF AskedIsCovered

(* A return pays for the allocations it takes off the list. *)
LEMMA DonQmpOwes ==
  ASSUME LoanKept, TypeOK', [Next]_vars, FaultsAreBounded, AskedIsCovered,
         NEW t \in Threads, NEW r \in Regions, DonQmp(t, r)
  PROVE  AskedIsCovered'
<1>1. /\ TypeOK /\ duty \in [Threads -> [Regions -> SUBSET Ids]] /\ nextId \in Nat
      /\ book \in [Threads -> [Regions -> BOOLEAN]] /\ asked \in [Regions -> Nat]
  BY DEF LoanKept, Lifecycle, WellFormed, TypeOK
<1>2. /\ Ids' = Ids /\ UNCHANGED <<alloc, nextId, region, pc, req, revoke, events, alive>>
      /\ ~book[t][r]
  BY DEF DonQmp, Ids, allocVars
<1> DEFINE D == duty[t][r]
           n == Granularity * Cardinality(D)
           ok == /\ asked' = [asked EXCEPT ![r] = IF @ > n THEN @ - n ELSE 0]
                 /\ book' = [book EXCEPT ![t][r] = TRUE] /\ UNCHANGED duty
           err == /\ IoErr(DonorOf[r]) /\ duty' = [duty EXCEPT ![t][r] = {}]
                  /\ UNCHANGED <<asked, book>>
<1>3. ok \/ err
  BY DEF DonQmp, DonorRegains
<1>4. ASSUME NEW q \in Regions
      PROVE  /\ Owes(q) /\ (FaultFree(q)' => FaultFree(q)) /\ (err /\ q = r => ~FaultFree(q)')
             /\ Carried(q)' = Carried(q)
  BY <1>1, <1>2, FaultKept DEF AskedIsCovered, Carried
<1>5. ASSUME NEW q \in Regions
      PROVE  Owing(q) \subseteq Owing(q)' \cup (IF q = r THEN D ELSE {})
  <2>1. SUFFICES ASSUME NEW i \in Owing(q), ~(q = r /\ i \in D) PROVE i \in Owing(q)'
    OBVIOUS
  <2>2. CASE i \in Unreturned(q)
    <3>1. PICK u \in Threads : i \in duty[u][q] /\ ~book[u][q] /\ i \in Ids
      BY <2>2 DEF Unreturned
    <3>2. u # t \/ q # r
      BY <2>1, <3>1
    <3>3. i \in duty'[u][q] /\ ~book'[u][q]
      BY <1>1, <1>3, <3>1, <3>2
    <3>4. QED
      BY <1>2, <3>1, <3>3 DEF Owing, Unreturned
  <2>3. CASE i \in Ids /\ alloc[i].state = "PendingRelease" /\ alloc[i].donor_info = q
    BY <1>2, <2>3 DEF Owing
  <2>4. QED
    BY <2>1, <2>2, <2>3 DEF Owing
<1>6. ASSUME NEW q \in Regions, q # r PROVE Owes(q)'
  <2>1. region'[q] = region[q] /\ asked'[q] = asked[q] /\ events'[DonorOf[q]] = events[DonorOf[q]]
    BY <1>1, <1>2, <1>3, <1>6
  <2>2. Owing(q) \subseteq Owing(q)'
    BY <1>5, <1>6
  <2>3. QED
    BY <1>1, <1>4, <2>1, <2>2, DebtStays
<1>7. Owes(r)'
  <2> DEFINE p == Granularity * Cardinality(Owing(r))
  <2>1. asked[r] \in Nat /\ region[r].revoked_owed \in Nat /\ p \in Nat /\ p' \in Nat
    BY <1>1, DebtTypes, NextDebtTypes
  <2>2. n \in Nat /\ IsFiniteSet(D) /\ Cardinality(D) \in Nat
    BY <1>1, IdsAreFinite, GranuleOrder
  <2>3. p <= p' + n
    <3>1. PICK P, Q, E : P = Owing(r) /\ Q = Owing(r)' /\ E = D
      OBVIOUS
    <3>2. P \subseteq Q \cup E /\ IsFiniteSet(Q) /\ IsFiniteSet(E)
      BY <1>5, <2>2, <3>1, NextDebtTypes
    <3>3. Cardinality(Q) \in Nat /\ Cardinality(E) \in Nat /\ Cardinality(Q \cap E) \in Nat
      BY <3>2, FS_CardinalityType, FS_Intersection
    <3>4. /\ IsFiniteSet(Q \cup E)
          /\ Cardinality(Q \cup E) = Cardinality(Q) + Cardinality(E) - Cardinality(Q \cap E)
      BY <3>2, FS_Union
    <3>5. Cardinality(P) \in Nat /\ Cardinality(P) <= Cardinality(Q \cup E)
      BY <3>2, <3>4, FS_Subset, FS_CardinalityType
    <3>6. Cardinality(P) <= Cardinality(Q) + Cardinality(E)
      BY <3>3, <3>4, <3>5
    <3>7. Cardinality(Q) + Cardinality(E) \in Nat
      BY <3>3
    <3>8. Granularity * Cardinality(P) <= Granularity * (Cardinality(Q) + Cardinality(E))
      BY <3>5, <3>6, <3>7, GranuleOrder
    <3>9. Granularity * (Cardinality(Q) + Cardinality(E))
            = Granularity * Cardinality(Q) + Granularity * Cardinality(E)
      BY <3>3, GranuleOrder
    <3>10. QED
      BY <3>1, <3>8, <3>9
  <2>4. FaultFree(r)' => asked'[r] = IF asked[r] > n THEN asked[r] - n ELSE 0
    BY <1>1, <1>3, <1>4
  <2>5. region'[r] = region[r] /\ events'[DonorOf[r]] = events[DonorOf[r]]
    BY <1>2
  <2> HIDE DEF p, n
  <2>6. FaultFree(r)' => \/ asked'[r] = 0
                         \/ asked'[r] + (region[r].revoked_owed + p)
                              <= asked[r] + (region'[r].revoked_owed + p') + 0 + 0
    BY <2>1, <2>2, <2>3, <2>4, <2>5
  <2>7. QED
    BY <1>1, <1>4, <2>5, <2>6, SameCarried, SameWanted, DebtMoves DEF p
<1>8. QED
  BY <1>6, <1>7 DEF AskedIsCovered

(* A revoke that claims an allocation has one granule less to claim. *)
LEMMA RevokeSelectOwes ==
  ASSUME LoanKept, TypeOK', [Next]_vars, FaultsAreBounded, ExitedIsDead, MapIsAccounted,
         AskedIsCovered, ScanIsMapped, NEW t \in Revokers, RevokeSelect(t)
  PROVE  AskedIsCovered'
<1>1. /\ TypeOK /\ t \notin Consumers /\ Revokers \subseteq Threads /\ alloc \in [Ids -> Allocation]
      /\ revoke \in [Revokers -> [region : Regions \cup {NoRegion}, remaining : Nat]]
      /\ revoke[t].region \in Regions /\ scan[t] \subseteq Ids /\ NoRegion \notin Regions
  BY OrchestratorAssumption, AllocationAssumption
     DEF LoanKept, Lifecycle, WellFormed, TypeOK, RegionIsKnown, Threads, VMs, RevokeSelect, NoRegion
<1>2. PICK r \in Regions, n \in Nat : r = revoke[t].region /\ n = revoke[t].remaining /\ n > 0
  BY <1>1 DEF RevokeSelect
<1>3. /\ pc[t] = "select" /\ Ids' = Ids
      /\ UNCHANGED <<nextId, region, pc, req, duty, book, asked, events, alive>>
  BY DEF RevokeSelect, Ids, vmVars
<1>4. ASSUME NEW q \in Regions
      PROVE  /\ Owes(q) /\ (FaultFree(q)' => FaultFree(q) /\ Owing(q) \subseteq Owing(q)')
             /\ asked'[q] = asked[q] /\ region'[q] = region[q]
             /\ events'[DonorOf[q]] = events[DonorOf[q]]
  BY <1>1, <1>3, FaultKept, OwingKept DEF AskedIsCovered
<1>5. PICK i \in scan[t] :
        \/ UNCHANGED revoke
        \/ /\ is_committed(alloc[i]) /\ alloc' = [alloc EXCEPT ![i] = try_claim_for_revoke(@)]
           /\ revoke' = [revoke EXCEPT ![t].remaining = @ - 1]
  BY DEF RevokeSelect
<1>6. CASE UNCHANGED revoke
  <2>1. ASSUME NEW q \in Regions PROVE Carried(q)' = Carried(q)
    BY <1>3, <1>6 DEF Carried
  <2>2. QED
    BY <1>1, <1>4, <2>1, DebtStays DEF AskedIsCovered
<1>7. CASE /\ is_committed(alloc[i]) /\ alloc' = [alloc EXCEPT ![i] = try_claim_for_revoke(@)]
           /\ revoke' = [revoke EXCEPT ![t].remaining = @ - 1]
  <2>1. PICK m \in Nat : n = m + 1 /\ revoke' = [revoke EXCEPT ![t].remaining = m]
    <3>1. n - 1 \in Nat /\ n = (n - 1) + 1
      BY <1>2
    <3>2. QED
      BY <1>2, <1>7, <3>1
  <2>2. /\ revoke'[t].region = r /\ revoke'[t].remaining = m
        /\ \A u \in Revokers \ {t} : revoke'[u] = revoke[u]
    BY <1>1, <1>2, <2>1
  <2>3. ASSUME NEW q \in Regions
        PROVE  Carried(q)' = IF q = r THEN [Carried(q) EXCEPT ![t] = Granularity * m] ELSE Carried(q)
    <3>1. \A u \in (Consumers \cup Revokers) \ {t} : Carried(q)'[u] = Carried(q)[u]
      BY <1>3, <2>2 DEF Carried
    <3>2. Carried(q)'[t] = IF q = r THEN Granularity * m ELSE 0
      BY <1>1, <2>2 DEF Carried
    <3>3. q # r => Carried(q)[t] = 0
      BY <1>1, <1>2 DEF Carried
    <3>4. QED
      BY <3>1, <3>2, <3>3 DEF Carried
  <2>4. ASSUME NEW q \in Regions, q # r PROVE Owes(q)'
    BY <1>1, <1>4, <2>3, <2>4, DebtStays
  <2>5. Owes(r)'
    <3>1. Carried(r)[t] = Granularity * n
      BY <1>1, <1>2 DEF Carried
    <3>2. /\ Granularity * n = Granularity * m + Granularity /\ Granularity * m \in Nat
          /\ Granularity \in Nat
      <4>1. Granularity * (m + 1) = Granularity * m + Granularity * 1 /\ Granularity * m \in Nat
        BY GranuleOrder
      <4>2. Granularity * 1 = Granularity /\ Granularity \in Nat
        BY GranularityAssumption
      <4>3. QED
        BY <2>1, <4>1, <4>2
    <3>3. PICK x \in Int : x = 0 - Granularity
      BY <3>2
    <3>4. /\ IsFiniteSet(Units(Carried(r)))'
          /\ Cardinality(Units(Carried(r)))' = Cardinality(Units(Carried(r))) + x
      <4>1. PICK k \in Nat : k = Granularity * m
        BY <3>2
      <4>2. t \in Consumers \cup Revokers /\ Carried(r)' = [Carried(r) EXCEPT ![t] = k]
        BY <2>3, <4>1
      <4>3. /\ IsFiniteSet(Units(Carried(r)))'
            /\ Cardinality(Units(Carried(r)))'
                 = Cardinality(Units(Carried(r))) + (k - Carried(r)[t])
        BY <1>1, <1>4, <4>2, CarriedChange
      <4>4. k - Carried(r)[t] = x
        BY <3>1, <3>2, <3>3, <4>1
      <4>5. QED
        BY <4>3, <4>4
    <3> DEFINE p == Granularity * Cardinality(Owing(r))
    <3>5. asked[r] \in Nat /\ region[r].revoked_owed \in Nat /\ p \in Nat /\ p' \in Nat
      BY <1>1, DebtTypes, NextDebtTypes
    <3>6. ASSUME FaultFree(r)' PROVE p + Granularity <= p'
      <4>1. alloc[i].donor_info = r /\ i \in Ids
        <5>1. i \in region[r].allocations /\ FaultFree(r)
          BY <1>2, <1>3, <1>4, <3>6 DEF ScanIsMapped
        <5>2. i \in InUse(r) \cup Lending(r) \cup InReturn(r)
          BY <5>1 DEF MapIsAccounted
        <5>3. i \in Ids /\ alloc[i].state = "Committed" /\ alloc[i].donor_info # NoRegion
          BY <1>1, <1>7 DEF is_committed, LoanKept, Lifecycle, CommittedIsTracked
        <5>4. i \notin InReturn(r)
          BY <5>3 DEF InReturn, LoanKept, Lifecycle, DutyIsAbandoned
        <5>5. i \notin Lending(r)
          BY <5>3 DEF Lending, LoanKept, Lifecycle, PendingIsUncommitted, MayCommit
        <5>6. QED
          BY <5>2, <5>3, <5>4, <5>5 DEF InUse
      <4>2. i \notin Owing(r)
        BY <1>7 DEF is_committed, Owing, Unreturned, LoanKept, Lifecycle, DutyIsAbandoned
      <4>3. i \in Owing(r)'
        <5>1. alloc'[i] = try_claim_for_revoke(alloc[i]) /\ alloc[i] \in Allocation
          BY <1>1, <1>7, <4>1
        <5>2. alloc'[i].state = "PendingRelease" /\ alloc'[i].donor_info = r
          BY <4>1, <5>1 DEF try_claim_for_revoke, Allocation
        <5>3. QED
          BY <1>3, <4>1, <5>2 DEF Owing
      <4>4. PICK P, Q : P = Owing(r) /\ Q = Owing(r)'
        OBVIOUS
      <4>5. P \cup {i} \subseteq Q /\ i \notin P /\ IsFiniteSet(Q) /\ IsFiniteSet(P)
        BY <1>1, <1>4, <3>6, <4>2, <4>3, <4>4, DebtTypes, NextDebtTypes
      <4>6. IsFiniteSet(P \cup {i}) /\ Cardinality(P \cup {i}) = Cardinality(P) + 1
        BY <4>5, FS_AddElement
      <4>7. Cardinality(P) + 1 <= Cardinality(Q) /\ Cardinality(P) \in Nat /\ Cardinality(Q) \in Nat
        BY <4>5, <4>6, FS_Subset, FS_CardinalityType
      <4>8. Cardinality(P) + 1 \in Nat
        BY <4>7
      <4>9. Granularity * (Cardinality(P) + 1) <= Granularity * Cardinality(Q)
        BY <4>7, <4>8, GranuleOrder
      <4>10. Granularity * (Cardinality(P) + 1) = Granularity * Cardinality(P) + Granularity * 1
        BY <4>7, GranuleOrder
      <4>11. Granularity * 1 = Granularity
        BY <3>2
      <4>12. QED
        BY <4>4, <4>9, <4>10, <4>11
    <3> HIDE DEF p
    <3>7. FaultFree(r)' => asked'[r] + (region[r].revoked_owed + p)
                             <= asked[r] + (region'[r].revoked_owed + p') + x + 0
      <4>1. asked'[r] = asked[r] /\ region'[r].revoked_owed = region[r].revoked_owed
        BY <1>4
      <4>2. QED
        BY <3>2, <3>3, <3>5, <3>6, <4>1
    <3>8. QED
      BY <1>1, <1>4, <3>4, <3>7, SameWanted, DebtMoves DEF p
  <2>6. QED
    BY <2>4, <2>5 DEF AskedIsCovered
<1>8. QED
  BY <1>5, <1>6, <1>7

(* What a revoke could not claim becomes a debt of the region. *)
LEMMA RevokeReturnOwes ==
  ASSUME LoanKept, TypeOK', [Next]_vars, FaultsAreBounded, ExitedIsDead, AskedIsCovered,
         NEW t \in Revokers, RevokeReturn(t)
  PROVE  AskedIsCovered'
<1>1. /\ TypeOK /\ t \in Threads /\ t \notin Consumers /\ Consumers \subseteq Threads
      /\ pc \in [Threads -> Labels] /\ region \in [Regions -> Region]
      /\ revoke \in [Revokers -> [region : Regions \cup {NoRegion}, remaining : Nat]]
      /\ revoke[t].region \in Regions /\ NoRegion \notin Regions
  BY OrchestratorAssumption, AllocationAssumption
     DEF LoanKept, Lifecycle, WellFormed, TypeOK, RegionIsKnown, Threads, VMs, RevokeReturn, NoRegion
<1>2. PICK r \in Regions, n \in Nat : r = revoke[t].region /\ n = revoke[t].remaining
  BY <1>1
<1>3. /\ pc' = [pc EXCEPT ![t] = "organize"]
      /\ UNCHANGED <<duty, book, req, asked, events>>
      /\ region' = [region EXCEPT ![r] = OweRest(@, n)]
      /\ revoke' = [revoke EXCEPT ![t] = [region |-> NoRegion, remaining |-> 0]]
  BY <1>2 DEF RevokeReturn, CallReturn, Goto, vmVars
<1>4. /\ \A b \in Consumers : pc'[b] = pc[b]
      /\ \A u \in Revokers \ {t} : revoke'[u] = revoke[u]
      /\ revoke'[t].region = NoRegion
  BY <1>1, <1>3
<1>5. ASSUME NEW q \in Regions
      PROVE  Carried(q)' = IF q = r THEN [Carried(q) EXCEPT ![t] = 0] ELSE Carried(q)
  <2>1. \A u \in (Consumers \cup Revokers) \ {t} : Carried(q)'[u] = Carried(q)[u]
    BY <1>3, <1>4 DEF Carried
  <2>2. Carried(q)'[t] = 0
    BY <1>1, <1>4 DEF Carried
  <2>3. q # r => Carried(q)[t] = 0
    BY <1>1, <1>2 DEF Carried
  <2>4. QED
    BY <2>1, <2>2, <2>3 DEF Carried
<1>6. ASSUME NEW q \in Regions
      PROVE  Owes(q) /\ (FaultFree(q)' => FaultFree(q) /\ Owing(q) \subseteq Owing(q)')
  BY <1>1, <1>3, FaultKept, OwingKept DEF AskedIsCovered
<1>7. ASSUME NEW q \in Regions, q # r PROVE Owes(q)'
  <2>1. region'[q] = region[q] /\ asked'[q] = asked[q] /\ events'[DonorOf[q]] = events[DonorOf[q]]
    BY <1>1, <1>3, <1>7
  <2>2. Carried(q)' = Carried(q)
    BY <1>5, <1>7
  <2>3. QED
    BY <1>1, <1>6, <2>1, <2>2, DebtStays
<1>8. Owes(r)'
  <2>1. PICK m \in Nat : m = Granularity * n
    BY GranuleOrder
  <2>2. region'[r].revoked_owed = region[r].revoked_owed + m
    BY <1>1, <1>3, <2>1 DEF OweRest, Region
  <2>3. Carried(r)[t] = m /\ Carried(r)' = [Carried(r) EXCEPT ![t] = 0]
    BY <1>1, <1>2, <1>5, <2>1 DEF Carried
  <2>4. PICK x \in Int : x = 0 - m
    OBVIOUS
  <2>5. /\ IsFiniteSet(Units(Carried(r)))'
        /\ Cardinality(Units(Carried(r)))' = Cardinality(Units(Carried(r))) + x
    BY <1>1, <1>6, <2>3, <2>4, CarriedChange
  <2> DEFINE p == Granularity * Cardinality(Owing(r))
  <2>6. asked[r] \in Nat /\ region[r].revoked_owed \in Nat /\ p \in Nat /\ p' \in Nat
    BY <1>1, DebtTypes, NextDebtTypes
  <2>7. FaultFree(r)' => p <= p'
    BY <1>1, <1>6, OwingGrows
  <2> HIDE DEF p
  <2>8. FaultFree(r)' => asked'[r] + (region[r].revoked_owed + p)
                           <= asked[r] + (region'[r].revoked_owed + p') + x + 0
    BY <1>3, <2>2, <2>4, <2>6, <2>7
  <2>9. events'[DonorOf[r]] = events[DonorOf[r]]
    BY <1>3
  <2>10. QED
    BY <1>1, <1>6, <2>5, <2>8, <2>9, SameWanted, DebtMoves DEF p
<1>9. QED
  BY <1>7, <1>8 DEF AskedIsCovered

(* An event at the end of the queue of v adds what it demands. *)
LEMMA SendWants ==
  ASSUME TypeOK, NEW r \in Regions, Owes(r), NEW v \in VMs, NEW e \in DcEvent \cup RevokeEvent,
         Send(v, e)
  PROVE  /\ IsFiniteSet(Units(Wanted(events[DonorOf[r]], r)))'
         /\ Cardinality(Units(Wanted(events[DonorOf[r]], r)))'
              = Cardinality(Units(Wanted(events[DonorOf[r]], r)))
                  + (IF DonorOf[r] = v THEN Demand(e, r) ELSE 0)
<1>1. events \in [VMs -> Seq(DcEvent \cup RevokeEvent)] /\ DonorOf[r] \in VMs
  BY OrchestratorAssumption DEF TypeOK, VMs
<1>2. CASE DonorOf[r] # v
  <2>1. events'[DonorOf[r]] = events[DonorOf[r]]
    BY <1>1, <1>2 DEF Send
  <2>2. QED
    BY <1>2, <2>1, SameWanted
<1>3. CASE DonorOf[r] = v
  <2>1. PICK S : S = DcEvent \cup RevokeEvent
    OBVIOUS
  <2>2. PICK q \in Seq(S) : q = events[v]
    BY <1>1, <2>1
  <2>3. /\ \A x \in S : Demand(x, r) \in Nat
        /\ IsFiniteSet(Units(Wanted(q, r))) /\ e \in S
    BY <1>3, <2>1, <2>2, DemandType DEF Owes
  <2>4. /\ IsFiniteSet(Units(Wanted(Append(q, e), r)))
        /\ Cardinality(Units(Wanted(Append(q, e), r)))
             = Cardinality(Units(Wanted(q, r))) + Demand(e, r)
    BY <2>3, WantedAppend
  <2>5. events'[v] = Append(q, e)
    BY <1>1, <2>2 DEF Send
  <2>6. Units(Wanted(events[DonorOf[r]], r))' = Units(Wanted(Append(q, e), r))
    BY <1>3, <2>5 DEF Units, Wanted, Demand
  <2>7. QED
    BY <1>3, <2>2, <2>4, <2>6
<1>4. QED
  BY <1>2, <1>3

(* A revoke event asks for as much as its donor does; other events for     *)
(* nothing.                                                                *)
LEMMA SendOwes ==
  ASSUME LoanKept, TypeOK', [Next]_vars, FaultsAreBounded, ExitedIsDead, AskedIsCovered,
         NEW v \in VMs, NEW e \in DcEvent \cup RevokeEvent, Send(v, e),
         UNCHANGED <<region, pc, req, revoke, duty, book>>,
         \A r \in Regions :
           asked'[r] = asked[r] + (IF DonorOf[r] = v THEN Demand(e, r) ELSE 0)
  PROVE  AskedIsCovered'
<1>1. TypeOK
  BY DEF LoanKept, Lifecycle, WellFormed
<1>2. SUFFICES ASSUME NEW r \in Regions PROVE Owes(r)'
  BY DEF AskedIsCovered
<1>3. Owes(r) /\ (FaultFree(r)' => FaultFree(r) /\ Owing(r) \subseteq Owing(r)')
  BY <1>1, FaultKept, OwingKept DEF AskedIsCovered
<1>4. Carried(r)' = Carried(r)
  BY DEF Carried
<1>5. PICK w \in Int : w = IF DonorOf[r] = v THEN Demand(e, r) ELSE 0
  BY DemandType
<1>6. /\ IsFiniteSet(Units(Wanted(events[DonorOf[r]], r)))'
      /\ Cardinality(Units(Wanted(events[DonorOf[r]], r)))'
           = Cardinality(Units(Wanted(events[DonorOf[r]], r))) + w
  BY <1>1, <1>3, <1>5, SendWants
<1> DEFINE p == Granularity * Cardinality(Owing(r))
<1>7. asked[r] \in Nat /\ region[r].revoked_owed \in Nat /\ p \in Nat /\ p' \in Nat
  BY <1>1, DebtTypes, NextDebtTypes
<1>8. FaultFree(r)' => p <= p'
  BY <1>3, OwingGrows
<1> HIDE DEF p
<1>9. FaultFree(r)' => asked'[r] + (region[r].revoked_owed + p)
                         <= asked[r] + (region'[r].revoked_owed + p') + 0 + w
  <2>1. asked'[r] = asked[r] + w /\ region'[r].revoked_owed = region[r].revoked_owed
    BY <1>5
  <2>2. QED
    BY <1>5, <1>7, <1>8, <2>1
<1>10. QED
  BY <1>1, <1>3, <1>4, <1>6, <1>9, SameCarried, DebtMoves DEF p

(* The events of guests and donors. *)
LEMMA EnvironmentOwes ==
  ASSUME LoanKept, TypeOK', [Next]_vars, FaultsAreBounded, ExitedIsDead, AskedIsCovered,
         \/ \E c \in Consumers : \E S \in SUBSET Slots : GuestAdds(c, S) \/ GuestReleases(c, S)
         \/ \E r \in Regions : \E n \in 1..RegionSize[r] : DonorRevokes(r, n)
  PROVE  AskedIsCovered'
<1>1. TypeOK /\ asked \in [Regions -> Nat] /\ Consumers \subseteq VMs
      /\ \A r \in Regions : DonorOf[r] \in VMs
  BY OrchestratorAssumption DEF LoanKept, Lifecycle, WellFormed, TypeOK, VMs
<1>2. ASSUME NEW c \in Consumers, NEW S \in SUBSET Slots, GuestAdds(c, S) \/ GuestReleases(c, S)
      PROVE  AskedIsCovered'
  <2>1. PICK e \in DcEvent : Send(c, e) /\ e.type # "revoke"
    BY <1>1, <1>2 DEF GuestAdds, GuestReleases, DcEvent
  <2>2. UNCHANGED <<region, pc, req, revoke, duty, book, asked>>
    BY <1>2 DEF GuestAdds, GuestReleases, allocVars, threadVars
  <2>3. \A r \in Regions : asked'[r] = asked[r] + (IF DonorOf[r] = c THEN Demand(e, r) ELSE 0)
    BY <1>1, <2>1, <2>2, DemandType
  <2>4. c \in VMs /\ e \in DcEvent \cup RevokeEvent
    BY <1>1
  <2>5. QED
    BY <2>1, <2>2, <2>3, <2>4, SendOwes
<1>3. ASSUME NEW q \in Regions, NEW n \in 1..RegionSize[q], DonorRevokes(q, n)
      PROVE  AskedIsCovered'
  <2>1. RegionSize[q] \in Nat /\ n \in Nat /\ n > 0
    BY OrchestratorAssumption DEF DonorRevokes
  <2>2. PICK e : e = [type |-> "revoke", region |-> q, size |-> n]
    OBVIOUS
  <2>3. e \in RevokeEvent
    BY <2>1, <2>2 DEF RevokeEvent
  <2>4. Send(DonorOf[q], e) /\ asked' = [asked EXCEPT ![q] = @ + n]
    BY <1>3, <2>2 DEF DonorRevokes
  <2>5. UNCHANGED <<region, pc, req, revoke, duty, book>>
    BY <1>3 DEF DonorRevokes, allocVars, threadVars
  <2>6. \A r \in Regions : Demand(e, r) = IF r = q THEN n ELSE 0
    BY <2>2 DEF Demand
  <2>7. \A r \in Regions :
          asked'[r] = asked[r] + (IF DonorOf[r] = DonorOf[q] THEN Demand(e, r) ELSE 0)
    BY <1>1, <2>1, <2>4, <2>6
  <2>8. PICK v \in VMs : v = DonorOf[q]
    BY <1>1
  <2>9. e \in DcEvent \cup RevokeEvent
    BY <2>3
  <2>10. QED
    BY <2>4, <2>5, <2>7, <2>8, <2>9, SendOwes
<1>4. QED
  BY <1>2, <1>3

(* A revoke is rounded up to whole granules. *)
LEMMA RevokeCovers ==
  ASSUME NEW n \in Nat
  PROVE  RevokeGranules(n) \in Nat /\ Granularity * RevokeGranules(n) >= n
<1>1. Granularity \in Nat /\ Granularity >= 1
  BY GranularityAssumption
<1>2. PICK m \in Nat : m = n + Granularity - 1
  BY <1>1
<1>3. /\ m \div Granularity \in Nat /\ m % Granularity \in Nat
      /\ m = Granularity * (m \div Granularity) + (m % Granularity)
      /\ m % Granularity < Granularity
  BY Rounding
<1>4. PICK k \in Nat : k = Granularity * (m \div Granularity)
  BY <1>3, GranuleOrder
<1>5. k >= n
  BY <1>1, <1>2, <1>3, <1>4
<1>6. QED
  BY <1>2, <1>3, <1>4, <1>5 DEF RevokeGranules

(* An event that is taken no longer demands what it did. *)
LEMMA TakeWants ==
  ASSUME TypeOK, NEW r \in Regions, Owes(r), NEW v \in VMs, events[v] # <<>>,
         events' = [events EXCEPT ![v] = Tail(@)]
  PROVE  /\ IsFiniteSet(Units(Wanted(events[DonorOf[r]], r)))'
         /\ Cardinality(Units(Wanted(events[DonorOf[r]], r)))'
              = Cardinality(Units(Wanted(events[DonorOf[r]], r)))
                  + (0 - (IF DonorOf[r] = v THEN Demand(Head(events[v]), r) ELSE 0))
<1>1. events \in [VMs -> Seq(DcEvent \cup RevokeEvent)] /\ DonorOf[r] \in VMs
  BY OrchestratorAssumption DEF TypeOK, VMs
<1>2. CASE DonorOf[r] # v
  <2>1. events'[DonorOf[r]] = events[DonorOf[r]]
    BY <1>1, <1>2
  <2>2. QED
    BY <1>2, <2>1, SameWanted
<1>3. CASE DonorOf[r] = v
  <2>1. PICK S : S = DcEvent \cup RevokeEvent
    OBVIOUS
  <2>2. PICK q \in Seq(S) : q = events[v]
    BY <1>1, <2>1
  <2>3. /\ \A x \in S : Demand(x, r) \in Nat
        /\ IsFiniteSet(Units(Wanted(q, r))) /\ q # <<>>
    BY <1>3, <2>1, <2>2, DemandType DEF Owes
  <2>4. /\ IsFiniteSet(Units(Wanted(Tail(q), r)))
        /\ Cardinality(Units(Wanted(q, r)))
             = Cardinality(Units(Wanted(Tail(q), r))) + Demand(Head(q), r)
    BY <2>3, WantedTail
  <2>5. events'[v] = Tail(q)
    BY <1>1, <2>2
  <2>6. Units(Wanted(events[DonorOf[r]], r))' = Units(Wanted(Tail(q), r))
    <3>1. PICK s : s = Tail(q)
      OBVIOUS
    <3>2. events'[DonorOf[r]] = s
      BY <1>3, <2>5, <3>1
    <3>3. Units(Wanted(events[DonorOf[r]], r))' = Units(Wanted(s, r))
      BY ONLY <3>2 DEF Units, Wanted, Demand
    <3>4. QED
      BY <3>1, <3>3
  <2>7. Head(q) \in S /\ Cardinality(Units(Wanted(Tail(q), r))) \in Nat
    BY <2>3, <2>4, FS_CardinalityType
  <2>8. Demand(Head(q), r) \in Nat
    BY <2>3, <2>7
  <2>9. QED
    BY <1>3, <2>2, <2>4, <2>6, <2>7, <2>8
<1>4. QED
  BY <1>2, <1>3

(* A revoke event becomes a revoke that claims at least as much. *)
LEMMA TakeCarries ==
  ASSUME LoanKept, AskedIsCovered, ScanIsMapped, NEW v \in VMs, EvtTake(v),
         NEW r \in Regions
  PROVE  \E x \in Nat :
           /\ IsFiniteSet(Units(Carried(r)))'
           /\ Cardinality(Units(Carried(r)))' = Cardinality(Units(Carried(r))) + x
           /\ v \in vms => x >= Demand(Head(events[v]), r)
<1>1. /\ TypeOK /\ Revokers \subseteq Threads /\ Consumers \subseteq Threads /\ Owes(r)
      /\ Revokers \cap Consumers = {} /\ NoRegion \notin Regions
      /\ pc \in [Threads -> Labels] /\ events \in [VMs -> Seq(DcEvent \cup RevokeEvent)]
      /\ revoke \in [Revokers -> [region : Regions \cup {NoRegion}, remaining : Nat]]
  BY OrchestratorAssumption, AllocationAssumption
     DEF LoanKept, Lifecycle, WellFormed, TypeOK, Threads, VMs, NoRegion, AskedIsCovered
<1>2. PICK e \in DcEvent \cup RevokeEvent : e = Head(events[v])
  <2>1. PICK S : S = DcEvent \cup RevokeEvent
    OBVIOUS
  <2>2. PICK q \in Seq(S) : q = events[v]
    BY <1>1, <2>1
  <2>3. q # <<>>
    BY <2>2 DEF EvtTake
  <2>4. Head(q) \in S
    BY <2>3
  <2>5. QED
    BY <2>1, <2>2, <2>4
<1>3. Demand(e, r) \in Nat /\ (e.type # "revoke" => Demand(e, r) = 0)
  BY DemandType
<1>4. UNCHANGED req
  BY DEF EvtTake
<1>5. CASE UNCHANGED <<pc, revoke>> /\ (v \in vms => e.type # "revoke")
  <2>1. Carried(r)' = Carried(r)
    BY <1>4, <1>5 DEF Carried
  <2>2. /\ IsFiniteSet(Units(Carried(r)))'
        /\ Cardinality(Units(Carried(r)))' = Cardinality(Units(Carried(r))) + 0
    BY <1>1, <2>1, SameCarried
  <2>3. v \in vms => 0 >= Demand(Head(events[v]), r)
    BY <1>2, <1>3, <1>5
  <2>4. QED
    BY <2>2, <2>3
<1>6. ASSUME NEW t \in Revokers, pc[t] = "unused", e.type = "revoke", Goto(t, "revoke"),
             revoke' = [revoke EXCEPT ![t] =
                          [region |-> e.region, remaining |-> RevokeGranules(e.size)]]
      PROVE  \E x \in Nat :
               /\ IsFiniteSet(Units(Carried(r)))'
               /\ Cardinality(Units(Carried(r)))' = Cardinality(Units(Carried(r))) + x
               /\ v \in vms => x >= Demand(Head(events[v]), r)
  <2>1. e \in RevokeEvent
    BY <1>6, DemandType
  <2>2. e.size \in Nat
    BY <2>1 DEF RevokeEvent
  <2>3. PICK m \in Nat : m = RevokeGranules(e.size)
    BY <2>2, RevokeCovers
  <2>4. Granularity * m \in Nat /\ Granularity * m >= e.size
    BY <2>2, <2>3, RevokeCovers, GranuleOrder
  <2>5. PICK x \in Nat : x = IF e.region = r THEN Granularity * m ELSE 0
    BY <2>4
  <2>6. x >= Demand(e, r)
    BY <2>4, <2>5 DEF Demand
  <2>7. /\ revoke'[t].region = e.region /\ revoke'[t].remaining = m
        /\ \A u \in Revokers \ {t} : revoke'[u] = revoke[u]
        /\ \A c \in Consumers : pc'[c] = pc[c]
    BY <1>1, <1>6, <2>3 DEF Goto
  <2>8. Carried(r)[t] = 0
    <3>1. revoke[t].region = NoRegion
      BY <1>6 DEF ScanIsMapped
    <3>2. QED
      BY <1>1, <3>1 DEF Carried
  <2>9. Carried(r)' = [Carried(r) EXCEPT ![t] = x]
    <3>1. \A u \in (Consumers \cup Revokers) \ {t} : Carried(r)'[u] = Carried(r)[u]
      BY <1>4, <2>7 DEF Carried
    <3>2. Carried(r)'[t] = x
      BY <1>1, <2>5, <2>7 DEF Carried
    <3>3. QED
      BY <3>1, <3>2 DEF Carried
  <2>10. /\ IsFiniteSet(Units(Carried(r)))'
         /\ Cardinality(Units(Carried(r)))' = Cardinality(Units(Carried(r))) + (x - 0)
    BY <1>1, <2>8, <2>9, CarriedChange
  <2>11. x - 0 = x
    OBVIOUS
  <2>12. QED
    BY <1>2, <2>6, <2>10, <2>11
<1>7. QED
  BY <1>2, <1>5, <1>6 DEF EvtTake

LEMMA EvtTakeOwes ==
  ASSUME LoanKept, TypeOK', [Next]_vars, FaultsAreBounded, ExitedIsDead, AskedIsCovered,
         AliveIsListed, ScanIsMapped, NEW v \in VMs, EvtTake(v)
  PROVE  AskedIsCovered'
<1>1. TypeOK
  BY DEF LoanKept, Lifecycle, WellFormed
<1>2. SUFFICES ASSUME NEW r \in Regions PROVE Owes(r)'
  BY DEF AskedIsCovered
<1>3. UNCHANGED <<region, duty, book, asked, alive>> /\ events' = [events EXCEPT ![v] = Tail(@)]
      /\ events[v] # <<>>
  BY DEF EvtTake, allocVars
<1>4. Owes(r) /\ (FaultFree(r)' => FaultFree(r) /\ Owing(r) \subseteq Owing(r)')
  BY <1>1, <1>3, FaultKept, OwingKept DEF AskedIsCovered
<1>5. PICK x \in Nat :
        /\ IsFiniteSet(Units(Carried(r)))'
        /\ Cardinality(Units(Carried(r)))' = Cardinality(Units(Carried(r))) + x
        /\ v \in vms => x >= Demand(Head(events[v]), r)
  BY TakeCarries
<1>6. Demand(Head(events[v]), r) \in Nat
  <2>1. PICK S : S = DcEvent \cup RevokeEvent
    OBVIOUS
  <2>2. PICK q \in Seq(S) : q = events[v]
    BY <1>1, <2>1 DEF TypeOK
  <2>3. Head(q) \in S
    BY <1>3, <2>2
  <2>4. QED
    BY <2>1, <2>2, <2>3, DemandType
<1>7. PICK w \in Int : w = 0 - (IF DonorOf[r] = v THEN Demand(Head(events[v]), r) ELSE 0)
  BY <1>6
<1>8. /\ IsFiniteSet(Units(Wanted(events[DonorOf[r]], r)))'
      /\ Cardinality(Units(Wanted(events[DonorOf[r]], r)))'
           = Cardinality(Units(Wanted(events[DonorOf[r]], r))) + w
  BY <1>1, <1>3, <1>4, <1>7, TakeWants
<1>9. FaultFree(r)' => x + w >= 0
  <2>1. FaultFree(r)' /\ DonorOf[r] = v => v \in vms
    BY <1>4 DEF FaultFree, AliveIsListed
  <2>2. QED
    BY <1>5, <1>6, <1>7, <2>1
<1> DEFINE p == Granularity * Cardinality(Owing(r))
<1>10. asked[r] \in Nat /\ region[r].revoked_owed \in Nat /\ p \in Nat /\ p' \in Nat
  BY <1>1, DebtTypes, NextDebtTypes
<1>11. FaultFree(r)' => p <= p'
  BY <1>4, OwingGrows
<1> HIDE DEF p
<1>12. FaultFree(r)' => asked'[r] + (region[r].revoked_owed + p)
                          <= asked[r] + (region'[r].revoked_owed + p') + x + w
  <2>1. asked'[r] = asked[r] /\ region'[r].revoked_owed = region[r].revoked_owed
    BY <1>3
  <2>2. QED
    BY <1>5, <1>7, <1>9, <1>10, <1>11, <2>1
<1>13. x \in Int
  OBVIOUS
<1>14. QED
  BY <1>1, <1>4, <1>5, <1>8, <1>12, <1>13, DebtMoves DEF p

-----------------------------------------------------------------------------
LEMMA NoUnits ==
  ASSUME NEW f, \A x \in DOMAIN f : f[x] = 0
  PROVE  Units(f) = {}
<1>1. 1..0 = {}
  OBVIOUS
<1>2. \A x \in DOMAIN f : {x} \X (1..f[x]) = {}
  BY <1>1
<1>3. QED
  BY <1>2 DEF Units

LEMMA InitDebt ==
  ASSUME Init PROVE DebtKept
<1>1. /\ nextId = 1 /\ Ids = {} /\ NoRegion \notin Regions
      /\ \A t \in Threads : pc[t] \in {"idle", "unused"}
  BY AllocationAssumption DEF Init, Ids, NoRegion
<1>2. TypeOK /\ Consumers \subseteq Threads /\ Revokers \subseteq Threads
  BY InitWellFormed DEF WellFormed, Threads
<1>3. ASSUME NEW r \in Regions PROVE Owes(r)
  <2>1. \A t \in Consumers \cup Revokers : Carried(r)[t] = 0
    BY <1>1, <1>2 DEF Carried, Init
  <2>2. Units(Carried(r)) = {}
    <3>1. DOMAIN Carried(r) = Consumers \cup Revokers
      BY DEF Carried
    <3>2. QED
      BY <2>1, <3>1, NoUnits
  <2>3. DonorOf[r] \in VMs
    BY OrchestratorAssumption DEF VMs
  <2>4. events[DonorOf[r]] = <<>>
    BY <2>3 DEF Init
  <2>5. Units(Wanted(events[DonorOf[r]], r)) = {}
    <3>1. DOMAIN events[DonorOf[r]] = {}
      BY <2>4
    <3>2. QED
      BY <3>1 DEF Units, Wanted
  <2>6. IsFiniteSet({}) /\ Cardinality({}) = 0
    BY FS_EmptySet
  <2>7. asked[r] = 0 /\ region[r].revoked_owed \in Nat /\ Granularity * Cardinality(Owing(r)) \in Nat
    BY <1>2, DebtTypes DEF Init
  <2>8. asked[r] <= Debt(r)
    BY <2>2, <2>5, <2>6, <2>7 DEF Debt
  <2>9. QED
    BY <2>2, <2>5, <2>6, <2>8 DEF Owes
<1>4. AliveIsListed
  BY DEF AliveIsListed, Init
<1>5. ScanIsMapped
  <2>1. \A t \in Revokers : revoke[t].region = NoRegion
    BY DEF Init
  <2>2. QED
    BY <1>1, <1>2, <2>1 DEF ScanIsMapped
<1>6. ClaimedIsOrganized
  BY <1>1 DEF ClaimedIsOrganized
<1>7. QED
  BY <1>3, <1>4, <1>5, <1>6 DEF DebtKept, AskedIsCovered

LEMMA NextDebt ==
  ASSUME LoanKept, AccountsKept, DebtKept, [Next]_vars
  PROVE  DebtKept'
<1>1. /\ WellFormed /\ TypeOK /\ FaultsAreBounded /\ ExitedIsDead /\ MapIsAccounted
      /\ AskedIsCovered /\ AliveIsListed /\ ScanIsMapped /\ ClaimedIsOrganized
  BY DEF LoanKept, Lifecycle, WellFormed, AccountsKept, DebtKept
<1>2. TypeOK'
  BY NextLoans DEF LoanKept, Lifecycle, WellFormed
<1>3. AliveIsListed' /\ ScanIsMapped' /\ ClaimedIsOrganized'
  BY <1>1, ListedStep, ScanStep, ClaimedStep
<1> DEFINE Sent == \/ \E c \in Consumers : \E S \in SUBSET Slots :
                        GuestAdds(c, S) \/ GuestReleases(c, S)
                   \/ \E r \in Regions : \E n \in 1..RegionSize[r] : DonorRevokes(r, n)
           Moves == \/ \E c \in Consumers : Confirm(c) \/ GiveBack(c)
                    \/ \E t \in Threads, r \in Regions : DonQmp(t, r)
                    \/ \E t \in Revokers : RevokeSelect(t) \/ RevokeReturn(t)
                    \/ \E v \in VMs : EvtTake(v)
<1>4. ASSUME Sent PROVE AskedIsCovered'
  BY <1>1, <1>2, <1>4, EnvironmentOwes
<1>5. ASSUME Moves PROVE AskedIsCovered'
  BY <1>1, <1>2, <1>5, ConfirmOwes, GiveBackOwes, DonQmpOwes, RevokeSelectOwes,
     RevokeReturnOwes, EvtTakeOwes
<1>6. ASSUME ~Sent, ~Moves PROVE AskedIsCovered'
  <2>1. /\ UNCHANGED <<revoke, asked, events>>
        /\ \A r \in Regions : region'[r].revoked_owed = region[r].revoked_owed
    BY <1>1, <1>6, CalmSteps
  <2>2. ASSUME NEW r \in Regions PROVE Owes(r)'
    <3>1. Carried(r)' = Carried(r)
      BY <1>1, <1>6, <2>1, CarriedSteps
    <3>2. Owes(r) /\ (FaultFree(r)' => FaultFree(r) /\ Owing(r) \subseteq Owing(r)')
      BY <1>1, <1>6, FaultKept, OwingKept DEF AskedIsCovered
    <3>3. QED
      BY <1>1, <1>2, <2>1, <3>1, <3>2, DebtStays
  <2>3. QED
    BY <2>2 DEF AskedIsCovered
<1>7. AskedIsCovered'
  BY <1>4, <1>5, <1>6
<1>8. QED
  BY <1>3, <1>7 DEF DebtKept

(***************************************************************************)
(* What a donor has asked back is always somewhere: as an event, in the    *)
(* scan of a revoke, as a claimed allocation or a return to be made, in a  *)
(* give-back of a request, or as a debt of the region, whatever runs       *)
(* between the steps of a revoke.                                          *)
(***************************************************************************)
THEOREM DebtKeptAlways == Spec => []DebtKept
<1>1. Init => DebtKept
  BY InitDebt
<1>2. LoanKept /\ AccountsKept /\ DebtKept /\ [Next]_vars => DebtKept'
  BY NextDebt
<1>3. QED
  BY <1>1, <1>2, LoanKeptAlways, AccountsKeptAlways, PTL DEF Spec

(* When nothing is in progress, only the debt of the region is left. *)
LEMMA QuietOwes ==
  ASSUME LoanKept, AccountsKept, DebtKept PROVE RevokeDebtRecorded
<1>1. SUFFICES ASSUME Quiet, budget.faults = MaxFaults, NEW r \in Regions, DonorOf[r] \in vms
               PROVE  asked[r] <= region[r].revoked_owed
  BY DEF RevokeDebtRecorded
<1>2. /\ TypeOK /\ Owes(r) /\ DutyIsTimely /\ ScanIsMapped /\ ClaimedIsOrganized
      /\ Consumers \subseteq Threads /\ Revokers \subseteq Threads
      /\ DonorOf[r] \in VMs /\ NoRegion \notin Regions
  BY OrchestratorAssumption, AllocationAssumption
     DEF LoanKept, Lifecycle, WellFormed, AccountsKept, DebtKept, AskedIsCovered, Threads, VMs, NoRegion
<1>3. FaultFree(r)
  BY <1>1, <1>2 DEF FaultFree, Quiet
<1>4. \A t \in Threads : pc[t] \in {"idle", "unused", "done"}
  BY <1>1 DEF Quiet
<1>5. Owing(r) = {}
  <2>1. \A t \in Threads : duty[t][r] = {}
    BY <1>2, <1>4 DEF DutyIsTimely
  <2>2. \A i \in Ids : alloc[i].state # "PendingRelease"
    BY <1>2, <1>4 DEF ClaimedIsOrganized, ToOrganize
  <2>3. QED
    BY <2>1, <2>2 DEF Owing, Unreturned
<1>6. Units(Carried(r)) = {}
  <2>1. \A t \in Consumers \cup Revokers : Carried(r)[t] = 0
    BY <1>2, <1>4 DEF Carried, ScanIsMapped
  <2>2. QED
    <3>1. DOMAIN Carried(r) = Consumers \cup Revokers
      BY DEF Carried
    <3>2. QED
      BY <2>1, <3>1, NoUnits
<1>7. Units(Wanted(events[DonorOf[r]], r)) = {}
  <2>1. events[DonorOf[r]] = <<>>
    BY <1>1, <1>2 DEF Quiet
  <2>2. DOMAIN events[DonorOf[r]] = {}
    BY <2>1
  <2>3. QED
    BY <2>2 DEF Units, Wanted
<1>8. asked[r] <= region[r].revoked_owed + Granularity * Cardinality({}) + Cardinality({}) + Cardinality({})
  BY <1>2, <1>3, <1>5, <1>6, <1>7 DEF Owes, Debt
<1>9. Cardinality({}) = 0 /\ Granularity * 0 = 0 /\ asked[r] \in Nat /\ region[r].revoked_owed \in Nat
  BY <1>2, FS_EmptySet, GranuleOrder, DebtTypes
<1>10. QED
  BY <1>8, <1>9

(***************************************************************************)
(* A revoke is never forgotten: when the orchestrator is quiet and no      *)
(* command failed, what a donor revoked and has not got back is recorded   *)
(* in revoked_owed of its region, so that the next donation pays for it.   *)
(***************************************************************************)
THEOREM RevokeDebtRecordedAlways == Spec => []RevokeDebtRecorded
<1>1. LoanKept /\ AccountsKept /\ DebtKept => RevokeDebtRecorded
  BY QuietOwes
<1>2. QED
  BY <1>1, LoanKeptAlways, AccountsKeptAlways, DebtKeptAlways, PTL
=============================================================================
