-------------------------- MODULE ReserveLoopProofs --------------------------
(***************************************************************************)
(* Proofs about the placement of a request in the consumer's DCD device,   *)
(* for any size of device and granule, any areas and any request.          *)
(***************************************************************************)
EXTENDS ReserveLoop, FiniteSetTheorems, TLAPS

-----------------------------------------------------------------------------
(* Offsets are multiples of the granularity.  The arguments about gaps are *)
(* made with slot numbers, where the arithmetic is linear.                 *)

Slot(x) == x \div Granularity

Aligned(x) == \E k \in Nat : x = k * Granularity

(***************************************************************************)
(* Multiples compare as their factors do.                                  *)
(***************************************************************************)
LEMMA Multiples ==
  ASSUME NEW g \in Nat, g > 0
  PROVE  \A i, j \in Nat : /\ i * g \in Nat
                           /\ i * g < j * g <=> i < j
                           /\ i * g <= j * g <=> i <= j
                           /\ i * g = j * g <=> i = j
                           /\ i * g + g = (i + 1) * g
                           /\ i * g + j * g = (i + j) * g
                           /\ i * g - j * g = (i - j) * g
<1> SUFFICES ASSUME NEW i \in Nat, NEW j \in Nat
             PROVE  /\ i * g \in Nat
                    /\ i * g < j * g <=> i < j
                    /\ i * g <= j * g <=> i <= j
                    /\ i * g = j * g <=> i = j
                    /\ i * g + g = (i + 1) * g
                    /\ i * g + j * g = (i + j) * g
                    /\ i * g - j * g = (i - j) * g
  OBVIOUS
<1>1. \A a, b \in Nat : a < b => a * g < b * g
  <2> SUFFICES ASSUME NEW a \in Nat, NEW b \in Nat, a < b PROVE a * g < b * g
    OBVIOUS
  <2>1. PICK d \in Nat : b = a + 1 + d
    <3>1. b - a - 1 \in Nat /\ b = a + 1 + (b - a - 1)
      OBVIOUS
    <3> QED
      BY <3>1
  <2>2. b * g = a * g + g + d * g
    BY <2>1
  <2>3. d * g \in Nat /\ a * g \in Nat
    OBVIOUS
  <2> QED
    BY <2>2, <2>3
<1>2. i * g \in Nat /\ j * g \in Nat
  OBVIOUS
<1>3. i < j \/ i = j \/ j < i
  OBVIOUS
<1>4. i * g + g = (i + 1) * g /\ i * g + j * g = (i + j) * g /\ i * g - j * g = (i - j) * g
  OBVIOUS
<1> QED
  BY <1>1, <1>2, <1>3, <1>4

(***************************************************************************)
(* Division by the granularity.                                            *)
(***************************************************************************)
LEMMA Division ==
  ASSUME NEW g \in Nat, g > 0, NEW x \in Nat
  PROVE  /\ x \div g \in Nat /\ x % g \in Nat /\ x % g < g
         /\ x = (x \div g) * g + (x % g)
<1>1. x \div g \in Nat /\ x % g \in 0..(g - 1)
  OBVIOUS
<1>2. x = g * (x \div g) + (x % g)
  OBVIOUS
<1>3. g * (x \div g) = (x \div g) * g
  BY <1>1
<1> QED
  BY <1>1, <1>2, <1>3

(***************************************************************************)
(* A multiple plus less than a granule has the multiple's factor.          *)
(***************************************************************************)
LEMMA DivisionOf ==
  ASSUME NEW g \in Nat, g > 0, NEW k \in Nat, NEW r \in Nat, r < g
  PROVE  (k * g + r) \div g = k /\ (k * g + r) % g = r
<1>1. PICK x \in Nat : x = k * g + r
  OBVIOUS
<1>2. PICK q \in Nat, s \in Nat : q = x \div g /\ s = x % g /\ s < g /\ x = q * g + s
  BY Division
<1>3. q * g \in Nat /\ k * g \in Nat /\ q * g + g = (q + 1) * g /\ k * g + g = (k + 1) * g
  BY Multiples
<1>4. q * g < (k + 1) * g /\ k * g < (q + 1) * g
  BY <1>1, <1>2, <1>3
<1>5. q < k + 1 /\ k < q + 1
  <2>1. k + 1 \in Nat /\ q + 1 \in Nat
    OBVIOUS
  <2> QED
    BY <2>1, <1>4, Multiples
<1>6. q = k
  BY <1>5
<1>7. s = r
  BY <1>1, <1>2, <1>3, <1>6
<1> QED
  BY <1>1, <1>2, <1>6, <1>7

(***************************************************************************)
(* The same for Granularity, with its slots.                               *)
(***************************************************************************)
LEMMA Slots ==
  /\ Granularity \in Nat /\ Granularity > 0
  /\ \A k \in Nat : k * Granularity \in Nat /\ Slot(k * Granularity) = k
  /\ \A x \in Nat : /\ Slot(x) \in Nat /\ Slot(x) * Granularity <= x
                    /\ x < Slot(x) * Granularity + Granularity
                    /\ RoundDown(x) = Slot(x) * Granularity
                    /\ x % Granularity = 0 <=> x = Slot(x) * Granularity
<1>1. PICK g \in Nat : g = Granularity /\ g > 0
  BY GranularityAssumption
<1>2. ASSUME NEW k \in Nat PROVE k * g \in Nat /\ (k * g) \div g = k
  <2>1. k * g \in Nat /\ k * g + 0 = k * g
    BY <1>1
  <2>2. (k * g + 0) \div g = k
    BY <1>1, DivisionOf
  <2> QED
    BY <2>1, <2>2
<1>3. ASSUME NEW x \in Nat
      PROVE  /\ x \div g \in Nat /\ (x \div g) * g <= x /\ x < (x \div g) * g + g
             /\ x - (x % g) = (x \div g) * g
             /\ x % g = 0 <=> x = (x \div g) * g
  <2>1. PICK q \in Nat, r \in Nat : q = x \div g /\ r = x % g /\ r < g /\ x = q * g + r
    BY <1>1, Division
  <2>2. q * g \in Nat
    BY <1>1
  <2> QED
    BY <2>1, <2>2, <1>1
<1> QED
  BY <1>1, <1>2, <1>3 DEF Slot, RoundDown

(***************************************************************************)
(* A multiple is at most x if its factor is at most the slot of x.         *)
(***************************************************************************)
LEMMA SlotBelow ==
  ASSUME NEW m \in Nat, NEW x \in Nat
  PROVE  m * Granularity <= x <=> m <= Slot(x)
<1>1. PICK g \in Nat : g = Granularity /\ g > 0
  BY Slots
<1>2. PICK s \in Nat : s = Slot(x) /\ s * g <= x /\ x < s * g + g
  BY <1>1, Slots
<1>3. s + 1 \in Nat /\ m * g \in Nat /\ s * g \in Nat /\ s * g + g = (s + 1) * g
  BY <1>1, Multiples
<1>4. (m <= s <=> m * g <= s * g) /\ (m < s + 1 <=> m * g < (s + 1) * g)
  BY <1>1, <1>3, Multiples
<1>5. m <= s <=> m < s + 1
  OBVIOUS
<1>6. m * g <= x => m * g < (s + 1) * g
  BY <1>2, <1>3
<1>7. m * g <= s * g => m * g <= x
  BY <1>2, <1>3
<1> QED
  BY <1>1, <1>2, <1>4, <1>5, <1>6, <1>7

(* The offsets of the slots from i to k - 1. *)
Run(i, k) == { j * Granularity : j \in i..(k - 1) }

(***************************************************************************)
(* The granules of an area, by their slots.                                *)
(***************************************************************************)
LEMMA GranulesAre ==
  ASSUME NEW i \in Nat, NEW x \in Nat
  PROVE  Granules(i * Granularity, x) = Run(i, i + Slot(x))
<1>1. PICK g \in Nat : g = Granularity /\ g > 0
  BY Slots
<1>2. PICK s \in Nat : s = Slot(x)
  BY Slots
<1>3. PICK b \in Nat : b = i * g
  BY <1>1
<1>4. ASSUME NEW o \in Granules(b, x) PROVE o \in Run(i, i + s)
  <2>1. o \in Nat /\ b <= o /\ o + g <= b + x /\ (o - b) % g = 0
    BY <1>1, <1>3, <1>4 DEF Granules
  <2>2. PICK d \in Nat : d = o - b
    BY <2>1
  <2>3. PICK m \in Nat : m = Slot(d) /\ d = m * g
    BY <2>1, <2>2, <1>1, Slots
  <2>4. (m + 1) * g <= x
    <3>1. m * g + g = (m + 1) * g /\ m * g \in Nat
      BY <1>1
    <3> QED
      BY <3>1, <2>1, <2>2, <2>3, <1>1
  <2>5. m + 1 <= s
    BY <2>4, <1>1, <1>2, SlotBelow
  <2>6. o = (i + m) * g
    <3>1. o = b + d
      BY <2>1, <2>2
    <3>2. i * g + m * g = (i + m) * g
      BY <1>1, Multiples
    <3> QED
      BY <3>1, <3>2, <2>3, <1>3
  <2>7. i + m \in i..(i + s - 1)
    BY <2>5
  <2>8. Run(i, i + s) = { j * g : j \in i..(i + s - 1) }
    BY <1>1 DEF Run
  <2> QED
    BY <2>6, <2>7, <2>8, Zenon
<1>5. ASSUME NEW j \in i..(i + s - 1) PROVE j * g \in Granules(b, x)
  <2>1. PICK m \in Nat : m = j - i /\ m + 1 <= s
    BY <1>5
  <2>2. (m + 1) * g <= x
    BY <2>1, <1>1, <1>2, SlotBelow
  <2>3. m * g \in Nat /\ m * g + g = (m + 1) * g /\ i * g + m * g = (i + m) * g
    BY <1>1, Multiples
  <2>4. j = i + m
    BY <2>1
  <2>5. j * g = b + m * g
    BY <2>3, <2>4, <1>3
  <2>6. (m * g) % g = 0
    <3>1. Slot(m * g) = m
      BY <1>1, Slots
    <3> QED
      BY <3>1, <2>3, <1>1, Slots
  <2>7. PICK d \in Nat : d = m * g /\ j * g = b + d /\ d + g <= x /\ d % g = 0
    BY <2>2, <2>3, <2>5, <2>6
  <2>8. b + d \in b..(b + x) /\ (b + d) + g <= b + x /\ (b + d) - b = d
    BY <2>7, <1>1
  <2> QED
    BY <2>7, <2>8, <1>1 DEF Granules
<1> QED
  BY <1>1, <1>2, <1>3, <1>4, <1>5 DEF Run

(***************************************************************************)
(* A run has as many granules as slots.                                    *)
(***************************************************************************)
LEMMA RunSize ==
  ASSUME NEW i \in Nat, NEW k \in Nat
  PROVE  /\ IsFiniteSet(Run(i, i + k)) /\ Cardinality(Run(i, i + k)) = k
         /\ IsFiniteSet(i..(i + k - 1)) /\ Cardinality(i..(i + k - 1)) = k
<1>1. IsFiniteSet(i..(i + k - 1)) /\ Cardinality(i..(i + k - 1)) = k
  <2>1. i + k - 1 \in Int /\ i \in Int
    OBVIOUS
  <2>2. /\ IsFiniteSet(i..(i + k - 1))
        /\ Cardinality(i..(i + k - 1)) = IF i > i + k - 1 THEN 0 ELSE (i + k - 1) - i + 1
    BY <2>1, FS_Interval
  <2>3. (IF i > i + k - 1 THEN 0 ELSE (i + k - 1) - i + 1) = k
    OBVIOUS
  <2> QED
    BY <2>2, <2>3
<1>2. PICK g \in Nat : g = Granularity /\ g > 0
  BY Slots
<1>3. PICK S : S = i..(i + k - 1)
  OBVIOUS
<1>4. S \subseteq Nat
  BY <1>3
<1>5. ExistsBijection(S, Run(i, i + k))
  <2> DEFINE f == [j \in S |-> j * g]
  <2>1. f \in [S -> Run(i, i + k)]
    BY <1>2, <1>3 DEF Run
  <2>2. \A a, b \in S : f[a] = f[b] => a = b
    BY <1>2, <1>4, Multiples
  <2>3. \A o \in Run(i, i + k) : \E j \in S : f[j] = o
    <3>1. Run(i, i + k) = { j * g : j \in S }
      BY <1>2, <1>3 DEF Run
    <3> QED
      BY <3>1, Zenon
  <2> QED
    BY <2>1, <2>2, <2>3 DEF ExistsBijection, Bijection, Injection, Surjection, IsInjective
<1> QED
  BY <1>1, <1>3, <1>5, FS_Bijection

-----------------------------------------------------------------------------
(* The scan, in slot numbers. *)

(***************************************************************************)
(* What the scan knows after some of the occupied slots occ of 0..(n-1):   *)
(* t are those to visit, end is where the others end, and best is the      *)
(* length of the first longest gap before end, at is its start.            *)
(***************************************************************************)
Scanned(occ, n, w, t, end, best, at, broke) ==
  /\ n \in Nat /\ occ \subseteq Nat /\ \A s \in occ : s < n
  /\ {w, end, best, at} \subseteq Nat /\ broke \in BOOLEAN
  /\ w > 0 /\ t \subseteq occ /\ end <= n /\ at + best <= n
  /\ best > 0 => <<at, at + best>> \in Gaps(occ, n)
  /\ broke => w <= best /\ \A g \in Gaps(occ, n) : g[1] < at => GapLen(g) < w
  /\ ~broke =>
       /\ best < w /\ at + best <= end
       /\ \A s \in t : end <= s
       /\ \A s \in occ \ t : s < end
       /\ end > 0 => end - 1 \in occ
       /\ \A g \in Gaps(occ, n) : g[2] <= end => GapLen(g) < best \/ (GapLen(g) = best /\ at <= g[1])
       /\ best = 0 => \A i \in Nat : i < end => i \in occ

(***************************************************************************)
(* What a gap is.                                                          *)
(***************************************************************************)
LEMMA GapIs ==
  ASSUME NEW occ \in SUBSET Nat, NEW n \in Nat, NEW g \in Gaps(occ, n)
  PROVE  /\ g = <<g[1], g[2]>> /\ g[1] \in Nat /\ g[2] \in Nat /\ g[1] < g[2] /\ g[2] <= n
         /\ GapLen(g) = g[2] - g[1] /\ GapLen(g) \in Nat /\ GapLen(g) > 0
         /\ \A s \in occ : s < g[1] \/ g[2] <= s
         /\ g[1] > 0 => g[1] - 1 \in occ
         /\ g[2] < n => g[2] \in occ
BY DEF Gaps, GapLen

(***************************************************************************)
(* A gap is known by its start.                                            *)
(***************************************************************************)
LEMMA GapByStart ==
  ASSUME NEW occ \in SUBSET Nat, NEW n \in Nat, NEW g \in Gaps(occ, n), NEW h \in Gaps(occ, n),
         g[1] = h[1]
  PROVE  g = h
<1>1. PICK a \in Nat, b \in Nat :
        /\ g = <<a, b>> /\ a < b /\ b <= n /\ (b < n => b \in occ)
        /\ \A s \in occ : s < a \/ b <= s
  BY GapIs
<1>2. PICK c \in Nat :
        /\ h = <<a, c>> /\ a < c /\ c <= n /\ (c < n => c \in occ)
        /\ \A s \in occ : s < a \/ c <= s
  BY <1>1, GapIs
<1>3. ~(b < c)
  BY <1>1, <1>2
<1>4. ~(c < b)
  BY <1>1, <1>2
<1> QED
  BY <1>1, <1>2, <1>3, <1>4

(***************************************************************************)
(* Nothing is scanned at first.                                            *)
(***************************************************************************)
LEMMA ScanBegins ==
  ASSUME NEW occ \in SUBSET Nat, NEW n \in Nat, \A s \in occ : s < n, NEW w \in Nat, w > 0
  PROVE  Scanned(occ, n, w, occ, 0, 0, 0, FALSE)
<1>1. \A g \in Gaps(occ, n) : ~(g[2] <= 0)
  BY GapIs
<1> QED
  BY <1>1 DEF Scanned

(* A visit to slot s changes where the scan is and the gap it remembers. *)
Visit(s, w, end, best, at, end2, best2, at2, broke2) ==
  /\ {end2, best2, at2} \subseteq Nat /\ broke2 \in BOOLEAN
  /\ s - end > best => best2 = s - end /\ at2 = end
  /\ ~(s - end > best) => best2 = best /\ at2 = at
  /\ broke2 <=> best2 >= w
  /\ end2 = IF broke2 THEN end ELSE s + 1

(***************************************************************************)
(* A visit to the next occupied slot.                                      *)
(***************************************************************************)
LEMMA ScanStep ==
  ASSUME NEW n, NEW occ, NEW w, NEW t, NEW end, NEW best, NEW at,
         Scanned(occ, n, w, t, end, best, at, FALSE),
         NEW s \in t, \A u \in t : s <= u, NEW end2, NEW best2, NEW at2, NEW broke2,
         Visit(s, w, end, best, at, end2, best2, at2, broke2)
  PROVE  Scanned(occ, n, w, t \ {s}, end2, best2, at2, broke2)
<1> USE DEF Visit
<1>0. /\ n \in Nat /\ occ \in SUBSET Nat /\ w \in Nat /\ end \in Nat /\ best \in Nat /\ at \in Nat
      /\ end2 \in Nat /\ best2 \in Nat /\ at2 \in Nat /\ broke2 \in BOOLEAN
  BY DEF Scanned
<1> USE <1>0
<1>1. /\ w > 0 /\ t \subseteq occ /\ end <= n /\ at + best <= n /\ best < w /\ at + best <= end
      /\ s \in occ /\ s \in Nat /\ s < n /\ end <= s
      /\ \A u \in occ : u \in Nat /\ (u < end \/ s <= u)
      /\ end > 0 => end - 1 \in occ
      /\ best > 0 => <<at, at + best>> \in Gaps(occ, n)
      /\ \A g \in Gaps(occ, n) : g[2] <= end => GapLen(g) < best \/ (GapLen(g) = best /\ at <= g[1])
      /\ best = 0 => \A i \in Nat : i < end => i \in occ
  BY DEF Scanned
<1>2. end < s => <<end, s>> \in Gaps(occ, n)
  BY <1>1 DEF Gaps
<1>3. best2 > 0 => <<at2, at2 + best2>> \in Gaps(occ, n)
  <2>1. CASE s - end > best
    <3>1. at2 + best2 = s /\ at2 = end /\ end < s
      BY <2>1, <1>1
    <3> QED
      BY <3>1, <1>2
  <2>2. CASE ~(s - end > best)
    BY <2>2, <1>1
  <2> QED
    BY <2>1, <2>2
<1>4. at2 + best2 <= s /\ s - end <= best2 /\ best <= best2
  BY <1>1
<1>5. ASSUME NEW g \in Gaps(occ, n), g[2] <= s + 1
      PROVE  (end < s /\ g = <<end, s>>) \/ g[2] <= end
  <2>1. PICK a \in Nat, b \in Nat :
          /\ g = <<a, b>> /\ a < b /\ b <= n /\ (b < n => b \in occ)
          /\ (a > 0 => a - 1 \in occ) /\ \A u \in occ : u < a \/ b <= u
    BY GapIs
  <2>2. b <= s
    BY <2>1, <1>1, <1>5
  <2>3. b > end => a = end /\ b = s
    <3> SUFFICES ASSUME b > end PROVE a = end /\ b = s
      OBVIOUS
    <3>1. end <= a
      BY <2>1, <1>1
    <3>2. ~(end < a)
      <4>1. a > end => a - 1 >= end /\ a - 1 < s
        BY <2>1, <2>2, <1>1
      <4> QED
        BY <4>1, <2>1, <1>1
    <3>3. ~(b < s)
      BY <2>1, <1>1
    <3> QED
      BY <3>1, <3>2, <3>3, <2>2, <1>1
  <2> QED
    BY <2>1, <2>2, <2>3
<1>6. CASE broke2
  <2>1. best2 = s - end /\ at2 = end /\ w <= best2 /\ end2 = end
    BY <1>1, <1>6
  <2>2. ASSUME NEW g \in Gaps(occ, n), g[1] < end PROVE GapLen(g) < w
    <3>1. PICK a \in Nat, b \in Nat :
            g = <<a, b>> /\ a < b /\ \A u \in occ : u < a \/ b <= u
      BY GapIs
    <3>2. a < end
      BY <3>1, <2>2
    <3>3. end > 0 /\ end - 1 \in occ
      BY <3>1, <3>2, <1>1
    <3>4. b <= end - 1
      BY <3>1, <3>2, <3>3
    <3>5. g[2] <= end
      BY <3>1, <3>4
    <3>6. GapLen(g) <= best
      BY <3>5, <1>1, GapIs
    <3> QED
      BY <3>6, <1>1, GapIs
  <2>3. t \ {s} \subseteq occ /\ end2 <= n /\ at2 + best2 <= n
    BY <2>1, <1>1, <1>4
  <2> QED
    BY <2>1, <2>2, <2>3, <1>1, <1>3, <1>6 DEF Scanned
<1>7. CASE ~broke2
  <2>1. end2 = s + 1 /\ best2 < w /\ end2 <= n
    BY <1>1, <1>7
  <2>2. \A u \in t \ {s} : end2 <= u
    <3> SUFFICES ASSUME NEW u \in t, u # s PROVE s + 1 <= u
      BY <2>1
    <3>1. s <= u /\ u \in Nat
      BY <1>1
    <3> QED
      BY <3>1, <1>1
  <2>3. \A u \in occ \ (t \ {s}) : u < end2
    <3> SUFFICES ASSUME NEW u \in occ, u = s \/ u \notin t PROVE u < s + 1
      BY <2>1
    <3>1. u = s \/ u < end
      BY DEF Scanned
    <3> QED
      BY <3>1, <1>1
  <2>4. end2 - 1 \in occ
    BY <2>1, <1>1
  <2>5. ASSUME NEW g \in Gaps(occ, n), g[2] <= end2
        PROVE  GapLen(g) < best2 \/ (GapLen(g) = best2 /\ at2 <= g[1])
    <3>1. PICK a \in Nat, b \in Nat, l \in Nat : g = <<a, b>> /\ l = GapLen(g) /\ l = b - a /\ a < b
      BY GapIs
    <3>2. CASE b <= end
      <4>1. l < best \/ (l = best /\ at <= a)
        BY <3>1, <3>2, <1>1
      <4>2. l < best2 \/ (l = best2 /\ at2 <= a)
        BY <4>1, <1>1
      <4> QED
        BY <4>2, <3>1
    <3>3. CASE end < s /\ g = <<end, s>>
      <4>1. a = end /\ b = s
        BY <3>1, <3>3
      <4>2. l = s - end
        BY <4>1, <3>1
      <4>3. l < best2 \/ (l = best2 /\ at2 <= a)
        BY <4>1, <4>2, <1>1
      <4> QED
        BY <4>3, <3>1
    <3> QED
      BY <3>1, <3>2, <3>3, <2>1, <2>5, <1>5
  <2>6. best2 = 0 => \A i \in Nat : i < end2 => i \in occ
    <3> SUFFICES ASSUME best2 = 0, NEW i \in Nat, i < s + 1 PROVE i \in occ
      BY <2>1
    <3>1. best = 0 /\ s = end
      BY <1>1, <1>4
    <3> QED
      BY <3>1, <1>1
  <2>7. t \ {s} \subseteq occ /\ at2 + best2 <= n /\ at2 + best2 <= end2
    BY <2>1, <1>1, <1>4
  <2> QED
    BY <2>1, <2>2, <2>3, <2>4, <2>5, <2>6, <2>7, <1>1, <1>3, <1>7 DEF Scanned
<1> QED
  BY <1>6, <1>7

(***************************************************************************)
(* The definition's choice, once the gap is known that it is about.        *)
(***************************************************************************)
LEMMA ChosenRunIs ==
  ASSUME NEW occ \in SUBSET Nat, NEW n \in Nat, NEW w \in Nat, w > 0, NEW g \in Gaps(occ, n),
         IsChosen(g, occ, n, w)
  PROVE  ChosenRun(occ, n, w) = <<g[1], IF GapLen(g) < w THEN g[2] ELSE g[1] + w>>
<1> DEFINE chosen == { h \in Gaps(occ, n) : IsChosen(h, occ, n, w) }
           e      == CHOOSE h \in chosen : TRUE
<1>1. ChosenRun(occ, n, w) = IF w = 0 \/ chosen = {} THEN <<0, 0>>
                             ELSE <<e[1], IF GapLen(e) < w THEN e[2] ELSE e[1] + w>>
  BY DEF ChosenRun
<1>2. ASSUME NEW h \in Gaps(occ, n), IsChosen(h, occ, n, w) PROVE h = g
  <2>1. g[1] \in Nat /\ h[1] \in Nat
    BY GapIs
  <2>2. g[1] <= h[1] /\ h[1] <= g[1]
    BY <1>2 DEF IsChosen, IsLowest
  <2>3. g[1] = h[1]
    BY <2>1, <2>2
  <2> QED
    BY <2>3, GapByStart
<1>3. chosen = {g}
  BY <1>2
<1>4. e = g
  BY <1>3
<1>5. w # 0 /\ chosen # {}
  BY <1>3
<1> HIDE DEF chosen, e
<1> QED
  BY <1>1, <1>4, <1>5

(***************************************************************************)
(* A gap that is long enough, with none before it.                         *)
(***************************************************************************)
LEMMA FirstFits ==
  ASSUME NEW occ \in SUBSET Nat, NEW n \in Nat, NEW w \in Nat, NEW g \in Gaps(occ, n),
         w <= GapLen(g), \A h \in Gaps(occ, n) : h[1] < g[1] => GapLen(h) < w
  PROVE  IsChosen(g, occ, n, w)
<1>1. g \in { h \in Gaps(occ, n) : GapLen(h) >= w }
  BY GapIs
<1>2. ASSUME NEW h \in Gaps(occ, n), GapLen(h) >= w PROVE g[1] <= h[1]
  <2>1. g[1] \in Nat /\ h[1] \in Nat /\ GapLen(h) \in Nat
    BY GapIs
  <2> QED
    BY <2>1, <1>2
<1> QED
  BY <1>1, <1>2 DEF IsChosen, IsLowest

(***************************************************************************)
(* The first of the longest gaps, when none is long enough.                *)
(***************************************************************************)
LEMMA FirstLongest ==
  ASSUME NEW occ \in SUBSET Nat, NEW n \in Nat, NEW w \in Nat, NEW g \in Gaps(occ, n),
         GapLen(g) < w,
         \A h \in Gaps(occ, n) : GapLen(h) < GapLen(g) \/ (GapLen(h) = GapLen(g) /\ g[1] <= h[1])
  PROVE  IsChosen(g, occ, n, w)
<1>1. GapLen(g) \in Nat /\ \A h \in Gaps(occ, n) : GapLen(h) \in Nat
  BY GapIs
<1>2. \A h \in Gaps(occ, n) : GapLen(h) <= GapLen(g)
  BY <1>1
<1>3. { h \in Gaps(occ, n) : GapLen(h) >= w } = {}
  BY <1>1, <1>2
<1>4. g \in { h \in Gaps(occ, n) : \A k \in Gaps(occ, n) : GapLen(k) <= GapLen(h) }
  BY <1>2
<1>5. ASSUME NEW h \in Gaps(occ, n), \A k \in Gaps(occ, n) : GapLen(k) <= GapLen(h)
      PROVE  g[1] <= h[1]
  <2>1. GapLen(g) <= GapLen(h)
    BY <1>5
  <2> QED
    BY <2>1, <1>1
<1> QED
  BY <1>3, <1>4, <1>5 DEF IsChosen, IsLowest

(* The gap after the last area, and when the scan takes it: tie tells that *)
(* a part of a granule is left behind it.                                  *)
TakesFinal(n, end, best, broke, tie) == ~broke /\ (n - end > best \/ (n - end = best /\ tie))

(* It takes the first c of the l slots from s on. *)
Takes(n, w, end, best, at, broke, tie, s, l, c) ==
  /\ {s, l, c} \subseteq Nat /\ tie \in BOOLEAN
  /\ TakesFinal(n, end, best, broke, tie) => s = end /\ l = n - end
  /\ ~TakesFinal(n, end, best, broke, tie) => s = at /\ l = best
  /\ c = IF l < w THEN l ELSE w

(***************************************************************************)
(* What the scan ends with: it takes the c slots from s on, which are      *)
(* free; none only if the device is full; and as the definition says.      *)
(***************************************************************************)
LEMMA ScanEnds ==
  ASSUME NEW n, NEW occ, NEW w, NEW t, NEW end, NEW best, NEW at, NEW broke,
         Scanned(occ, n, w, t, end, best, at, broke), broke \/ t = {},
         NEW tie, NEW s, NEW l, NEW c,
         Takes(n, w, end, best, at, broke, tie, s, l, c)
  PROVE  /\ s + c <= n /\ \A u \in occ : u < s \/ s + c <= u
         /\ c = 0 => \A i \in Nat : i < n => i \in occ
         /\ \E a, b \in Nat : /\ ChosenRun(occ, n, w) = <<a, b>>
                              /\ b = a + c /\ b <= n /\ (~tie => a = s \/ c = 0)
<1> USE DEF Takes
<1>0. /\ n \in Nat /\ occ \in SUBSET Nat /\ w \in Nat /\ end \in Nat /\ best \in Nat /\ at \in Nat
      /\ broke \in BOOLEAN /\ tie \in BOOLEAN /\ s \in Nat /\ l \in Nat /\ c \in Nat
  BY DEF Scanned
<1> USE <1>0
<1>1. /\ w > 0 /\ t \subseteq occ /\ end <= n /\ at + best <= n
      /\ best > 0 => <<at, at + best>> \in Gaps(occ, n)
  BY DEF Scanned
<1>2. ASSUME NEW a \in Nat, NEW b \in Nat, <<a, b>> \in Gaps(occ, n),
             IsChosen(<<a, b>>, occ, n, w)
      PROVE  ChosenRun(occ, n, w) = <<a, IF b - a < w THEN b ELSE a + w>>
  <2>1. GapLen(<<a, b>>) = b - a
    BY DEF GapLen
  <2> QED
    BY <2>1, <1>1, <1>2, ChosenRunIs
<1>3. ASSUME NEW a \in Nat, NEW b \in Nat, <<a, b>> \in Gaps(occ, n)
      PROVE  a < b /\ b <= n /\ \A u \in occ : u < a \/ b <= u
  BY <1>3, GapIs
<1>4. CASE broke
  <2>1. /\ w <= best /\ s = at /\ c = w
        /\ \A g \in Gaps(occ, n) : g[1] < at => GapLen(g) < w
    BY <1>4 DEF Scanned, TakesFinal
  <2>2. PICK b \in Nat : b = at + best /\ <<at, b>> \in Gaps(occ, n) /\ GapLen(<<at, b>>) = best
    BY <2>1, <1>1 DEF GapLen
  <2>3. IsChosen(<<at, b>>, occ, n, w)
    BY <2>1, <2>2, FirstFits
  <2>4. ChosenRun(occ, n, w) = <<at, at + w>>
    BY <2>1, <2>2, <2>3, <1>2
  <2>5. at + w <= n /\ \A u \in occ : u < at \/ at + w <= u
    BY <2>1, <2>2, <1>1, <1>3
  <2> QED
    BY <2>1, <2>4, <2>5, <1>1
<1>5. CASE ~broke
  <2>1. /\ best < w /\ at + best <= end /\ \A u \in occ : u < end
        /\ end > 0 => end - 1 \in occ
        /\ \A g \in Gaps(occ, n) : g[2] <= end => GapLen(g) < best \/ (GapLen(g) = best /\ at <= g[1])
        /\ best = 0 => \A i \in Nat : i < end => i \in occ
    BY <1>5 DEF Scanned
  <2>2. end < n => <<end, n>> \in Gaps(occ, n)
    BY <2>1 DEF Gaps
  <2>3. ASSUME NEW g \in Gaps(occ, n)
        PROVE  \/ end < n /\ g = <<end, n>>
               \/ GapLen(g) < best \/ (GapLen(g) = best /\ at <= g[1])
    <3>1. PICK a \in Nat, b \in Nat :
            /\ g = <<a, b>> /\ a < b /\ b <= n /\ (b < n => b \in occ)
            /\ (a > 0 => a - 1 \in occ) /\ \A u \in occ : u < a \/ b <= u
      BY GapIs
    <3>2. CASE b <= end
      BY <3>1, <3>2, <2>1
    <3>3. CASE end < b
      <4>1. b = n
        BY <3>1, <3>3, <2>1
      <4>2. end <= a
        BY <3>1, <3>3, <2>1
      <4>3. ~(end < a)
        <5>1. end < a => a - 1 >= end
          BY <3>1
        <5> QED
          BY <5>1, <3>1, <2>1
      <4> QED
        BY <4>1, <4>2, <4>3, <3>1, <3>3
    <3> QED
      BY <3>1, <3>2, <3>3
  <2>4. CASE n - end > best
    <3>1. end < n /\ <<end, n>> \in Gaps(occ, n) /\ GapLen(<<end, n>>) = n - end
      BY <2>2, <2>4, <1>1 DEF GapLen
    <3>2. s = end /\ l = n - end
      BY <2>4, <1>5 DEF TakesFinal
    <3>3. IsChosen(<<end, n>>, occ, n, w)
      <4>1. CASE w <= n - end
        <5>1. \A h \in Gaps(occ, n) : h[1] < end => GapLen(h) < w
          BY <2>1, <2>3, GapIs
        <5> QED
          BY <5>1, <4>1, <3>1, FirstFits
      <4>2. CASE n - end < w
        <5>1. \A h \in Gaps(occ, n) : GapLen(h) < n - end \/ (GapLen(h) = n - end /\ end <= h[1])
          BY <2>3, <2>4, <3>1, GapIs
        <5> QED
          BY <5>1, <4>2, <3>1, FirstLongest
      <4> QED
        BY <4>1, <4>2
    <3>4. ChosenRun(occ, n, w) = <<end, IF n - end < w THEN n ELSE end + w>>
      BY <3>1, <3>3, <1>2
    <3>5. (IF n - end < w THEN n ELSE end + w) = s + c /\ s + c <= n /\ s + c \in Nat /\ c > 0
      BY <3>1, <3>2, <1>1
    <3>6. ChosenRun(occ, n, w) = <<s, s + c>>
      BY <3>2, <3>4, <3>5
    <3> QED
      BY <3>2, <3>5, <3>6, <2>1
  <2>5. CASE n - end <= best /\ best > 0
    <3>1. PICK b \in Nat : b = at + best /\ <<at, b>> \in Gaps(occ, n) /\ GapLen(<<at, b>>) = best
      BY <2>5, <1>1 DEF GapLen
    <3>2. \A h \in Gaps(occ, n) : GapLen(h) < best \/ (GapLen(h) = best /\ at <= h[1])
      <4>1. GapLen(<<end, n>>) = n - end /\ <<end, n>>[1] = end
        BY DEF GapLen
      <4>2. at <= end /\ (n - end < best \/ n - end = best)
        BY <2>1, <2>5, <1>1
      <4> QED
        BY <4>1, <4>2, <2>3
    <3>3. IsChosen(<<at, b>>, occ, n, w)
      BY <3>1, <3>2, <2>1, FirstLongest
    <3>4. ChosenRun(occ, n, w) = <<at, b>>
      BY <3>1, <3>3, <2>1, <1>2
    <3>5. c = best
      BY <2>1, <2>5, <1>5 DEF TakesFinal
    <3>6. CASE s = at
      BY <3>1, <3>4, <3>5, <3>6, <2>5, <1>1, <1>3
    <3>7. CASE tie /\ s = end /\ n - end = best
      <4>1. s + c <= n /\ \A u \in occ : u < s \/ s + c <= u
        BY <3>5, <3>7, <2>1, <1>1
      <4> QED
        BY <4>1, <3>1, <3>4, <3>5, <3>7, <2>5, <1>1
    <3> QED
      BY <3>6, <3>7, <2>5, <1>1 DEF TakesFinal
  <2>6. CASE n - end <= best /\ best = 0
    <3>1. end = n /\ c = 0 /\ s <= n
      BY <2>1, <2>6, <1>1 DEF TakesFinal
    <3>2. Gaps(occ, n) = {}
      <4>1. ASSUME NEW g \in Gaps(occ, n) PROVE FALSE
        BY <3>1, <2>3, <2>6, GapIs
      <4> QED
        BY <4>1
    <3>3. ChosenRun(occ, n, w) = <<0, 0>>
      BY <3>2 DEF ChosenRun
    <3>4. \A u \in occ : u < s \/ s <= u
      OBVIOUS
    <3> QED
      BY <3>1, <3>3, <3>4, <2>1, <2>6
  <2> QED
    BY <2>4, <2>5, <2>6, <1>1
<1> QED
  BY <1>4, <1>5

-----------------------------------------------------------------------------
(* The inductive invariant. *)

SpaceKept ==
  /\ size \in Nat /\ requested \in Nat /\ pc \in {"loop", "scan", "done"}
  /\ allocated_areas \subseteq Run(0, NumSlots) /\ reserved \subseteq allocated_areas
  /\ Aligned(remaining_size)
  /\ remaining_size + Granularity * Cardinality(reserved) = requested

ScanKept ==
  pc = "scan" =>
    /\ Aligned(want) /\ Aligned(largest_gap) /\ Aligned(largest_gap_offset)
    /\ Aligned(last_region_end) /\ want <= remaining_size /\ broke_early \in BOOLEAN
    /\ todo \subseteq allocated_areas /\ (first_region => last_region_end = 0)
    /\ Scanned(OccupiedSlots, NumSlots, Slot(want), { Slot(o) : o \in todo },
               Slot(last_region_end), Slot(largest_gap), Slot(largest_gap_offset), broke_early)

ShortKept == pc = "done" /\ remaining_size > 0 => allocated_areas = Run(0, NumSlots)

LoopKept == SpaceKept /\ ScanKept /\ ShortKept

(***************************************************************************)
(* Offsets of a run of slots, and back.                                    *)
(***************************************************************************)
LEMMA RunSlots ==
  ASSUME NEW n \in Nat, NEW S \in SUBSET Run(0, n)
  PROVE  /\ \A o \in S : o \in Nat /\ Slot(o) \in Nat /\ Slot(o) < n /\ o = Slot(o) * Granularity
         /\ IsFiniteSet(S)
<1>1. ASSUME NEW o \in S PROVE o \in Nat /\ Slot(o) \in Nat /\ Slot(o) < n /\ o = Slot(o) * Granularity
  <2>1. PICK j \in 0..(n - 1) : o = j * Granularity
    BY <1>1 DEF Run
  <2>2. j \in Nat /\ j < n
    BY <2>1
  <2>3. j * Granularity \in Nat /\ Slot(j * Granularity) = j
    BY <2>2, Slots
  <2> QED
    BY <2>1, <2>2, <2>3
<1>2. 0 + n = n
  OBVIOUS
<1>3. IsFiniteSet(Run(0, n))
  BY <1>2, RunSize
<1> QED
  BY <1>1, <1>3, FS_Subset

(***************************************************************************)
(* The occupied slots.                                                     *)
(***************************************************************************)
LEMMA Occupied ==
  ASSUME SpaceKept
  PROVE  /\ NumSlots \in Nat /\ NumSlots = Slot(size) /\ OccupiedSlots \in SUBSET Nat
         /\ \A s \in OccupiedSlots : s < NumSlots /\ s * Granularity \in allocated_areas
         /\ \A o \in allocated_areas : /\ o \in Nat /\ Slot(o) \in OccupiedSlots
                                       /\ o = Slot(o) * Granularity
         /\ OccupiedSlots = { Slot(o) : o \in allocated_areas }
         /\ IsFiniteSet(reserved) /\ IsFiniteSet(allocated_areas)
         /\ Run(0, NumSlots) = Granules(0, size)
<1>1. NumSlots = Slot(size) /\ OccupiedSlots = { Slot(o) : o \in allocated_areas }
  BY DEF NumSlots, Slot, OccupiedSlots
<1>2. PICK n \in Nat : n = NumSlots
  BY <1>1, Slots DEF SpaceKept
<1>3. PICK S \in SUBSET Run(0, n) : S = allocated_areas
  BY <1>2 DEF SpaceKept
<1>4. /\ \A o \in S : o \in Nat /\ Slot(o) \in Nat /\ Slot(o) < n /\ o = Slot(o) * Granularity
      /\ IsFiniteSet(S)
  BY RunSlots
<1>5. IsFiniteSet(reserved)
  BY <1>3, <1>4, FS_Subset DEF SpaceKept
<1>6. Run(0, n) = Granules(0, size)
  <2>1. PICK z \in Nat : z = size
    BY DEF SpaceKept
  <2>2. 0 * Granularity = 0 /\ 0 + Slot(z) = n /\ 0 \in Nat
    BY <2>1, <1>1, <1>2, Slots
  <2>3. Granules(0 * Granularity, z) = Run(0, 0 + Slot(z))
    BY GranulesAre
  <2> QED
    BY <2>1, <2>2, <2>3
<1> QED
  BY <1>1, <1>2, <1>3, <1>4, <1>5, <1>6

(***************************************************************************)
(* The c slots from st on are free, and they are taken.                    *)
(***************************************************************************)
LEMMA InsertKept ==
  ASSUME SpaceKept, NEW st \in Nat, NEW c \in Nat, st + c <= NumSlots,
         \A u \in OccupiedSlots : u < st \/ st + c <= u,
         c * Granularity <= remaining_size,
         c = 0 /\ remaining_size > 0 => allocated_areas = Run(0, NumSlots),
         Insert(Run(st, st + c)), UNCHANGED <<size, requested>>
  PROVE  /\ LoopKept'
         /\ (reserved' \ reserved) \cap allocated_areas = {}
         /\ reserved' \ reserved \subseteq Granules(0, size)
         /\ Cardinality(reserved') * Granularity <= requested
<1>1. PICK g \in Nat, n \in Nat : g = Granularity /\ g > 0 /\ n = NumSlots /\ n = Slot(size)
  BY Occupied, Slots
<1>2. PICK new : new = Run(st, st + c)
  OBVIOUS
<1>3. IsFiniteSet(new) /\ Cardinality(new) = c
  BY <1>2, RunSize
<1>4. /\ allocated_areas' = allocated_areas \cup new /\ reserved' = reserved \cup new
      /\ remaining_size' = remaining_size - Granularity * Cardinality(new)
      /\ pc' = IF new = {} \/ remaining_size' = 0 THEN "done" ELSE "loop"
  BY <1>2 DEF Insert
<1>5. new \cap allocated_areas = {}
  <2>1. ASSUME NEW o \in new, o \in allocated_areas PROVE FALSE
    <3>1. PICK j \in st..(st + c - 1) : o = j * Granularity
      BY <2>1, <1>2 DEF Run
    <3>2. Slot(o) = j /\ Slot(o) \in OccupiedSlots
      BY <3>1, <2>1, Slots, Occupied
    <3> QED
      BY <3>1, <3>2
  <2> QED
    BY <2>1
<1>6. new \subseteq Run(0, n)
  <2>1. \A j \in st..(st + c - 1) : j \in 0..(n - 1)
    BY <1>1
  <2> QED
    BY <2>1, <1>2 DEF Run
<1>7. new \cap reserved = {}
  BY <1>5 DEF SpaceKept
<1>8. PICK k \in Nat : remaining_size = k * g
  BY <1>1 DEF SpaceKept, Aligned
<1>9. c <= k
  BY <1>1, <1>8, Multiples
<1>10. PICK d \in Nat : d = k - c
  BY <1>9
<1>11. remaining_size' = d * g
  <2>1. k * g - c * g = (k - c) * g /\ g * c = c * g
    BY <1>1, Multiples
  <2> QED
    BY <2>1, <1>1, <1>3, <1>4, <1>8, <1>10
<1>12. PICK m \in Nat : m = Cardinality(reserved) /\ Cardinality(reserved') = m + c
  <2>1. PICK R : R = reserved /\ IsFiniteSet(R) /\ Cardinality(R) \in Nat
    BY Occupied, FS_CardinalityType
  <2>2. Cardinality(R \cup new) = Cardinality(R) + Cardinality(new) - Cardinality(R \cap new)
    BY ONLY <2>1, <1>3, FS_Union
  <2>3. Cardinality(R \cap new) = 0
    BY <2>1, <1>7, FS_EmptySet
  <2> QED
    BY <2>1, <2>2, <2>3, <1>3, <1>4
<1>13. remaining_size' + Granularity * Cardinality(reserved') = requested
  <2>1. k * g + g * m = requested /\ requested \in Nat
    BY <1>1, <1>8, <1>12 DEF SpaceKept
  <2>2. k = d + c
    BY <1>9, <1>10
  <2>3. d * g + g * (m + c) = (d + c) * g + g * m
    BY <1>1
  <2> QED
    BY <2>1, <2>2, <2>3, <1>1, <1>11, <1>12
<1>14. Cardinality(reserved') * Granularity <= requested
  <2>1. PICK q \in Nat : q = m + c
    OBVIOUS
  <2>2. d * g \in Nat /\ g * q \in Nat /\ q * g = g * q
    BY <1>1
  <2>3. d * g + g * q = requested
    BY <2>1, <1>1, <1>11, <1>12, <1>13
  <2>4. \A x, y \in Nat : y <= x + y
    OBVIOUS
  <2> QED
    BY <2>1, <2>2, <2>3, <2>4, <1>1, <1>12
<1>15. NumSlots' = NumSlots
  BY DEF NumSlots
<1>16. SpaceKept'
  <2>1. pc' \in {"loop", "scan", "done"}
    BY <1>4
  <2>2. allocated_areas' \subseteq Run(0, n) /\ reserved' \subseteq allocated_areas'
    BY <1>1, <1>4, <1>6 DEF SpaceKept
  <2>3. Aligned(remaining_size)'
    BY <1>1, <1>11 DEF Aligned
  <2> QED
    BY <2>1, <2>2, <2>3, <1>1, <1>13, <1>15 DEF SpaceKept
<1>17. ScanKept'
  BY <1>4 DEF ScanKept
<1>18. ShortKept'
  <2> SUFFICES ASSUME pc' = "done", remaining_size' > 0 PROVE allocated_areas' = Run(0, NumSlots)
    BY <1>15 DEF ShortKept
  <2>1. new = {}
    BY <1>4, <1>11, <1>1
  <2>2. c = 0
    BY <2>1, <1>3, FS_EmptySet
  <2>3. remaining_size > 0
    <3>1. k = d
      BY <2>2, <1>9, <1>10
    <3> QED
      BY <3>1, <1>8, <1>11
  <2> QED
    BY <2>1, <2>2, <2>3, <1>4
<1> QED
  BY <1>1, <1>4, <1>5, <1>6, <1>14, <1>16, <1>17, <1>18, Occupied DEF LoopKept

(***************************************************************************)
(* A request has a number of granules at the start, all of them to do.     *)
(***************************************************************************)
LEMMA InitLoop ==
  ASSUME Init PROVE LoopKept
<1>1. size \in Nat /\ allocated_areas \subseteq Granules(0, size) /\ reserved = {} /\ pc = "loop"
      /\ remaining_size = requested
  BY SizesAssumption DEF Init
<1>2. PICK g \in Nat : g = Granularity /\ g > 0
  BY Slots
<1>3. PICK x \in Nat : requested = RoundDown(x)
  <2>1. PICK amount \in 1..MaxRequest : requested = RoundUp(amount)
    BY DEF Init
  <2>2. amount + g - 1 \in Nat
    BY <2>1, <1>2, SizesAssumption
  <2> QED
    BY <2>1, <2>2, <1>2 DEF RoundUp
<1>4. PICK k \in Nat : requested = k * g /\ requested \in Nat
  BY <1>2, <1>3, Slots
<1>5. Aligned(remaining_size)
  BY <1>1, <1>2, <1>4 DEF Aligned
<1>6. remaining_size + Granularity * Cardinality(reserved) = requested
  <2>1. Cardinality(reserved) = 0
    BY <1>1, FS_EmptySet
  <2>2. g * 0 = 0 /\ requested + 0 = requested
    BY <1>4
  <2> QED
    BY <2>1, <2>2, <1>1, <1>2
<1>7. Granules(0, size) = Run(0, NumSlots)
  <2>1. PICK z \in Nat : z = size
    BY <1>1
  <2>2. 0 * Granularity = 0 /\ 0 + Slot(z) = NumSlots /\ 0 \in Nat
    BY <2>1, Slots DEF NumSlots, Slot
  <2>3. Granules(0 * Granularity, z) = Run(0, 0 + Slot(z))
    BY GranulesAre
  <2> QED
    BY <2>1, <2>2, <2>3
<1>8. SpaceKept
  BY <1>1, <1>4, <1>5, <1>6, <1>7 DEF SpaceKept
<1> QED
  BY <1>1, <1>8 DEF LoopKept, ScanKept, ShortKept

(* What a step of reserve_memory does to the offsets it reserves. *)
Careful ==
  /\ (reserved' \ reserved) \cap allocated_areas = {}
  /\ reserved' \ reserved \subseteq Granules(0, size)
  /\ Cardinality(reserved') * Granularity <= requested

(***************************************************************************)
(* What one call asks for.                                                 *)
(***************************************************************************)
LEMMA Asked ==
  ASSUME SpaceKept, NEW n, n = RoundDown(IF remaining_size > size THEN size ELSE remaining_size)
  PROVE  \E c \in Nat : /\ n = c * Granularity /\ n <= remaining_size /\ c <= NumSlots
                        /\ c = 0 /\ remaining_size > 0 => NumSlots = 0
<1>1. PICK g \in Nat : g = Granularity /\ g > 0
  BY Slots
<1>2. PICK z \in Nat, k \in Nat, r \in Nat :
        z = size /\ r = k * g /\ r = remaining_size /\ Slot(r) = k
  BY <1>1, Slots DEF SpaceKept, Aligned
<1>3. NumSlots = Slot(z)
  BY <1>2 DEF NumSlots, Slot
<1>4. CASE r > z
  <2>1. PICK c \in Nat : c = Slot(z) /\ n = c * g /\ c * g <= z /\ c * g \in Nat
    BY <1>1, <1>2, <1>4, Slots
  <2>2. n <= r
    BY <2>1, <1>4
  <2> QED
    BY <2>1, <2>2, <1>1, <1>2, <1>3
<1>5. CASE ~(r > z)
  <2>1. n = k * g
    BY <1>1, <1>2, <1>5, Slots
  <2>2. k * g <= z
    BY <1>2, <1>5
  <2>3. k <= Slot(z)
    BY <2>2, <1>1, SlotBelow
  <2>4. k = 0 => r = 0
    BY <1>1, <1>2
  <2> QED
    BY <2>1, <2>3, <2>4, <1>1, <1>2, <1>3
<1> QED
  BY <1>4, <1>5

(***************************************************************************)
(* Nothing to place, or an empty device.                                   *)
(***************************************************************************)
LEMMA PlaceKept ==
  ASSUME LoopKept, PlaceAtOnce PROVE LoopKept' /\ Careful
<1>1. SpaceKept
  BY DEF LoopKept
<1>2. PICK n : n = RoundDown(IF remaining_size > size THEN size ELSE remaining_size)
  OBVIOUS
<1>3. PICK c \in Nat : /\ n = c * Granularity /\ n <= remaining_size /\ c <= NumSlots
                       /\ c = 0 /\ remaining_size > 0 => NumSlots = 0
  BY <1>1, <1>2, Asked
<1>4. n = 0 \/ allocated_areas = {}
  BY <1>2 DEF PlaceAtOnce
<1>5. Insert(Granules(0, n)) /\ UNCHANGED <<size, requested>>
  BY <1>2 DEF PlaceAtOnce
<1>6. Granules(0, n) = Run(0, 0 + c)
  <2>1. 0 * Granularity = 0 /\ Slot(n) = c /\ n \in Nat /\ 0 \in Nat
    BY <1>3, Slots
  <2>2. Granules(0 * Granularity, n) = Run(0, 0 + Slot(n))
    BY <2>1, GranulesAre
  <2> QED
    BY <2>1, <2>2
<1>7. c > 0 => OccupiedSlots = {}
  <2>1. c > 0 => n # 0
    BY <1>3, Slots, Multiples
  <2> QED
    BY <2>1, <1>4 DEF OccupiedSlots
<1>8. \A u \in OccupiedSlots : u < 0 \/ 0 + c <= u
  <2>1. \A u \in OccupiedSlots : u \in Nat
    BY <1>1, Occupied
  <2> QED
    BY <2>1, <1>7
<1>9. 0 + c <= NumSlots /\ 0 \in Nat
  BY <1>1, <1>3, Occupied
<1>10. c = 0 /\ remaining_size > 0 => allocated_areas = Run(0, NumSlots)
  <2>1. NumSlots = 0 => Run(0, NumSlots) = {}
    <3>1. 0..(0 - 1) = {}
      OBVIOUS
    <3> QED
      BY <3>1 DEF Run
  <2> QED
    BY <2>1, <1>1, <1>3 DEF SpaceKept
<1> QED
  BY <1>1, <1>3, <1>5, <1>6, <1>8, <1>9, <1>10, InsertKept DEF Careful

(***************************************************************************)
(* A scan begins.                                                          *)
(***************************************************************************)
LEMMA BeginKept ==
  ASSUME LoopKept, BeginScan PROVE LoopKept'
<1>1. SpaceKept
  BY DEF LoopKept
<1>2. /\ UNCHANGED <<size, allocated_areas, requested, remaining_size, reserved>>
      /\ pc' = "scan" /\ todo' = allocated_areas /\ want' > 0
      /\ want' = RoundDown(IF remaining_size > size THEN size ELSE remaining_size)
      /\ largest_gap' = 0 /\ largest_gap_offset' = 0 /\ last_region_end' = 0 /\ broke_early' = FALSE
  BY DEF BeginScan, ScanStart
<1>3. PICK n : n = want'
  OBVIOUS
<1>4. PICK c \in Nat : n = c * Granularity /\ n <= remaining_size
  BY <1>1, <1>2, <1>3, Asked
<1>5. Slot(n) = c /\ c > 0
  <2>1. c # 0
    BY <1>2, <1>3, <1>4, Slots
  <2> QED
    BY <2>1, <1>4, Slots
<1>6. SpaceKept'
  BY <1>1, <1>2 DEF SpaceKept, NumSlots, Aligned
<1>7. 0 = 0 * Granularity /\ Slot(0) = 0
  <2>1. 0 * Granularity = 0
    BY Slots
  <2> QED
    BY <2>1, Slots
<1>8. PICK occ \in SUBSET Nat, k \in Nat :
        /\ occ = OccupiedSlots /\ k = NumSlots /\ occ = { Slot(o) : o \in allocated_areas }
        /\ \A s \in occ : s < k
  BY <1>1, Occupied
<1>9. Scanned(occ, k, c, occ, 0, 0, 0, FALSE)
  BY <1>5, <1>8, ScanBegins
<1>10. OccupiedSlots' = occ /\ NumSlots' = k
  BY <1>2, <1>8 DEF OccupiedSlots, NumSlots
<1>11. Scanned(OccupiedSlots, NumSlots, Slot(want), { Slot(o) : o \in todo },
               Slot(last_region_end), Slot(largest_gap), Slot(largest_gap_offset), broke_early)'
  BY <1>2, <1>3, <1>5, <1>7, <1>8, <1>9, <1>10
<1>12. Aligned(want)' /\ Aligned(largest_gap)' /\ Aligned(largest_gap_offset)' /\ Aligned(last_region_end)'
  BY <1>2, <1>3, <1>4, <1>7 DEF Aligned
<1>13. ScanKept'
  BY <1>2, <1>3, <1>4, <1>11, <1>12 DEF ScanKept
<1> QED
  BY <1>2, <1>6, <1>13 DEF LoopKept, ShortKept

(***************************************************************************)
(* One iteration of the scan.                                              *)
(***************************************************************************)
LEMMA AreaKept ==
  ASSUME LoopKept, ScanArea PROVE LoopKept'
<1>1. SpaceKept /\ pc = "scan" /\ ~broke_early
  BY DEF LoopKept, ScanArea
<1>2. UNCHANGED <<size, allocated_areas, requested, remaining_size, reserved, pc, want>>
  BY DEF ScanArea
<1>3. PICK g \in Nat : g = Granularity /\ g > 0
  BY Slots
<1>4. /\ Aligned(want) /\ Aligned(largest_gap) /\ Aligned(largest_gap_offset)
      /\ Aligned(last_region_end) /\ want <= remaining_size
      /\ todo \subseteq allocated_areas /\ (first_region => last_region_end = 0)
      /\ Scanned(OccupiedSlots, NumSlots, Slot(want), { Slot(o) : o \in todo },
                 Slot(last_region_end), Slot(largest_gap), Slot(largest_gap_offset), broke_early)
  BY <1>1 DEF LoopKept, ScanKept
<1>5. PICK w \in Nat, end \in Nat, best \in Nat, at \in Nat :
        /\ want = w * g /\ last_region_end = end * g
        /\ largest_gap = best * g /\ largest_gap_offset = at * g
  BY <1>3, <1>4 DEF Aligned
<1>6. /\ Slot(want) = w /\ Slot(last_region_end) = end
      /\ Slot(largest_gap) = best /\ Slot(largest_gap_offset) = at
  BY <1>3, <1>5, Slots
<1>7. PICK occ \in SUBSET Nat, n \in Nat :
        occ = OccupiedSlots /\ n = NumSlots /\ (\A u \in occ : u < n)
        /\ \A o \in allocated_areas : o \in Nat /\ Slot(o) \in occ /\ o = Slot(o) * g
  BY <1>1, <1>3, Occupied
<1>8. PICK t : t = { Slot(o) : o \in todo }
  OBVIOUS
<1>9. Scanned(occ, n, w, t, end, best, at, FALSE)
  <2>1. broke_early = FALSE
    BY <1>1 DEF LoopKept, ScanKept
  <2> QED
    BY <2>1, <1>4, <1>6, <1>7, <1>8
<1>10. PICK offset \in todo :
         LET gap == IF first_region THEN offset ELSE offset - last_region_end
             from == IF first_region THEN 0 ELSE last_region_end
         IN  /\ \A other \in todo : offset <= other
             /\ todo' = todo \ {offset} /\ first_region' = FALSE
             /\ largest_gap' = IF gap > largest_gap THEN gap ELSE largest_gap
             /\ largest_gap_offset' = IF gap > largest_gap THEN from ELSE largest_gap_offset
             /\ broke_early' = (largest_gap' >= want)
             /\ last_region_end' = IF broke_early' THEN last_region_end ELSE offset + Granularity
  BY DEF ScanArea
<1>11. PICK s \in Nat : s = Slot(offset) /\ offset = s * g /\ s \in t /\ s \in occ
  <2>1. offset \in allocated_areas
    BY <1>4, <1>10
  <2> QED
    BY <2>1, <1>7, <1>8, <1>10
<1>12. end <= s
  BY <1>9, <1>11 DEF Scanned
<1>13. PICK d \in Nat : d = s - end /\ d * g = offset - last_region_end
  <2>1. s - end \in Nat
    BY <1>12
  <2>2. s * g - end * g = (s - end) * g
    BY <1>3, Multiples
  <2> QED
    BY <2>1, <2>2, <1>5, <1>11
<1>14. /\ d * g = IF first_region THEN offset ELSE offset - last_region_end
       /\ end * g = IF first_region THEN 0 ELSE last_region_end
  <2>1. offset \in Nat /\ offset - 0 = offset
    BY <1>3, <1>11
  <2> QED
    BY <2>1, <1>4, <1>5, <1>13
<1>15. d * g > best * g <=> d > best
  <2>1. best * g < d * g <=> best < d
    BY <1>3, Multiples
  <2>2. best * g \in Nat /\ d * g \in Nat
    BY <1>3
  <2> QED
    BY <2>1, <2>2
<1>16. PICK best2 \in Nat, at2 \in Nat :
         /\ largest_gap' = best2 * g /\ largest_gap_offset' = at2 * g
         /\ d > best => best2 = d /\ at2 = end
         /\ ~(d > best) => best2 = best /\ at2 = at
  <2>1. CASE d > best
    BY <2>1, <1>5, <1>10, <1>14, <1>15
  <2>2. CASE ~(d > best)
    BY <2>2, <1>5, <1>10, <1>14, <1>15
  <2> QED
    BY <2>1, <2>2
<1>17. PICK broke2 \in BOOLEAN : broke_early' = broke2 /\ (broke2 <=> best2 >= w)
  <2>1. w * g <= best2 * g <=> w <= best2
    BY <1>3, Multiples
  <2>2. w * g \in Nat /\ best2 * g \in Nat
    BY <1>3
  <2>3. broke_early' = (best2 * g >= w * g)
    BY <1>5, <1>10, <1>16
  <2>4. (best2 * g >= w * g) <=> best2 >= w
    BY <2>1, <2>2
  <2>5. CASE best2 >= w
    <3>1. broke_early' = TRUE
      BY <2>3, <2>4, <2>5
    <3> QED
      BY <3>1, <2>5
  <2>6. CASE ~(best2 >= w)
    <3>1. (best2 * g >= w * g) = FALSE
      BY <2>4, <2>6
    <3>2. broke_early' = FALSE
      BY <3>1, <2>3, Zenon
    <3> QED
      BY <3>2, <2>6
  <2> QED
    BY <2>5, <2>6
<1>18. PICK end2 \in Nat : last_region_end' = end2 * g /\ end2 = IF broke2 THEN end ELSE s + 1
  <2>1. s * g + g = (s + 1) * g
    BY <1>3, Multiples
  <2>2. CASE broke2
    BY <2>2, <1>5, <1>10, <1>17
  <2>3. CASE ~broke2
    BY <2>1, <2>3, <1>3, <1>10, <1>11, <1>17
  <2> QED
    BY <2>2, <2>3
<1>19. \A u \in t : s <= u
  <2> SUFFICES ASSUME NEW o \in todo PROVE s <= Slot(o)
    BY <1>8
  <2>1. o \in allocated_areas
    BY <1>4
  <2>2. PICK j \in Nat : j = Slot(o) /\ o = j * g
    BY <2>1, <1>7
  <2>3. s * g <= j * g
    BY <2>2, <1>10, <1>11
  <2> QED
    BY <2>2, <2>3, <1>3, Multiples
<1>20. { Slot(o) : o \in todo' } = t \ {s}
  <2>1. ASSUME NEW o \in todo, o # offset PROVE Slot(o) # s
    <3>1. o = Slot(o) * g
      BY <1>4, <1>7
    <3> QED
      BY <3>1, <2>1, <1>11
  <2> QED
    BY <2>1, <1>8, <1>10, <1>11
<1>21. Visit(s, w, end, best, at, end2, best2, at2, broke2)
  BY <1>13, <1>16, <1>17, <1>18 DEF Visit
<1>22. Scanned(occ, n, w, t \ {s}, end2, best2, at2, broke2)
  BY <1>9, <1>11, <1>19, <1>21, ScanStep
<1>23. OccupiedSlots' = occ /\ NumSlots' = n
  BY <1>2, <1>7 DEF OccupiedSlots, NumSlots
<1>24. /\ Slot(want)' = w /\ Slot(last_region_end)' = end2
       /\ Slot(largest_gap)' = best2 /\ Slot(largest_gap_offset)' = at2
  BY <1>2, <1>3, <1>6, <1>16, <1>18, Slots
<1>25. broke_early' = broke2
  BY <1>17
<1>26. Scanned(OccupiedSlots, NumSlots, Slot(want), { Slot(o) : o \in todo },
               Slot(last_region_end), Slot(largest_gap), Slot(largest_gap_offset), broke_early)'
  BY <1>20, <1>22, <1>23, <1>24, <1>25
<1>27. Aligned(want)' /\ Aligned(largest_gap)' /\ Aligned(largest_gap_offset)' /\ Aligned(last_region_end)'
  BY <1>2, <1>3, <1>5, <1>16, <1>18 DEF Aligned
<1>28. ScanKept'
  BY <1>2, <1>4, <1>10, <1>17, <1>26, <1>27 DEF ScanKept
<1>29. SpaceKept'
  BY <1>1, <1>2 DEF SpaceKept, NumSlots, Aligned
<1> QED
  BY <1>1, <1>2, <1>28, <1>29 DEF LoopKept, ShortKept

(***************************************************************************)
(* What the scan has chosen at its end.                                    *)
(***************************************************************************)
LEMMA ChosenIs ==
  ASSUME LoopKept, ScanEnded
  PROVE  \E st, c \in Nat :
           /\ Chosen = Run(st, st + c) /\ st + c <= NumSlots
           /\ \A u \in OccupiedSlots : u < st \/ st + c <= u
           /\ c * Granularity <= remaining_size
           /\ c = 0 => allocated_areas = Run(0, NumSlots)
           /\ \E a, b \in Nat :
                /\ ChosenRun(OccupiedSlots, NumSlots, Slot(want)) = <<a, b>>
                /\ b = a + c /\ b <= NumSlots /\ (size % Granularity = 0 => a = st \/ c = 0)
<1>1. SpaceKept /\ pc = "scan"
  BY DEF LoopKept, ScanEnded
<1>2. PICK g \in Nat : g = Granularity /\ g > 0
  BY Slots
<1>3. /\ Aligned(want) /\ Aligned(largest_gap) /\ Aligned(largest_gap_offset)
      /\ Aligned(last_region_end) /\ want <= remaining_size /\ broke_early \in BOOLEAN
      /\ Scanned(OccupiedSlots, NumSlots, Slot(want), { Slot(o) : o \in todo },
                 Slot(last_region_end), Slot(largest_gap), Slot(largest_gap_offset), broke_early)
  BY <1>1 DEF LoopKept, ScanKept
<1>4. PICK w \in Nat, end \in Nat, best \in Nat, at \in Nat :
        /\ want = w * g /\ last_region_end = end * g
        /\ largest_gap = best * g /\ largest_gap_offset = at * g
  BY <1>2, <1>3 DEF Aligned
<1>5. /\ Slot(want) = w /\ Slot(last_region_end) = end
      /\ Slot(largest_gap) = best /\ Slot(largest_gap_offset) = at
  BY <1>2, <1>4, Slots
<1>6. PICK occ \in SUBSET Nat, n \in Nat :
        /\ occ = OccupiedSlots /\ n = NumSlots /\ n = Slot(size) /\ (\A u \in occ : u < n)
        /\ \A u \in occ : u * g \in allocated_areas
  BY <1>1, <1>2, Occupied
<1>7. PICK t, broke : t = { Slot(o) : o \in todo } /\ broke = broke_early /\ broke \in BOOLEAN
  BY <1>3
<1>8. Scanned(occ, n, w, t, end, best, at, broke) /\ (broke \/ t = {})
  BY <1>3, <1>5, <1>6, <1>7 DEF ScanEnded
<1>9. PICK z \in Nat, r \in Nat : z = size /\ z = n * g + r /\ r < g /\ (r = 0 <=> z % g = 0)
  <2>1. PICK z \in Nat : z = size
    BY <1>1 DEF SpaceKept
  <2>2. n * g \in Nat /\ n * g <= z /\ z < n * g + g /\ (z % g = 0 <=> z = n * g)
    BY <2>1, <1>2, <1>6, Slots
  <2>3. z - n * g \in Nat /\ z = n * g + (z - n * g) /\ z - n * g < g /\ (z - n * g = 0 <=> z = n * g)
    BY <2>1, <2>2, <1>2
  <2> QED
    BY <2>1, <2>2, <2>3
<1>10. end <= n
  BY <1>8 DEF Scanned
<1>11. PICK f \in Nat : f = n - end
  BY <1>10
<1>12. FinalGap = f * g + r
  <2>1. n * g - end * g = (n - end) * g /\ n * g \in Nat /\ end * g \in Nat
    BY <1>2, Multiples
  <2>2. z - end * g = f * g + r
    BY <2>1, <1>9, <1>11
  <2> QED
    BY <2>2, <1>4, <1>9 DEF FinalGap
<1>13. PICK tie \in BOOLEAN : tie <=> r > 0
  OBVIOUS
<1>14. TakeFinalGap <=> TakesFinal(n, end, best, broke, tie)
  <2>1. f * g + r > best * g <=> (f > best \/ (f = best /\ r > 0))
    <3>1. /\ f * g \in Nat /\ best * g \in Nat /\ f * g + g = (f + 1) * g /\ f + 1 \in Nat
          /\ (f < best <=> f * g < best * g) /\ (best < f <=> best * g < f * g)
      BY <1>2, Multiples
    <3>2. CASE f > best
      BY <3>1, <3>2, <1>9
    <3>3. CASE f = best
      BY <3>1, <3>3, <1>9
    <3>4. CASE f < best
      <4>1. f + 1 <= best
        BY <3>4
      <4>2. (f + 1) * g <= best * g
        BY <4>1, <3>1, <1>2, Multiples
      <4>3. f * g + r < best * g
        BY <4>2, <3>1, <1>9
      <4> QED
        BY <4>3, <3>1, <3>4, <1>9
    <3> QED
      BY <3>2, <3>3, <3>4
  <2> QED
    BY <2>1, <1>4, <1>7, <1>11, <1>12, <1>13 DEF TakeFinalGap, TakesFinal
<1>15. PICK s \in Nat, l \in Nat :
         /\ TakesFinal(n, end, best, broke, tie) => s = end /\ l = n - end
         /\ ~TakesFinal(n, end, best, broke, tie) => s = at /\ l = best
  BY <1>11
<1>16. /\ RoundDown(IF TakeFinalGap THEN FinalGap ELSE largest_gap) = l * g
       /\ (IF TakeFinalGap THEN last_region_end ELSE largest_gap_offset) = s * g
  <2>1. RoundDown(best * g) = best * g
    BY <1>2, Slots
  <2>2. RoundDown(f * g + r) = f * g
    <3>1. (f * g + r) \div g = f /\ f * g + r \in Nat
      BY <1>2, <1>9, DivisionOf
    <3> QED
      BY <3>1, <1>2, Slots DEF Slot
  <2>3. CASE TakeFinalGap
    BY <2>2, <2>3, <1>4, <1>11, <1>12, <1>14, <1>15
  <2>4. CASE ~TakeFinalGap
    BY <2>1, <2>4, <1>4, <1>14, <1>15
  <2> QED
    BY <2>3, <2>4
<1>17. PICK c \in Nat : c = IF l < w THEN l ELSE w
  OBVIOUS
<1>18. (IF l * g < w * g THEN l * g ELSE w * g) = c * g
  <2>1. l * g < w * g <=> l < w
    BY <1>2, Multiples
  <2> QED
    BY <2>1, <1>17
<1>19. Chosen = Run(s, s + c)
  <2>1. PICK x, y : x = s * g /\ y = c * g
    OBVIOUS
  <2>2. Chosen = Granules(x, y)
    BY <2>1, <1>4, <1>16, <1>18 DEF Chosen
  <2>3. y \in Nat /\ Slot(y) = c
    BY <2>1, <1>2, Slots
  <2>4. Granules(s * Granularity, y) = Run(s, s + Slot(y))
    BY <2>3, GranulesAre
  <2> QED
    BY <2>1, <2>2, <2>3, <2>4, <1>2
<1>20. /\ s + c <= n /\ \A u \in occ : u < s \/ s + c <= u
       /\ c = 0 => \A i \in Nat : i < n => i \in occ
       /\ \E a, b \in Nat : /\ ChosenRun(occ, n, w) = <<a, b>>
                            /\ b = a + c /\ b <= n /\ (~tie => a = s \/ c = 0)
  <2>1. Takes(n, w, end, best, at, broke, tie, s, l, c)
    BY <1>15, <1>17 DEF Takes
  <2> QED
    BY <2>1, <1>8, ScanEnds
<1>21. c * g <= remaining_size
  <2>1. PICK k \in Nat : remaining_size = k * g
    BY <1>1, <1>2 DEF SpaceKept, Aligned
  <2>2. w <= k
    BY <2>1, <1>2, <1>3, <1>4, Multiples
  <2>3. c <= k
    BY <2>2, <1>17
  <2> QED
    BY <2>1, <2>3, <1>2, Multiples
<1>22. c = 0 => allocated_areas = Run(0, n)
  <2> SUFFICES ASSUME c = 0, NEW j \in 0..(n - 1) PROVE j * g \in allocated_areas
    BY <1>1, <1>2, <1>6 DEF SpaceKept, Run
  <2> QED
    BY <1>6, <1>20
<1>23. size % Granularity = 0 => ~tie
  BY <1>2, <1>9, <1>13
<1> QED
  BY <1>2, <1>5, <1>6, <1>19, <1>20, <1>21, <1>22, <1>23

(***************************************************************************)
(* Every step keeps the invariant and is careful.                          *)
(***************************************************************************)
LEMMA NextLoop ==
  ASSUME LoopKept, [Next]_vars PROVE LoopKept' /\ (Careful \/ UNCHANGED vars)
<1>1. SpaceKept
  BY DEF LoopKept
<1>2. ASSUME UNCHANGED <<reserved, requested>> PROVE Careful
  <2>1. PICK g \in Nat : g = Granularity /\ g > 0
    BY Slots
  <2>2. PICK k \in Nat, m \in Nat, q \in Nat :
          /\ k * g = remaining_size /\ m = Cardinality(reserved) /\ q = requested
          /\ k * g + g * m = q
    BY <2>1, <1>1, Occupied, FS_CardinalityType DEF SpaceKept, Aligned
  <2>3. m * g <= q
    <3>1. k * g \in Nat /\ g * m \in Nat /\ m * g = g * m
      BY <2>1
    <3>2. \A x, y \in Nat : y <= x + y
      OBVIOUS
    <3> QED
      BY <3>1, <3>2, <2>2
  <2> QED
    BY <2>1, <2>2, <2>3, <1>2 DEF Careful
<1>3. CASE PlaceAtOnce
  BY <1>3, PlaceKept
<1>4. CASE BeginScan
  BY <1>2, <1>4, BeginKept DEF BeginScan
<1>5. CASE ScanArea
  BY <1>2, <1>5, AreaKept DEF ScanArea
<1>6. CASE EndScan
  <2>1. ScanEnded /\ Insert(Chosen) /\ UNCHANGED <<size, requested>>
    BY <1>6 DEF EndScan
  <2>2. PICK st \in Nat, c \in Nat :
          /\ Chosen = Run(st, st + c) /\ st + c <= NumSlots
          /\ \A u \in OccupiedSlots : u < st \/ st + c <= u
          /\ c * Granularity <= remaining_size
          /\ c = 0 => allocated_areas = Run(0, NumSlots)
    BY <2>1, ChosenIs
  <2> QED
    BY <2>1, <2>2, <1>1, InsertKept DEF Careful
<1>7. CASE Release
  <2>1. /\ UNCHANGED <<size, requested, reserved, remaining_size, pc>> /\ pc = "loop"
        /\ allocated_areas' \subseteq allocated_areas /\ reserved \subseteq allocated_areas'
    BY <1>1, <1>7 DEF Release, SpaceKept
  <2>2. SpaceKept'
    BY <2>1, <1>1 DEF SpaceKept, NumSlots, Aligned
  <2>3. ScanKept' /\ ShortKept'
    BY <2>1 DEF ScanKept, ShortKept
  <2> QED
    BY <2>1, <2>2, <2>3, <1>2 DEF LoopKept
<1>8. CASE UNCHANGED vars
  <2>1. /\ SpaceKept' /\ OccupiedSlots' = OccupiedSlots /\ NumSlots' = NumSlots
    BY <1>1, <1>8 DEF SpaceKept, NumSlots, OccupiedSlots, Aligned, vars
  <2>2. ScanKept'
    BY <2>1, <1>8 DEF LoopKept, ScanKept, Aligned, vars, scanVars
  <2>3. ShortKept'
    BY <2>1, <1>8 DEF LoopKept, ShortKept, vars
  <2> QED
    BY <2>1, <2>2, <2>3, <1>8 DEF LoopKept
<1> QED
  BY <1>3, <1>4, <1>5, <1>6, <1>7, <1>8 DEF Next, Reserving

-----------------------------------------------------------------------------
(***************************************************************************)
(* The invariant of reserve_memory and of the scan in                      *)
(* reserve_memory_contig.                                                  *)
(***************************************************************************)
THEOREM LoopKeptAlways == Spec => []LoopKept
<1>1. Init => LoopKept
  BY InitLoop
<1>2. LoopKept /\ [Next]_vars => LoopKept'
  BY NextLoop
<1> QED
  BY <1>1, <1>2, PTL DEF Spec

(***************************************************************************)
(* reserve_memory never takes an offset that is taken, one past the end of *)
(* the device, or more than it was asked for.                              *)
(***************************************************************************)
THEOREM NeverOverlapsAlways == Spec => NeverOverlaps
<1>1. LoopKept /\ [Next]_vars =>
        [ LET new == reserved' \ reserved
          IN  /\ new \cap allocated_areas = {}
              /\ new \subseteq Granules(0, size)
              /\ Cardinality(reserved') * Granularity <= requested ]_vars
  BY NextLoop DEF Careful
<1> QED
  BY <1>1, LoopKeptAlways, PTL DEF Spec, NeverOverlaps

(***************************************************************************)
(* reserve_memory returns short only if the device is full, whatever the   *)
(* sizes and however fragmented the device is.                             *)
(***************************************************************************)
THEOREM ShortOnlyIfFullAlways == Spec => []ShortOnlyIfFull
<1>1. LoopKept => ShortOnlyIfFull
  BY Occupied DEF LoopKept, ShortKept, ShortOnlyIfFull
<1> QED
  BY <1>1, LoopKeptAlways, PTL

(***************************************************************************)
(* The scan of reserve_memory_contig chooses what module DcdSpace defines, *)
(* which is what the orchestrator's model uses.                            *)
(***************************************************************************)
THEOREM ScanMatchesDefinitionAlways == Spec => []ScanMatchesDefinition
<1>1. LoopKept => ScanMatchesDefinition
  <2> SUFFICES ASSUME LoopKept, ScanEnded
               PROVE  LET run   == ChosenRun(OccupiedSlots, NumSlots, want \div Granularity)
                          slots == { i \in 0..NumSlots : run[1] <= i /\ i < run[2] }
                      IN  /\ Cardinality(Chosen) = Cardinality(slots)
                          /\ size % Granularity = 0 => Chosen = { i * Granularity : i \in slots }
    BY DEF ScanMatchesDefinition
  <2>1. PICK st \in Nat, c \in Nat, a \in Nat, b \in Nat :
          /\ Chosen = Run(st, st + c)
          /\ ChosenRun(OccupiedSlots, NumSlots, want \div Granularity) = <<a, b>>
          /\ b = a + c /\ b <= NumSlots /\ (size % Granularity = 0 => a = st \/ c = 0)
    BY ChosenIs DEF Slot
  <2>2. PICK n \in Nat : n = NumSlots
    BY Occupied DEF LoopKept
  <2>3. { i \in 0..n : a <= i /\ i < b } = a..(b - 1)
    BY <2>1, <2>2
  <2>4. Cardinality(Chosen) = c /\ Cardinality(a..(b - 1)) = c
    <3>1. Cardinality(Run(st, st + c)) = c /\ Cardinality(a..(a + c - 1)) = c
      BY RunSize
    <3> QED
      BY <3>1, <2>1
  <2>5. size % Granularity = 0 => Chosen = { i * Granularity : i \in a..(b - 1) }
    <3>1. CASE a = st
      BY <2>1, <3>1 DEF Run
    <3>2. CASE c = 0
      <4>1. st..(st + c - 1) = {} /\ a..(b - 1) = {}
        BY <2>1, <3>2
      <4> QED
        BY <4>1, <2>1 DEF Run
    <3> QED
      BY <2>1, <3>1, <3>2
  <2>6. <<a, b>>[1] = a /\ <<a, b>>[2] = b
    OBVIOUS
  <2> QED
    BY <2>1, <2>2, <2>3, <2>4, <2>5, <2>6
<1> QED
  BY <1>1, LoopKeptAlways, PTL
=============================================================================
