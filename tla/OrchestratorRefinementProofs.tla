-------------------- MODULE OrchestratorRefinementProofs --------------------
(***************************************************************************)
(* The orchestrator implements MemoryLoan, for every set of VMs, regions   *)
(* and threads: each of its steps is a step of the loans, or changes none. *)
(* LoanKept, the life cycle of an allocation together with what is known   *)
(* of the returns in progress, is the invariant the argument needs.        *)
(***************************************************************************)
EXTENDS OrchestratorProofs, OrchestratorRefinement

-----------------------------------------------------------------------------
(***************************************************************************)
(* The phase of a loan is a function of the state and the donor of its     *)
(* allocation and, once it is abandoned, of who returns it and of the map. *)
(***************************************************************************)
LEMMA PhaseFrame ==
  ASSUME NEW i,
         alloc'[i].state = alloc[i].state, alloc'[i].donor_info = alloc[i].donor_info,
         alloc[i].state = "Abandoned" /\ alloc[i].donor_info # NoRegion =>
           /\ Booking(i)' <=> Booking(i)
           /\ Returning(i)' <=> Returning(i)
           /\ i \in region'[alloc[i].donor_info].allocations
                <=> i \in region[alloc[i].donor_info].allocations
  PROVE  LoanPhase(i)' = LoanPhase(i)
BY DEF LoanPhase

(* The loans are what the refinement mapping makes of the allocations. *)
LEMMA SameLoans ==
  ASSUME UNCHANGED nextId,
         { r \in Regions : DonorOf[r] \in exited' } = { r \in Regions : DonorOf[r] \in exited },
         \A i \in Ids : LoanPhase(i)' = LoanPhase(i) /\ alloc'[i].donor_info = alloc[i].donor_info
  PROVE  UNCHANGED Loan!loanVars
<1>1. Ids' = Ids
  BY DEF Ids
<1>2. [i \in Ids |-> LoanPhase(i)]' = [i \in Ids |-> LoanPhase(i)]
  BY <1>1
<1>3. [i \in Ids |-> alloc[i].donor_info]' = [i \in Ids |-> alloc[i].donor_info]
  BY <1>1
<1>4. QED
  BY <1>2, <1>3 DEF Loan!loanVars

(* One loan moves on when the phase of one allocation changes. *)
LEMMA OneMoves ==
  ASSUME NEW i \in Ids, NEW from, NEW to,
         UNCHANGED <<nextId, exited>>,
         LoanPhase(i) \in from, LoanPhase(i)' = to,
         \A j \in Ids \ {i} : LoanPhase(j)' = LoanPhase(j)
  PROVE  Loan!Moves(i, from, to)
<1>1. Ids' = Ids
  BY DEF Ids
<1>2. [j \in Ids |-> LoanPhase(j)]' = [[j \in Ids |-> LoanPhase(j)] EXCEPT ![i] = to]
  BY <1>1
<1>3. i \in Loan!Ids
  BY DEF Loan!Ids, Ids
<1>4. QED
  BY <1>2, <1>3 DEF Loan!Moves

(* A thread either returns an allocation or books its return, not both. *)
LEMMA OneReturner ==
  ASSUME SingleReturner, NEW t \in Threads, NEW r \in Regions, NEW i \in duty[t][r]
  PROVE  (Booking(i) <=> book[t][r]) /\ (Returning(i) <=> ~book[t][r])
<1>1. \A u \in Threads, q \in Regions : i \in duty[u][q] => u = t /\ q = r
  BY DEF SingleReturner
<1>2. QED
  BY <1>1, Zenon DEF Booking, Returning

(***************************************************************************)
(* A step that changes no allocation's state or donor, no duty, no booking *)
(* and no region's map but for what has no donor changes no loan.          *)
(***************************************************************************)
LEMMA LoanFrame ==
  ASSUME LoanKept, Lifecycle',
         UNCHANGED <<nextId, duty, book, exited>>,
         \A i \in Ids : /\ alloc'[i].state = alloc[i].state
                        /\ alloc'[i].donor_info = alloc[i].donor_info,
         \A r \in Regions : \A i \in Ids :
           alloc[i].donor_info # NoRegion =>
             (i \in region'[r].allocations <=> i \in region[r].allocations),
         \A t \in Threads : pc[t] = "donors" =>
           pc'[t] = "donors" \/ \A r \in Regions : duty[t][r] = {},
         \A c \in Consumers : req'[c].left <= MaxRequestSize
  PROVE  LoanKept' /\ UNCHANGED Loan!loanVars
<1>1. Ids' = Ids
  BY DEF Ids
<1>2. \A i \in Ids : alloc[i].donor_info \in Regions \cup {NoRegion}
  BY DEF LoanKept, Lifecycle, WellFormed, TypeOK, Allocation
<1>3. \A i \in Ids : (Booking(i)' <=> Booking(i)) /\ (Returning(i)' <=> Returning(i))
  BY DEF Booking, Returning
<1>4. \A i \in Ids : LoanPhase(i)' = LoanPhase(i)
  BY <1>2, <1>3, PhaseFrame
<1>5. UNCHANGED Loan!loanVars
  BY <1>4, SameLoans
<1>6. BookingIsDue'
  BY DEF LoanKept, BookingIsDue
<1>7. DutyIsTracked'
  <2>1. SUFFICES ASSUME NEW t \in Threads, NEW r \in Regions, NEW i \in duty[t][r]
                 PROVE  i \in region'[r].allocations
    BY DEF DutyIsTracked
  <2>2. i \in Ids /\ i \in region[r].allocations /\ alloc[i].donor_info = r
    BY DEF LoanKept, DutyIsTracked, Lifecycle, WellFormed, TypeOK, DutyIsAbandoned
  <2>3. QED
    BY <2>2, AllocationAssumption DEF NoRegion
<1>8. PendingHasNoDonor'
  BY <1>1 DEF LoanKept, PendingHasNoDonor
<1>9. QED
  BY <1>5, <1>6, <1>7, <1>8 DEF LoanKept, RequestIsBounded

-----------------------------------------------------------------------------
(***************************************************************************)
(* The request thread.                                                     *)
(***************************************************************************)

(* What a request has left to reserve only changes while it reserves. *)
LEMMA LeftKept ==
  ASSUME TypeOK, NEW c \in Consumers, RequestStep(c), ~ReserveContig(c)
  PROVE  \A b \in Consumers : req'[b].left = req[b].left \/ req'[b].left = 0
<1>1. req \in [Consumers -> Request]
  BY DEF TypeOK
<1>2. NoRequest.left = 0
  BY DEF NoRequest
<1> DEFINE Kept == \A b \in Consumers : req'[b].left = req[b].left \/ req'[b].left = 0
<1>3. CASE InnerSkip(c)
  BY <1>1, <1>3 DEF InnerSkip, Request
<1>4. CASE InnerTake(c)
  <2>1. PICK r, ids : req' = [req EXCEPT ![c].region = r, ![c].chunk = ids]
    BY <1>4 DEF InnerTake
  <2>2. QED
    BY <1>1, <2>1 DEF Request
<1>5. CASE Donate(c)
  <2>1. PICK g : req' = [req EXCEPT ![c].granted = g]
    BY <1>5 DEF Donate
  <2>2. QED
    BY <1>1, <2>1 DEF Request
<1>6. CASE Confirm(c)
  <2>1. PICK ids, n : req' = [req EXCEPT ![c].chunk = ids, ![c].granted = 0, ![c].give_back = n]
    BY <1>6 DEF Confirm
  <2>2. QED
    BY <1>1, <2>1 DEF Request
<1>7. CASE GiveBack(c)
  BY <1>1, <1>7 DEF GiveBack, Request
<1>8. CASE CommitOne(c)
  <2>1. PICK i : req' = [req EXCEPT ![c].chunk = @ \ {i}, ![c].unbacked = @ \ {i}]
    BY <1>8 DEF CommitOne
  <2>2. QED
    BY <1>1, <2>1 DEF Request
<1>9. CASE CommitDone(c)
  BY <1>1, <1>9 DEF CommitDone, Request
<1>10. CASE UnbackedDone(c)
  BY <1>1, <1>10 DEF UnbackedDone, Request
<1>11. CASE Retain(c)
  BY <1>1, <1>11 DEF Retain, Request
<1>12. CASE Partition(c)
  <2>1. PICK rest, live :
          req' = req \/ req' = [req EXCEPT ![c].rsvd = rest, ![c].live = live]
    BY <1>12 DEF Partition
  <2>2. QED
    BY <1>1, <2>1 DEF Request
<1>13. CASE PartitionDone(c)
  BY <1>1, <1>13 DEF PartitionDone, Request
<1>14. CASE InnerNone(c) \/ Unbacked(c) \/ WaitAdd(c)
  BY <1>14 DEF InnerNone, Unbacked, WaitAdd
<1>15. CASE RetainNone(c) \/ AddCapacity(c) \/ Respond(c)
  <2>1. req' = req \/ req' = [req EXCEPT ![c] = NoRequest]
    BY <1>15 DEF RetainNone, AddCapacity, Respond
  <2>2. QED
    BY <1>1, <1>2, <2>1
<1>16. QED
  BY <1>3, <1>4, <1>5, <1>6, <1>7, <1>8, <1>9, <1>10, <1>11, <1>12, <1>13, <1>14, <1>15
  DEF RequestStep

(* The steps of a request thread that touch no loan. *)
LEMMA RequestLoans ==
  ASSUME LoanKept, Lifecycle', NEW c \in Consumers, RequestStep(c),
         ~ReserveContig(c), ~CommitOne(c)
  PROVE  LoanKept' /\ UNCHANGED Loan!loanVars
<1>1. /\ req \in [Consumers -> Request] /\ region \in [Regions -> Region]
      /\ TypeOK /\ c \in Threads /\ NoRegion \notin Regions
  BY AllocationAssumption DEF LoanKept, Lifecycle, WellFormed, TypeOK, Threads, NoRegion
<1>2. UNCHANGED <<alloc, nextId, duty, book, exited>>
  BY DEF RequestStep, InnerSkip, InnerTake, InnerNone, Donate, Confirm, GiveBack, CommitDone,
         Unbacked, UnbackedDone, Retain, RetainNone, AddCapacity, WaitAdd, Partition,
         PartitionDone, Respond, allocVars
<1>3. pc[c] # "donors"
  BY DEF RequestStep, InnerSkip, InnerTake, InnerNone, Donate, Confirm, GiveBack, CommitDone,
         Unbacked, UnbackedDone, Retain, RetainNone, AddCapacity, WaitAdd, Partition,
         PartitionDone, Respond
<1>4. \A t \in Threads \ {c} : pc'[t] = pc[t]
  BY <1>1, RequestControl
<1>5. \A b \in Consumers : req'[b].left <= MaxRequestSize
  <2>1. \A b \in Consumers : req'[b].left = req[b].left \/ req'[b].left = 0
    BY <1>1, LeftKept
  <2>2. MaxRequestSize \in Nat
    BY OrchestratorAssumption
  <2>3. QED
    BY <2>1, <2>2 DEF LoanKept, RequestIsBounded
<1>6. ASSUME NEW r \in Regions, NEW i \in Ids, alloc[i].donor_info # NoRegion
      PROVE  i \in region'[r].allocations <=> i \in region[r].allocations
  <2>1. i \notin req[c].unbacked \cup req[c].chunk
    BY <1>6 DEF LoanKept, Lifecycle, PendingIsUncommitted, MayCommit
  <2>2. CASE InnerTake(c)
    <3>1. PICK q \in Regions, chunk \in SUBSET req[c].unbacked :
            region' = [region EXCEPT ![q] = Reserve(@, chunk)]
      BY <2>2 DEF InnerTake, Lowest
    <3>2. Reserve(region[q], chunk).allocations = region[q].allocations \cup chunk
      BY <1>1 DEF Reserve, Region
    <3>3. QED
      BY <1>1, <2>1, <3>1, <3>2
  <2>3. CASE Confirm(c)
    <3> DEFINE q    == req[c].region
               conf == Confirmed(region[q], req[c].chunk, req[c].granted)
               left == handle_reserved_alloc(region[q], req[c].chunk, req[c].granted)
    <3>1. region' = [region EXCEPT ![q] = left] /\ q \in Regions
      BY <1>1, <2>3 DEF Confirm, LoanKept, Lifecycle, WellFormed, RegionIsKnown, Request
    <3>2. left.allocations = region[q].allocations \ (req[c].chunk \ conf)
      BY <1>1, <3>1 DEF handle_reserved_alloc, Region
    <3> HIDE DEF left, conf
    <3>3. QED
      BY <1>1, <2>1, <3>1, <3>2
  <2>4. CASE ~InnerTake(c) /\ ~Confirm(c)
    <3>1. UNCHANGED region
      BY <2>4 DEF RequestStep, InnerSkip, InnerNone, Donate, GiveBack, CommitDone,
         Unbacked, UnbackedDone, Retain, RetainNone, AddCapacity, WaitAdd, Partition,
         PartitionDone, Respond, allocVars
    <3>2. QED
      BY <3>1
  <2>5. QED
    BY <2>2, <2>3, <2>4
<1>7. \A t \in Threads : pc[t] = "donors" => pc'[t] = "donors"
  BY <1>3, <1>4
<1>8. QED
  BY <1>2, <1>5, <1>6, <1>7, LoanFrame

(* A reservation asks for as many granules as it takes slots. *)
LEMMA AsksForLoans ==
  ASSUME LoanKept, Lifecycle', NEW c \in Consumers, ReserveContig(c)
  PROVE  LoanKept' /\ [Loan!Next]_(Loan!loanVars)
<1>1. PICK lo, hi \in 0..NumSlots :
        ContigRun(c) = <<lo, hi>> /\ lo <= hi /\ hi - lo <= req[c].left
  BY ReserveRun DEF LoanKept, Lifecycle, WellFormed
<1> DEFINE n == hi - lo
<1>2. /\ req \in [Consumers -> Request] /\ pc \in [Threads -> Labels] /\ nextId \in Nat \ {0}
      /\ alloc \in [Ids -> Allocation] /\ duty \in [Threads -> [Regions -> SUBSET Ids]]
      /\ c \in Threads /\ MaxRequestSize \in Nat /\ NumSlots \in Nat
  BY OrchestratorAssumption, AllocationAssumption
  DEF LoanKept, Lifecycle, WellFormed, TypeOK, Threads
<1>3. n \in Nat /\ n <= MaxRequestSize
  <2>1. req[c].left <= MaxRequestSize /\ req[c].left \in Nat
    BY <1>2 DEF LoanKept, RequestIsBounded, Request
  <2>2. QED
    BY <1>1, <1>2, <2>1
<1>4. /\ nextId' = nextId + n
      /\ alloc' = [i \in 1..(nextId + n - 1) |->
                     IF i < nextId THEN alloc[i] ELSE NewAllocation(c, lo + (i - nextId))]
      /\ UNCHANGED <<region, duty, book, exited>>
  BY <1>1 DEF ReserveContig
<1>5. Ids = 1..(nextId - 1) /\ Ids' = 1..(nextId + n - 1)
  BY <1>2, <1>3, <1>4 DEF Ids
<1> HIDE DEF n
<1>6. \A i \in Ids : i \in Ids' /\ alloc'[i] = alloc[i]
  BY <1>2, <1>3, <1>4, <1>5
<1>7. \A i \in Ids' \ Ids : alloc'[i].state = "PendingCommit" /\ alloc'[i].donor_info = 0
  BY <1>2, <1>3, <1>4, <1>5 DEF NewAllocation, NoRegion
<1>8. \A i \in Ids : LoanPhase(i)' = LoanPhase(i)
  <2>1. \A i : (Booking(i)' <=> Booking(i)) /\ (Returning(i)' <=> Returning(i))
    BY <1>4 DEF Booking, Returning
  <2>2. QED
    BY <1>4, <1>6, <2>1, PhaseFrame
<1>9. \A i \in Ids' \ Ids : LoanPhase(i)' = "asked"
  BY <1>7 DEF LoanPhase
<1>10. LoanKept'
  <2>1. /\ \A t \in Threads \ {c} : pc'[t] = pc[t]
        /\ pc[c] = "reserve"
    BY <1>2 DEF ReserveContig, Goto
  <2>2. BookingIsDue' /\ DutyIsTracked'
    BY <1>4, <2>1 DEF LoanKept, BookingIsDue, DutyIsTracked
  <2>3. RequestIsBounded'
    <3> DEFINE ended == n = 0 \/ n = req[c].left
               rsvd  == req[c].rsvd \cup (nextId..(nextId + n - 1))
               left  == IF ended THEN 0 ELSE req[c].left - n
    <3>1. req' = [req EXCEPT ![c] = IF ended /\ rsvd = {} THEN NoRequest
                    ELSE [req[c] EXCEPT !.left = left, !.rsvd = rsvd, !.unbacked = rsvd]]
      BY <1>1 DEF ReserveContig, n
    <3>2. left \in Nat /\ left <= MaxRequestSize
      BY <1>1, <1>2, <1>3 DEF LoanKept, RequestIsBounded, Request, n
    <3>3. NoRequest.left = 0
      BY DEF NoRequest
    <3> HIDE DEF ended, rsvd, left
    <3>4. req'[c].left <= MaxRequestSize
      BY <1>2, <3>1, <3>2, <3>3 DEF Request
    <3>5. \A b \in Consumers \ {c} : req'[b].left = req[b].left
      BY <1>2, <3>1
    <3>6. QED
      BY <3>4, <3>5 DEF LoanKept, RequestIsBounded
  <2>4. PendingHasNoDonor'
    BY <1>6, <1>7 DEF LoanKept, PendingHasNoDonor, NoRegion
  <2>5. QED
    BY <2>2, <2>3, <2>4 DEF LoanKept
<1>11. CASE n = 0
  <2>1. Ids' = Ids /\ nextId' = nextId
    BY <1>2, <1>4, <1>5, <1>11
  <2>2. UNCHANGED Loan!loanVars
    BY <1>4, <1>6, <1>8, <2>1, SameLoans
  <2>3. QED
    BY <1>10, <2>2
<1>12. CASE n # 0
  <2>1. n \in 1..MaxRequestSize
    BY <1>2, <1>3, <1>12
  <2>2. Ids' = 1..(nextId - 1 + n) /\ (nextId - 1)' = nextId - 1 + n
    BY <1>2, <1>3, <1>4, <1>5
  <2>3. [i \in Ids |-> LoanPhase(i)]' =
          [i \in 1..(nextId - 1 + n) |-> IF i \in Ids THEN LoanPhase(i) ELSE "asked"]
    BY <1>8, <1>9, <2>2
  <2>4. [i \in Ids |-> alloc[i].donor_info]' =
          [i \in 1..(nextId - 1 + n) |-> IF i \in Ids THEN alloc[i].donor_info ELSE 0]
    BY <1>6, <1>7, <2>2
  <2>5. UNCHANGED exited
    BY <1>4
  <2>6. Loan!Ask
    BY <2>1, <2>2, <2>3, <2>4, <2>5 DEF Loan!Ask, Loan!Ids, Ids
  <2>7. QED
    BY <1>10, <2>6 DEF Loan!Next
<1>13. QED
  BY <1>11, <1>12

(* A commit lends the granule; if it was abandoned it is to be returned. *)
LEMMA CommitLends ==
  ASSUME LoanKept, Lifecycle', NEW c \in Consumers, CommitOne(c)
  PROVE  LoanKept' /\ [Loan!Next]_(Loan!loanVars)
<1>1. /\ req \in [Consumers -> Request] /\ alloc \in [Ids -> Allocation]
      /\ duty \in [Threads -> [Regions -> SUBSET Ids]] /\ book \in [Threads -> [Regions -> BOOLEAN]]
      /\ c \in Threads
  BY DEF LoanKept, Lifecycle, WellFormed, TypeOK, Threads
<1>r. PICK r \in Regions : r = req[c].region
  BY <1>1 DEF CommitOne, LoanKept, Lifecycle, WellFormed, RegionIsKnown, Request
<1>2. NoRegion \notin Regions /\ NoRegion = 0
  BY AllocationAssumption DEF NoRegion
<1>3. PICK i \in req[c].chunk :
        /\ MayCommit(alloc[i])
        /\ alloc' = [alloc EXCEPT ![i] = commit_allocation(@, r)]
        /\ duty' = IF alloc[i].state = "Abandoned"
                   THEN [duty EXCEPT ![c][r] = @ \cup {i}] ELSE duty
  BY <1>r DEF CommitOne
<1>4. /\ Ids' = Ids /\ UNCHANGED <<nextId, region, pc, book, exited>> /\ pc[c] = "commit"
      /\ i \in Ids
  BY <1>1 DEF CommitOne, Ids, Request
<1>5. /\ \A j \in Ids \ {i} : alloc'[j] = alloc[j]
      /\ alloc'[i].donor_info = r /\ alloc[i].donor_info = NoRegion
      /\ \/ alloc[i].state = "PendingCommit" /\ alloc'[i].state = "Committed"
         \/ alloc[i].state = "Abandoned" /\ alloc'[i].state = "Abandoned"
  BY <1>1, <1>3, <1>4 DEF commit_allocation, Allocation, MayCommit
<1>6. \A t \in Threads, q \in Regions :
        duty'[t][q] = IF t = c /\ q = r /\ alloc[i].state = "Abandoned"
                      THEN duty[t][q] \cup {i} ELSE duty[t][q]
  BY <1>1, <1>2, <1>3
<1>7. ~book[c][r]
  BY <1>2, <1>1, <1>4 DEF LoanKept, BookingIsDue
<1>8. \A j \in Ids \ {i} : LoanPhase(j)' = LoanPhase(j)
  <2>1. ASSUME NEW j \in Ids \ {i}
        PROVE  (Booking(j)' <=> Booking(j)) /\ (Returning(j)' <=> Returning(j))
    <3>1. \A t \in Threads, q \in Regions : j \in duty'[t][q] <=> j \in duty[t][q]
      BY <1>6, <2>1
    <3>2. QED
      BY <1>4, <3>1, Zenon DEF Booking, Returning
  <2>2. QED
    BY <1>4, <1>5, <2>1, PhaseFrame
<1>9. /\ alloc[i].state = "PendingCommit" => LoanPhase(i) = "asked" /\ LoanPhase(i)' = "lent"
      /\ alloc[i].state = "Abandoned" =>
           LoanPhase(i) = "cancelled" /\ LoanPhase(i)' = "returning"
  <2>1. CASE alloc[i].state = "PendingCommit"
    BY <1>5, <2>1 DEF LoanPhase
  <2>2. CASE alloc[i].state = "Abandoned"
    <3>1. i \in duty'[c][r] /\ ~book'[c][r]
      BY <1>1, <1>2, <1>4, <1>6, <1>7, <2>2
    <3>2. (~Booking(i) /\ Returning(i))'
      <4>1. SingleReturner'
        BY DEF Lifecycle
      <4>2. \A u \in Threads, q \in Regions : i \in duty'[u][q] => u = c /\ q = r
        BY <1>1, <1>2, <3>1, <4>1 DEF SingleReturner
      <4>3. QED
        BY <1>1, <1>2, <3>1, <4>2, Zenon DEF Booking, Returning
    <3>3. QED
      BY <1>2, <1>5, <2>2, <3>2 DEF LoanPhase
  <2>3. QED
    BY <2>1, <2>2
<1>10. [j \in Ids |-> alloc[j].donor_info]' = [[j \in Ids |-> alloc[j].donor_info] EXCEPT ![i] = r]
  BY <1>4, <1>5
<1>11. Loan!Lend(i, r)
  <2>1. Loan!Moves(i, {"asked"}, "lent") \/ Loan!Moves(i, {"cancelled"}, "returning")
    BY <1>4, <1>5, <1>8, <1>9, OneMoves
  <2>2. QED
    BY <1>2, <1>4, <1>5, <1>10, <2>1 DEF Loan!Lend
<1>12. LoanKept'
  <2>1. BookingIsDue'
    BY <1>4, <1>6 DEF LoanKept, BookingIsDue
  <2>2. DutyIsTracked'
    <3>1. i \in region[r].allocations
      BY <1>4, <1>r DEF LoanKept, Lifecycle, ChunkIsTracked
    <3>2. SUFFICES ASSUME NEW t \in Threads, NEW q \in Regions, NEW j \in duty'[t][q]
                   PROVE  j \in region[q].allocations
      BY <1>4 DEF DutyIsTracked
    <3>3. j \in duty[t][q] \/ (j = i /\ q = r)
      BY <1>6, <3>2
    <3>4. QED
      BY <3>1, <3>3 DEF LoanKept, DutyIsTracked
  <2>3. RequestIsBounded'
    <3>1. RequestStep(c) /\ ~ReserveContig(c)
      BY <1>4 DEF RequestStep, ReserveContig
    <3>2. \A b \in Consumers : req'[b].left = req[b].left \/ req'[b].left = 0
      BY <3>1, LeftKept DEF LoanKept, Lifecycle, WellFormed
    <3>3. MaxRequestSize \in Nat
      BY OrchestratorAssumption
    <3>4. QED
      BY <3>2, <3>3 DEF LoanKept, RequestIsBounded
  <2>4. PendingHasNoDonor'
    BY <1>4, <1>5 DEF LoanKept, PendingHasNoDonor
  <2>5. QED
    BY <2>1, <2>2, <2>3, <2>4 DEF LoanKept
<1>13. i \in Loan!Ids
  BY <1>4 DEF Loan!Ids, Ids
<1>14. Loan!Next
  <2>1. \E q \in Regions : Loan!Lend(i, q)
    BY <1>11
  <2>2. QED
    BY <1>13, <2>1 DEF Loan!Next
<1>15. QED
  BY <1>12, <1>14

-----------------------------------------------------------------------------
(***************************************************************************)
(* The return of allocations.                                              *)
(***************************************************************************)

(* An allocation is abandoned: its request is cancelled, its memory is to  *)
(* go back to its lender, or it is lost with the lender.                   *)
LEMMA OrganizeGivesUp ==
  ASSUME LoanKept, Lifecycle', NEW t \in Threads, OrganizeOne(t)
  PROVE  LoanKept' /\ [Loan!Next]_(Loan!loanVars)
<1>1. /\ alloc \in [Ids -> Allocation] /\ duty \in [Threads -> [Regions -> SUBSET Ids]]
      /\ book \in [Threads -> [Regions -> BOOLEAN]] /\ todo[t] \subseteq Ids
      /\ NoRegion \notin Regions
  BY AllocationAssumption DEF LoanKept, Lifecycle, WellFormed, TypeOK, NoRegion
<1>2. PICK i \in todo[t] :
        /\ alloc' = [alloc EXCEPT ![i] = abandon(@)]
        /\ duty' = IF TakesDonor(alloc[i]) /\ DonorOf[alloc[i].donor_info] \notin exited
                   THEN [duty EXCEPT ![t][alloc[i].donor_info] = @ \cup {i}] ELSE duty
  BY DEF OrganizeOne
<1> DEFINE d     == alloc[i].donor_info
           taken == TakesDonor(alloc[i]) /\ DonorOf[d] \notin exited
<1>3. /\ Ids' = Ids /\ UNCHANGED <<nextId, region, pc, req, book, exited>> /\ i \in Ids
      /\ pc[t] = "organize"
  BY <1>1 DEF OrganizeOne, Ids
<1>4. /\ \A j \in Ids \ {i} : alloc'[j] = alloc[j]
      /\ alloc'[i].state = "Abandoned" /\ alloc'[i].donor_info = d
      /\ d \in Regions \cup {NoRegion} /\ alloc[i].state \in AllocState
  BY <1>1, <1>2, <1>3 DEF abandon, Allocation
<1>5. TakesDonor(alloc[i]) =>
        /\ alloc[i].state # "Abandoned" /\ d \in Regions /\ i \in region[d].allocations
        /\ \A u \in Threads, q \in Regions : i \notin duty[u][q]
  BY <1>3, <1>4 DEF TakesDonor, LoanKept, Lifecycle, CommittedIsTracked, DutyIsAbandoned
<1>6. \A u \in Threads, q \in Regions :
        duty'[u][q] = IF u = t /\ q = d /\ taken THEN duty[u][q] \cup {i} ELSE duty[u][q]
  BY <1>1, <1>2, <1>5
<1> HIDE DEF d, taken
<1>7. \A j \in Ids \ {i} : LoanPhase(j)' = LoanPhase(j)
  <2>1. ASSUME NEW j \in Ids \ {i}
        PROVE  (Booking(j)' <=> Booking(j)) /\ (Returning(j)' <=> Returning(j))
    <3>1. \A u \in Threads, q \in Regions : j \in duty'[u][q] <=> j \in duty[u][q]
      BY <1>6, <2>1
    <3>2. QED
      BY <1>3, <3>1, Zenon DEF Booking, Returning
  <2>2. QED
    BY <1>3, <1>4, <2>1, PhaseFrame
<1>8. \A j \in Ids : alloc'[j].donor_info = alloc[j].donor_info
  BY <1>4 DEF d
<1>9. [j \in Ids |-> alloc[j].donor_info]' = [j \in Ids |-> alloc[j].donor_info]
  BY <1>3, <1>8
<1>10. LoanKept'
  <2>1. BookingIsDue'
    BY <1>3, <1>6 DEF LoanKept, BookingIsDue
  <2>2. DutyIsTracked'
    <3>1. SUFFICES ASSUME NEW u \in Threads, NEW q \in Regions, NEW j \in duty'[u][q]
                   PROVE  j \in region[q].allocations
      BY <1>3 DEF DutyIsTracked
    <3>2. j \in duty[u][q] \/ (j = i /\ q = d /\ taken)
      BY <1>6, <3>1
    <3>3. QED
      BY <1>5, <3>2 DEF LoanKept, DutyIsTracked, taken
  <2>3. PendingHasNoDonor'
    BY <1>3, <1>4 DEF LoanKept, PendingHasNoDonor
  <2>4. QED
    BY <1>3, <2>1, <2>2, <2>3 DEF LoanKept, RequestIsBounded
<1>11. i \in Loan!Ids
  BY <1>3 DEF Loan!Ids, Ids
<1>12. CASE taken
  <2>1. d \in Regions /\ i \in duty'[t][d] /\ ~book'[t][d]
    BY <1>1, <1>3, <1>5, <1>6, <1>12 DEF LoanKept, BookingIsDue, taken
  <2>2. (~Booking(i) /\ Returning(i))'
    <3>1. SingleReturner'
      BY DEF Lifecycle
    <3>2. \A u \in Threads, q \in Regions : i \in duty'[u][q] => u = t /\ q = d
      BY <2>1, <3>1 DEF SingleReturner
    <3>3. QED
      BY <2>1, <3>2, Zenon DEF Booking, Returning
  <2>3. LoanPhase(i) \in {"lent", "recalled"} /\ LoanPhase(i)' = "returning"
    <3>1. LoanPhase(i)' = "returning"
      BY <1>1, <1>4, <2>1, <2>2 DEF LoanPhase
    <3>2. LoanPhase(i) \in {"lent", "recalled"}
      BY <1>12 DEF LoanPhase, taken, TakesDonor
    <3>3. QED
      BY <3>1, <3>2
  <2>4. Loan!GiveUp(i)
    BY <1>3, <1>7, <1>9, <2>3, OneMoves DEF Loan!GiveUp
  <2>5. QED
    BY <1>10, <1>11, <2>4 DEF Loan!Next
<1>13. CASE TakesDonor(alloc[i]) /\ ~taken
  <2>1. \A u \in Threads, q \in Regions : i \notin duty'[u][q]
    BY <1>5, <1>6, <1>13
  <2>2. (~Booking(i) /\ ~Returning(i))'
    BY <2>1 DEF Booking, Returning
  <2>3. LoanPhase(i)' = "lost"
    BY <1>1, <1>3, <1>4, <1>5, <1>13, <2>2 DEF LoanPhase
  <2>4. LoanPhase(i) \in {"lent", "recalled"}
    BY <1>13 DEF LoanPhase, TakesDonor
  <2>5. Loan!Moves(i, {"lent", "recalled"}, "lost")
    BY <1>3, <1>7, <2>3, <2>4, OneMoves
  <2>6. d \in { r \in Regions : DonorOf[r] \in exited }
    BY <1>5, <1>13 DEF taken
  <2>7. Loan!Lose(i)
    BY <1>3, <1>9, <1>11, <2>5, <2>6 DEF Loan!Lose, d
  <2>8. QED
    BY <1>10, <1>11, <2>7 DEF Loan!Next
<1>14. CASE alloc[i].state = "PendingCommit"
  <2>1. d = NoRegion
    BY <1>3, <1>14 DEF LoanKept, PendingHasNoDonor, d
  <2>2. LoanPhase(i) = "asked" /\ LoanPhase(i)' = "cancelled"
    BY <1>4, <1>14, <2>1 DEF LoanPhase
  <2>3. Loan!Cancel(i)
    BY <1>3, <1>7, <1>9, <2>2, OneMoves DEF Loan!Cancel
  <2>4. QED
    BY <1>10, <1>11, <2>3 DEF Loan!Next
<1>15. CASE alloc[i].state = "Abandoned"
  <2>1. \A u \in Threads, q \in Regions : duty'[u][q] = duty[u][q]
    BY <1>5, <1>6, <1>15 DEF taken
  <2>2. (Booking(i)' <=> Booking(i)) /\ (Returning(i)' <=> Returning(i))
    BY <1>3, <2>1, Zenon DEF Booking, Returning
  <2>3. LoanPhase(i)' = LoanPhase(i)
    BY <1>3, <1>4, <1>15, <2>2, PhaseFrame DEF d
  <2>4. UNCHANGED Loan!loanVars
    BY <1>3, <1>7, <1>8, <2>3, SameLoans
  <2>5. QED
    BY <1>10, <2>4
<1>16. QED
  BY <1>4, <1>12, <1>13, <1>14, <1>15 DEF AllocState, TakesDonor

(* eph-mem-return-capacity: what a thread has to return goes back to the   *)
(* lender together, or is lost when the command fails.                     *)
LEMMA DonQmpReturns ==
  ASSUME LoanKept, Lifecycle', NEW t \in Threads, NEW r \in Regions, DonQmp(t, r)
  PROVE  LoanKept' /\ [Loan!Next]_(Loan!loanVars)
<1>1. /\ duty \in [Threads -> [Regions -> SUBSET Ids]] /\ book \in [Threads -> [Regions -> BOOLEAN]]
      /\ NoRegion \notin Regions
  BY AllocationAssumption DEF LoanKept, Lifecycle, WellFormed, TypeOK, NoRegion
<1>2. PICK S : S = duty[t][r]
  OBVIOUS
<1>3. /\ S # {} /\ S \subseteq Ids /\ ~book[t][r] /\ pc[t] = "donors"
      /\ UNCHANGED <<alloc, nextId, region, exited, pc, req>> /\ Ids' = Ids
  BY <1>1, <1>2 DEF DonQmp, allocVars, Ids
<1>4. \A i \in S : /\ alloc[i].state = "Abandoned" /\ alloc[i].donor_info = r
                    /\ i \in region[r].allocations /\ ~Booking(i) /\ Returning(i)
  BY <1>2, <1>3, OneReturner
  DEF LoanKept, Lifecycle, DutyIsAbandoned, DutyIsTracked
<1>5. \A i \in S : LoanPhase(i) = "returning"
  BY <1>1, <1>4 DEF LoanPhase
<1>6. PICK to \in {"returned", "lost"} :
        /\ to = "returned" => /\ UNCHANGED duty
                              /\ book' = [book EXCEPT ![t][r] = TRUE]
        /\ to = "lost" => /\ UNCHANGED book
                          /\ duty' = [duty EXCEPT ![t][r] = {}]
  BY DEF DonQmp
<1>7. \A u \in Threads, q \in Regions : u # t \/ q # r =>
        duty'[u][q] = duty[u][q] /\ book'[u][q] = book[u][q]
  BY <1>1, <1>6
<1>8. /\ to = "returned" => duty'[t][r] = S /\ book'[t][r]
      /\ to = "lost" => duty'[t][r] = {} /\ ~book'[t][r]
  BY <1>1, <1>2, <1>3, <1>6
<1>9. \A i \in Ids \ S : LoanPhase(i)' = LoanPhase(i)
  <2>1. ASSUME NEW i \in Ids \ S
        PROVE  (Booking(i)' <=> Booking(i)) /\ (Returning(i)' <=> Returning(i))
    <3>1. i \notin duty[t][r] /\ i \notin duty'[t][r]
      BY <1>2, <1>8, <2>1
    <3>2. QED
      BY <1>7, <3>1, Zenon DEF Booking, Returning
  <2>2. QED
    BY <1>3, <2>1, PhaseFrame
<1>10. \A i \in S : LoanPhase(i)' = to
  <2>1. SUFFICES ASSUME NEW i \in S PROVE LoanPhase(i)' = to
    OBVIOUS
  <2>2. \A u \in Threads, q \in Regions : i \in duty[u][q] => u = t /\ q = r
    BY <1>2 DEF LoanKept, Lifecycle, SingleReturner
  <2>3. CASE to = "returned"
    <3>1. i \in duty'[t][r] /\ book'[t][r]
      BY <1>8, <2>3
    <3>2. Booking(i)'
      BY <3>1 DEF Booking
    <3>3. QED
      BY <1>1, <1>3, <1>4, <2>3, <3>2 DEF LoanPhase
  <2>4. CASE to = "lost"
    <3>1. \A u \in Threads, q \in Regions : i \notin duty'[u][q]
      BY <1>7, <1>8, <2>2, <2>4
    <3>2. ~Booking(i)' /\ ~Returning(i)'
      BY <3>1 DEF Booking, Returning
    <3>3. QED
      BY <1>1, <1>3, <1>4, <2>4, <3>2 DEF LoanPhase
  <2>5. QED
    BY <2>3, <2>4
<1>11. [i \in Ids |-> LoanPhase(i)]' = [i \in Ids |-> IF i \in S THEN to ELSE LoanPhase(i)]
  BY <1>3, <1>9, <1>10
<1>12. [i \in Ids |-> alloc[i].donor_info]' = [i \in Ids |-> alloc[i].donor_info]
  BY <1>3
<1>13. Loan!Return(S)
  <2>1. \A i, j \in S : /\ [k \in Ids |-> LoanPhase(k)][i] = "returning"
                        /\ [k \in Ids |-> alloc[k].donor_info][i]
                             = [k \in Ids |-> alloc[k].donor_info][j]
    BY <1>3, <1>4, <1>5
  <2>2. [i \in Ids |-> LoanPhase(i)]' =
          [i \in Loan!Ids |-> IF i \in S THEN to ELSE [k \in Ids |-> LoanPhase(k)][i]]
    BY <1>11 DEF Loan!Ids, Ids
  <2>3. QED
    BY <1>3, <1>12, <2>1, <2>2 DEF Loan!Return
<1>14. LoanKept'
  <2>1. BookingIsDue'
    <3>1. SUFFICES ASSUME NEW u \in Threads, NEW q \in Regions, book'[u][q]
                   PROVE  pc[u] = "donors" /\ duty'[u][q] # {}
      BY <1>3 DEF BookingIsDue
    <3>2. CASE u = t /\ q = r
      BY <1>3, <1>8, <3>1, <3>2
    <3>3. CASE u # t \/ q # r
      BY <1>7, <3>1, <3>3 DEF LoanKept, BookingIsDue
    <3>4. QED
      BY <3>2, <3>3
  <2>2. \A u \in Threads, q \in Regions : duty'[u][q] \subseteq duty[u][q]
    BY <1>2, <1>7, <1>8
  <2>3. DutyIsTracked'
    BY <1>3, <2>2 DEF LoanKept, DutyIsTracked
  <2>4. QED
    BY <1>3, <2>1, <2>3 DEF LoanKept, RequestIsBounded, PendingHasNoDonor
<1>15. S \in SUBSET Loan!Ids
  BY <1>3 DEF Loan!Ids, Ids
<1>16. QED
  BY <1>13, <1>14, <1>15 DEF Loan!Next

(* bookkeep_returned_eph_memory settles the loan. *)
LEMMA DonBookSettles ==
  ASSUME LoanKept, Lifecycle', NEW t \in Threads, NEW r \in Regions, DonBook(t, r)
  PROVE  LoanKept' /\ [Loan!Next]_(Loan!loanVars)
<1>1. /\ duty \in [Threads -> [Regions -> SUBSET Ids]] /\ book \in [Threads -> [Regions -> BOOLEAN]]
      /\ region \in [Regions -> Region] /\ NoRegion \notin Regions
  BY AllocationAssumption DEF LoanKept, Lifecycle, WellFormed, TypeOK, NoRegion
<1>2. PICK i \in duty[t][r] :
        /\ region' = [region EXCEPT ![r] = bookkeep_returned_eph_memory(@, i)]
        /\ duty' = [duty EXCEPT ![t][r] = @ \ {i}]
        /\ book' = [book EXCEPT ![t][r] = duty[t][r] # {i}]
  BY DEF DonBook
<1>3. /\ i \in Ids /\ book[t][r] /\ Ids' = Ids
      /\ UNCHANGED <<alloc, nextId, exited, pc, req>>
  BY <1>1 DEF DonBook, Ids
<1>4. /\ \A u \in Threads, q \in Regions : u # t \/ q # r =>
           duty'[u][q] = duty[u][q] /\ book'[u][q] = book[u][q]
      /\ duty'[t][r] = duty[t][r] \ {i} /\ book'[t][r] = (duty[t][r] # {i})
  BY <1>1, <1>2
<1>5. /\ \A q \in Regions \ {r} : region'[q] = region[q]
      /\ region'[r].allocations = region[r].allocations \ {i}
  <2>1. bookkeep_returned_eph_memory(region[r], i).allocations = region[r].allocations \ {i}
    BY <1>1 DEF bookkeep_returned_eph_memory, Region
  <2>2. QED
    BY <1>1, <1>2, <2>1
<1>6. /\ alloc[i].state = "Abandoned" /\ alloc[i].donor_info = r
      /\ \A u \in Threads, q \in Regions : i \in duty[u][q] => u = t /\ q = r
  BY DEF LoanKept, Lifecycle, DutyIsAbandoned, SingleReturner
<1>7. \A j \in Ids \ {i} : LoanPhase(j)' = LoanPhase(j)
  <2>1. SUFFICES ASSUME NEW j \in Ids \ {i} PROVE LoanPhase(j)' = LoanPhase(j)
    OBVIOUS
  <2>2. j \in duty[t][r] => book'[t][r] /\ j \in duty'[t][r]
    BY <1>4, <2>1
  <2>3. \A u \in Threads, q \in Regions :
          /\ j \in duty'[u][q] <=> j \in duty[u][q]
          /\ j \in duty[u][q] => (book'[u][q] <=> book[u][q])
    BY <1>3, <1>4, <2>1, <2>2
  <2>4. (Booking(j)' <=> Booking(j)) /\ (Returning(j)' <=> Returning(j))
    BY <2>3, Zenon DEF Booking, Returning
  <2>5. \A q \in Regions : j \in region'[q].allocations <=> j \in region[q].allocations
    BY <1>5, <2>1
  <2>6. alloc[j].donor_info \in Regions \cup {NoRegion}
    BY DEF LoanKept, Lifecycle, WellFormed, TypeOK, Allocation
  <2>7. QED
    BY <1>3, <2>4, <2>5, <2>6, PhaseFrame
<1>8. LoanPhase(i) = "returned" /\ LoanPhase(i)' = "settled"
  <2>1. Booking(i)
    BY <1>3 DEF Booking
  <2>2. LoanPhase(i) = "returned"
    BY <1>1, <1>6, <2>1 DEF LoanPhase
  <2>3. \A u \in Threads, q \in Regions : i \notin duty'[u][q]
    BY <1>4, <1>6
  <2>4. ~Booking(i)' /\ ~Returning(i)'
    BY <2>3 DEF Booking, Returning
  <2>5. LoanPhase(i)' = "settled"
    BY <1>1, <1>3, <1>5, <1>6, <2>4 DEF LoanPhase
  <2>6. QED
    BY <2>2, <2>5
<1>9. Loan!Settle(i)
  <2>1. [j \in Ids |-> alloc[j].donor_info]' = [j \in Ids |-> alloc[j].donor_info]
    BY <1>3
  <2>2. QED
    BY <1>3, <1>7, <1>8, <2>1, OneMoves DEF Loan!Settle
<1>10. LoanKept'
  <2>1. BookingIsDue'
    <3>1. SUFFICES ASSUME NEW u \in Threads, NEW q \in Regions, book'[u][q]
                   PROVE  pc[u] = "donors" /\ duty'[u][q] # {}
      BY <1>3 DEF BookingIsDue
    <3>2. CASE u = t /\ q = r
      BY <1>3, <1>4, <3>1, <3>2 DEF LoanKept, BookingIsDue
    <3>3. CASE u # t \/ q # r
      BY <1>4, <3>1, <3>3 DEF LoanKept, BookingIsDue
    <3>4. QED
      BY <3>2, <3>3
  <2>2. DutyIsTracked'
    <3>1. SUFFICES ASSUME NEW u \in Threads, NEW q \in Regions, NEW j \in duty'[u][q]
                   PROVE  j \in region'[q].allocations
      BY DEF DutyIsTracked
    <3>2. j \in duty[u][q] /\ j # i
      BY <1>4, <1>6, <3>1
    <3>3. QED
      BY <1>5, <3>2 DEF LoanKept, DutyIsTracked
  <2>3. QED
    BY <1>3, <2>1, <2>2 DEF LoanKept, RequestIsBounded, PendingHasNoDonor
<1>11. i \in Loan!Ids
  BY <1>3 DEF Loan!Ids, Ids
<1>12. QED
  BY <1>9, <1>10, <1>11 DEF Loan!Next

(* return_eph_memory_from_consumer is a sequence of steps of the loans. *)
LEMMA ReturnLoans ==
  ASSUME LoanKept, Lifecycle', NEW t \in Threads, ReturnStep(t)
  PROVE  LoanKept' /\ [Loan!Next]_(Loan!loanVars)
<1>1. CASE OrganizeOne(t)
  BY <1>1, OrganizeGivesUp
<1>2. ASSUME NEW r \in Regions, DonQmp(t, r) \/ DonBook(t, r)
      PROVE  LoanKept' /\ [Loan!Next]_(Loan!loanVars)
  BY <1>2, DonQmpReturns, DonBookSettles
<1> DEFINE Release == \E c \in Consumers : \/ RelClaim(t, c) \/ RelQmp(t, c)
                                           \/ RelWait(t, c) \/ RelRemove(t, c)
<1>3. CASE OrganizeDone(t) \/ ConsumersDone(t) \/ DonorsDone(t) \/ Release
  <2>1. UNCHANGED <<nextId, region, duty, book, exited, req>>
    BY <1>3 DEF OrganizeDone, ConsumersDone, DonorsDone, RelClaim, RelQmp, RelWait, RelRemove,
                allocVars
  <2>2. \A i \in Ids : /\ alloc'[i].state = alloc[i].state
                       /\ alloc'[i].donor_info = alloc[i].donor_info
    <3>1. \A i \in Ids : \/ alloc'[i] = alloc[i]
                         \/ alloc'[i] = [alloc[i] EXCEPT !.release_requested = TRUE]
      BY <1>3 DEF OrganizeDone, ConsumersDone, DonorsDone, RelClaim, RelQmp, RelWait, RelRemove,
                  allocVars
    <3>2. alloc \in [Ids -> Allocation]
      BY DEF LoanKept, Lifecycle, WellFormed, TypeOK
    <3>3. QED
      BY <3>1, <3>2 DEF Allocation
  <2>3. \A u \in Threads : pc[u] = "donors" =>
          pc'[u] = "donors" \/ \A r \in Regions : duty[u][r] = {}
    <3>1. pc \in [Threads -> Labels]
      BY DEF LoanKept, Lifecycle, WellFormed, TypeOK
    <3>2. \/ UNCHANGED pc
          \/ /\ pc' = [pc EXCEPT ![t] = "consumers"] \/ pc' = [pc EXCEPT ![t] = "donors"]
             /\ pc[t] # "donors"
          \/ pc' = [pc EXCEPT ![t] = cont[t]] /\ \A r \in Regions : duty[t][r] = {}
      BY <1>3 DEF OrganizeDone, ConsumersDone, DonorsDone, RelClaim, RelQmp, RelWait,
                  RelRemove, Goto
    <3>3. QED
      BY <3>1, <3>2
  <2>4. \A c \in Consumers : req'[c].left <= MaxRequestSize
    BY <2>1 DEF LoanKept, RequestIsBounded
  <2>5. QED
    BY <2>1, <2>2, <2>3, <2>4, LoanFrame
<1>4. QED
  BY <1>1, <1>2, <1>3 DEF ReturnStep

-----------------------------------------------------------------------------
(***************************************************************************)
(* The other threads and the environment.                                  *)
(***************************************************************************)

(* try_claim_for_revoke recalls a loan; the rest of a revoke changes none. *)
LEMMA RevokeRecalls ==
  ASSUME LoanKept, Lifecycle', NEW t \in Revokers, RevokeStep(t)
  PROVE  LoanKept' /\ [Loan!Next]_(Loan!loanVars)
<1>1. /\ pc \in [Threads -> Labels] /\ t \in Threads /\ region \in [Regions -> Region]
      /\ alloc \in [Ids -> Allocation] /\ scan[t] \subseteq Ids
  BY DEF LoanKept, Lifecycle, WellFormed, TypeOK, Threads
<1>2. /\ UNCHANGED <<nextId, duty, book, exited, req>>
      /\ \A u \in Threads : pc[u] = "donors" => pc'[u] = "donors"
  <2>1. UNCHANGED <<nextId, duty, book, exited, req>>
    BY DEF RevokeStep, RevokeLock, RevokeSelect, RevokeReturn, allocVars
  <2>2. /\ pc[t] # "donors"
        /\ \A u \in Threads \ {t} : pc'[u] = pc[u]
    BY <1>1 DEF RevokeStep, RevokeLock, RevokeSelect, RevokeReturn, Goto, CallReturn
  <2>3. QED
    BY <2>1, <2>2
<1>3. \A r \in Regions : region'[r].allocations = region[r].allocations
  BY <1>1 DEF RevokeStep, RevokeLock, RevokeSelect, RevokeReturn, OweRest, Region, allocVars
<1>4. \A c \in Consumers : req'[c].left <= MaxRequestSize
  BY <1>2 DEF LoanKept, RequestIsBounded
<1>5. CASE UNCHANGED alloc
  BY <1>2, <1>3, <1>4, <1>5, LoanFrame
<1>6. CASE ~UNCHANGED alloc
  <2>1. PICK i \in Ids :
          is_committed(alloc[i]) /\ alloc' = [alloc EXCEPT ![i] = try_claim_for_revoke(@)]
    BY <1>1, <1>6 DEF RevokeStep, RevokeLock, RevokeSelect, RevokeReturn, allocVars
  <2>2. /\ \A j \in Ids \ {i} : alloc'[j] = alloc[j]
        /\ alloc[i].state = "Committed" /\ alloc'[i].state = "PendingRelease"
        /\ alloc'[i].donor_info = alloc[i].donor_info
    BY <1>1, <2>1 DEF is_committed, try_claim_for_revoke, Allocation
  <2>3. \A j \in Ids \ {i} : LoanPhase(j)' = LoanPhase(j)
    <3>1. \A j \in Ids : (Booking(j)' <=> Booking(j)) /\ (Returning(j)' <=> Returning(j))
      BY <1>2 DEF Booking, Returning
    <3>2. \A j \in Ids : alloc[j].donor_info \in Regions \cup {NoRegion}
      BY <1>1 DEF Allocation
    <3>3. QED
      BY <1>3, <2>2, <3>1, <3>2, PhaseFrame
  <2>4. LoanPhase(i) = "lent" /\ LoanPhase(i)' = "recalled"
    BY <2>2 DEF LoanPhase
  <2>5. Ids' = Ids
    BY <1>2 DEF Ids
  <2>6. Loan!Recall(i)
    <3>1. [j \in Ids |-> alloc[j].donor_info]' = [j \in Ids |-> alloc[j].donor_info]
      BY <2>2, <2>5
    <3>2. QED
      BY <1>2, <2>3, <2>4, <3>1, OneMoves DEF Loan!Recall
  <2>7. LoanKept'
    <3>1. BookingIsDue' /\ DutyIsTracked' /\ RequestIsBounded'
      BY <1>2, <1>3 DEF LoanKept, BookingIsDue, DutyIsTracked, RequestIsBounded
    <3>2. PendingHasNoDonor'
      BY <2>2, <2>5 DEF LoanKept, PendingHasNoDonor
    <3>3. QED
      BY <3>1, <3>2 DEF LoanKept
  <2>8. i \in Loan!Ids
    BY DEF Loan!Ids, Ids
  <2>9. QED
    BY <2>6, <2>7, <2>8 DEF Loan!Next
<1>7. QED
  BY <1>5, <1>6

(* set_exited: the lender is gone; the rest of a removal changes no loan. *)
LEMMA DetectorLoans ==
  ASSUME LoanKept, Lifecycle', DetectorStep
  PROVE  LoanKept' /\ [Loan!Next]_(Loan!loanVars)
<1>1. /\ UNCHANGED <<alloc, nextId, region, duty, book, req>>
      /\ \A u \in Threads : pc[u] = "donors" => pc'[u] = "donors"
  <2>1. UNCHANGED <<alloc, nextId, region, duty, book, req>>
    BY DEF DetectorStep, DetRemove, DetExited, DetConsumer, DetDonor, DetSelect, DetReturn,
           allocVars
  <2>2. pc \in [Threads -> Labels] /\ Detector \in Threads
    BY DEF LoanKept, Lifecycle, WellFormed, TypeOK, Threads
  <2>3. /\ pc[Detector] # "donors"
        /\ \A u \in Threads \ {Detector} : pc'[u] = pc[u]
    BY <2>2 DEF DetectorStep, DetRemove, DetExited, DetConsumer, DetDonor, DetSelect,
                DetReturn, Goto, CallReturn
  <2>4. QED
    BY <2>1, <2>2, <2>3
<1>2. \A c \in Consumers : req'[c].left <= MaxRequestSize
  BY <1>1 DEF LoanKept, RequestIsBounded
<1>3. CASE UNCHANGED exited
  BY <1>1, <1>2, <1>3, LoanFrame
<1>4. CASE ~UNCHANGED exited
  <2>1. PICK v : exited' = exited \cup {v}
    BY <1>4 DEF DetectorStep, DetRemove, DetExited, DetConsumer, DetDonor, DetSelect,
                DetReturn, allocVars
  <2>2. PICK S \in SUBSET Regions : S = { r \in Regions : DonorOf[r] = v }
    OBVIOUS
  <2>3. { r \in Regions : DonorOf[r] \in exited }' = { r \in Regions : DonorOf[r] \in exited } \cup S
    BY <2>1, <2>2
  <2>4. Ids' = Ids
    BY <1>1 DEF Ids
  <2>5. \A i : (Booking(i)' <=> Booking(i)) /\ (Returning(i)' <=> Returning(i))
    BY <1>1 DEF Booking, Returning
  <2>6. \A i \in Ids : LoanPhase(i)' = LoanPhase(i)
    BY <1>1, <2>5, PhaseFrame
  <2>7. Loan!Leave(S)
    <3>1. [i \in Ids |-> LoanPhase(i)]' = [i \in Ids |-> LoanPhase(i)]
      BY <2>4, <2>6
    <3>2. [i \in Ids |-> alloc[i].donor_info]' = [i \in Ids |-> alloc[i].donor_info]
      BY <1>1, <2>4
    <3>3. QED
      BY <1>1, <2>3, <3>1, <3>2 DEF Loan!Leave
  <2>8. LoanKept'
    BY <1>1, <2>4
    DEF LoanKept, BookingIsDue, DutyIsTracked, RequestIsBounded, PendingHasNoDonor
  <2>9. QED
    BY <2>7, <2>8 DEF Loan!Next
<1>5. QED
  BY <1>3, <1>4

(* The event thread and the VMs change no loan. *)
LEMMA EnvironmentLoans ==
  ASSUME LoanKept, Lifecycle', EventStep \/ Environment \/ UNCHANGED vars
  PROVE  LoanKept' /\ UNCHANGED Loan!loanVars
<1>1. /\ pc \in [Threads -> Labels] /\ req \in [Consumers -> Request]
      /\ alloc \in [Ids -> Allocation] /\ Consumers \subseteq Threads /\ MaxRequestSize \in Nat
  BY OrchestratorAssumption DEF LoanKept, Lifecycle, WellFormed, TypeOK, Threads
<1>2. UNCHANGED <<nextId, region, duty, book, exited>>
  BY DEF EventStep, EvtTake, EvtAdd, EvtGap, EvtRelease, Environment, RequestArrives, GuestAdds,
         GuestReleases, DonorRevokes, VmExits, vars, allocVars, threadVars
<1>3. \A i \in Ids : /\ alloc'[i].state = alloc[i].state
                     /\ alloc'[i].donor_info = alloc[i].donor_info
  <2>1. SUFFICES ASSUME NEW i \in Ids
                 PROVE  /\ alloc'[i].state = alloc[i].state
                        /\ alloc'[i].donor_info = alloc[i].donor_info
    OBVIOUS
  <2>2. alloc'[i] = alloc[i] \/ alloc'[i] = [alloc[i] EXCEPT !.dcd_set = TRUE]
    BY DEF EventStep, EvtTake, EvtAdd, EvtGap, EvtRelease, Environment, RequestArrives,
           GuestAdds, GuestReleases, DonorRevokes, VmExits, vars, allocVars, threadVars
  <2>3. alloc[i] \in Allocation
    BY <1>1
  <2>4. QED
    BY <2>2, <2>3 DEF Allocation
<1>4. \A u \in Threads : pc[u] = "donors" => pc'[u] = "donors"
  <2>1. \/ UNCHANGED pc
        \/ \E t \in Threads, l \in Labels : pc[t] # "donors" /\ pc' = [pc EXCEPT ![t] = l]
    <3>1. CASE EventStep
      <4>1. \/ UNCHANGED pc
            \/ \E t \in Revokers : pc[t] = "unused" /\ pc' = [pc EXCEPT ![t] = "revoke"]
        BY <3>1 DEF EventStep, EvtTake, EvtAdd, EvtGap, EvtRelease, Goto
      <4>2. QED
        BY <4>1 DEF Labels, Threads
    <3>2. CASE Environment
      <4>1. \/ UNCHANGED pc
            \/ \E c \in Consumers : pc[c] = "idle" /\ pc' = [pc EXCEPT ![c] = "reserve"]
        BY <3>2 DEF Environment, RequestArrives, GuestAdds, GuestReleases, DonorRevokes, VmExits,
                    Goto, threadVars
      <4>2. QED
        BY <1>1, <4>1 DEF Labels
    <3>3. CASE UNCHANGED vars
      BY <3>3 DEF vars, threadVars
    <3>4. QED
      BY <3>1, <3>2, <3>3
  <2>2. QED
    BY <1>1, <2>1
<1>5. \A c \in Consumers : req'[c].left <= MaxRequestSize
  <2>1. \/ UNCHANGED req
        \/ \E c \in Consumers, n \in 1..MaxRequestSize :
             req' = [req EXCEPT ![c] = [NoRequest EXCEPT !.left = n]]
    BY DEF EventStep, EvtTake, EvtAdd, EvtGap, EvtRelease, Environment, RequestArrives,
           GuestAdds, GuestReleases, DonorRevokes, VmExits, vars, threadVars
  <2>2. \A n \in 1..MaxRequestSize : [NoRequest EXCEPT !.left = n].left <= MaxRequestSize
    BY <1>1 DEF NoRequest
  <2>3. \A c \in Consumers : req[c].left <= MaxRequestSize
    BY DEF LoanKept, RequestIsBounded
  <2>4. QED
    BY <1>1, <2>1, <2>2, <2>3
<1>6. QED
  BY <1>2, <1>3, <1>4, <1>5, LoanFrame

-----------------------------------------------------------------------------
(* Initially nothing is asked for. *)
LEMMA InitLoans ==
  ASSUME Init PROVE LoanKept /\ Loan!Init
<1>1. Lifecycle /\ Ids = {} /\ nextId = 1 /\ exited = {}
  BY InitLifecycle DEF Init, Ids
<1>2. BookingIsDue /\ DutyIsTracked
  BY DEF Init, BookingIsDue, DutyIsTracked
<1>3. RequestIsBounded
  <2>1. \A c \in Consumers : req[c].left = 0
    BY DEF Init, NoRequest
  <2>2. 0 <= MaxRequestSize
    BY OrchestratorAssumption
  <2>3. QED
    BY <2>1, <2>2 DEF RequestIsBounded
<1>4. [i \in Ids |-> LoanPhase(i)] = <<>> /\ [i \in Ids |-> alloc[i].donor_info] = <<>>
  BY <1>1
<1>5. Loan!Init
  BY <1>1, <1>4 DEF Loan!Init
<1>6. QED
  BY <1>1, <1>2, <1>3, <1>5 DEF LoanKept, PendingHasNoDonor

(* Every step of the system is a step of the loans, or changes none. *)
LEMMA NextLoans ==
  ASSUME LoanKept, [Next]_vars
  PROVE  LoanKept' /\ [Loan!Next]_(Loan!loanVars)
<1>1. Lifecycle'
  BY NextLifecycle DEF LoanKept
<1>2. ASSUME NEW c \in Consumers, RequestStep(c)
      PROVE  LoanKept' /\ [Loan!Next]_(Loan!loanVars)
  BY <1>1, <1>2, RequestLoans, AsksForLoans, CommitLends
<1>3. QED
  BY <1>1, <1>2, ReturnLoans, RevokeRecalls, DetectorLoans, EnvironmentLoans DEF Next

(***************************************************************************)
(* The invariant of the refinement: what a thread has to return is in its  *)
(* region's map until it is booked, and only the thread that returned it   *)
(* books it.                                                               *)
(***************************************************************************)
THEOREM LoanKeptAlways == Spec => []LoanKept
<1>1. Init => LoanKept
  BY InitLoans
<1>2. LoanKept /\ [Next]_vars => LoanKept'
  BY NextLoans
<1>3. QED
  BY <1>1, <1>2, PTL DEF Spec

(***************************************************************************)
(* The orchestrator implements MemoryLoan: whatever its threads, the       *)
(* hypervisors and the exits of VMs do, each granule is lent by one        *)
(* region, recalled at most once and returned exactly once, or lost        *)
(* because its lender exited or a command failed.                          *)
(***************************************************************************)
THEOREM LoansAreHonouredAlways == Spec => LoansAreHonoured
<1>1. Init => LoanKept /\ Loan!Init
  BY InitLoans
<1>2. LoanKept /\ [Next]_vars => LoanKept' /\ [Loan!Next]_(Loan!loanVars)
  BY NextLoans
<1>3. QED
  BY <1>1, <1>2, PTL DEF Spec, LoansAreHonoured, Loan!Spec
=============================================================================
