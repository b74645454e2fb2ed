--------------------------- MODULE PfTraceProofs ---------------------------
(***************************************************************************)
(* The page-fault tracers report each fault with its own start and type,   *)
(* and keep an entry no longer than its fault, for any number of threads   *)
(* and processes and any sizes of the map and the ring buffer.             *)
(*                                                                         *)
(* ReportIsOwnFault is not inductive: what is sent is read from the map,   *)
(* so the map's entry of a traced thread inside the probed function has to *)
(* be that of its fault.  A traced thread overwrites its entry at each     *)
(* fault.  One that begins its fault while another process is traced keeps *)
(* an old entry, but is traced at its return only if the trace moved.      *)
(***************************************************************************)
EXTENDS PfTrace, FiniteSetTheorems, TLAPS

(* Only threads of processes that are or were traced have entries. *)
EntriesAreTraced ==
  \A t \in DOMAIN fault_events : trace_tgid # 0 /\ (Traced(t) \/ Tgid[t] \in displaced)

(* A thread about to write trace_tgid began its fault before any entry. *)
SettersHaveNone ==
  \A t \in Threads : current[t].at = "set" => t \notin DOMAIN fault_events

(* The entry of a traced thread inside the probed function is that of its  *)
(* fault, if the trace did not move since the fault began.                 *)
EntryIsCurrent ==
  \A t \in DOMAIN fault_events : current[t].at = "in" /\ current[t].steady /\ Traced(t) =>
    /\ fault_events[t].start = current[t].number
    /\ fault_events[t].type = current[t].type

Tracing == /\ TypeOK /\ EntriesAreTraced /\ SettersHaveNone /\ EntryIsCurrent
           /\ EntryEndsWithFault /\ ReportIsOwnFault

(* What a thread stores replaces its entry or, in a full map, is lost. *)
LEMMA UpdatedMap ==
  ASSUME TypeOK, NEW t \in Threads, NEW e \in Entry
  PROVE  LET f == Updated(t, e) IN
         /\ f \in [DOMAIN f -> Entry]
         /\ DOMAIN f \subseteq DOMAIN fault_events \cup {t}
         /\ DOMAIN f \subseteq Threads
         /\ IsFiniteSet(DOMAIN f) /\ Cardinality(DOMAIN f) <= MaxEntries
         /\ \A u \in DOMAIN f : u # t => u \in DOMAIN fault_events /\ f[u] = fault_events[u]
         /\ t \in DOMAIN f => f[t] = e
<1> DEFINE D == DOMAIN fault_events
           g == [u \in D \cup {t} |-> IF u = t THEN e ELSE fault_events[u]]
<1>1. /\ D \subseteq Threads /\ IsFiniteSet(D) /\ Cardinality(D) <= MaxEntries
      /\ fault_events \in [D -> Entry]
  BY DEF TypeOK
<1>2. CASE t \in D \/ Cardinality(D) < MaxEntries
  <2>1. Updated(t, e) = g
    BY <1>2 DEF Updated
  <2>2. IsFiniteSet(D \cup {t}) /\ Cardinality(D \cup {t}) <= MaxEntries
    <3>1. /\ IsFiniteSet(D \cup {t})
          /\ Cardinality(D \cup {t}) = IF t \in D THEN Cardinality(D) ELSE Cardinality(D) + 1
      BY <1>1, FS_AddElement
    <3>2. Cardinality(D) \in Nat
      BY <1>1, FS_CardinalityType
    <3>3. MaxEntries \in Nat
      BY PfAssumption
    <3> QED
      BY <1>1, <1>2, <3>1, <3>2, <3>3
  <2>3. g \in [D \cup {t} -> Entry] /\ DOMAIN g = D \cup {t}
    BY <1>1
  <2>4. \A u \in D \cup {t} : g[u] = IF u = t THEN e ELSE fault_events[u]
    OBVIOUS
  <2> QED
    BY <1>1, <2>1, <2>2, <2>3, <2>4
<1>3. CASE ~(t \in D \/ Cardinality(D) < MaxEntries)
  <2>1. Updated(t, e) = fault_events
    BY <1>3 DEF Updated
  <2> QED
    BY <1>1, <1>3, <2>1
<1> QED
  BY <1>2, <1>3

(* What is left of the map when a thread's entry is deleted. *)
LEMMA CleanupMap ==
  ASSUME TypeOK, NEW t \in Threads
  PROVE  /\ Cleanup(t) \in [DOMAIN Cleanup(t) -> Entry]
         /\ DOMAIN Cleanup(t) = DOMAIN fault_events \ {t}
         /\ IsFiniteSet(DOMAIN Cleanup(t)) /\ Cardinality(DOMAIN Cleanup(t)) <= MaxEntries
         /\ \A u \in DOMAIN Cleanup(t) : Cleanup(t)[u] = fault_events[u]
<1> DEFINE D == DOMAIN fault_events
<1>1. /\ IsFiniteSet(D) /\ Cardinality(D) <= MaxEntries /\ fault_events \in [D -> Entry]
  BY DEF TypeOK
<1>2. DOMAIN Cleanup(t) = D \ {t} /\ \A u \in D \ {t} : Cleanup(t)[u] = fault_events[u]
  BY DEF Cleanup
<1>3. Cleanup(t) \in [D \ {t} -> Entry]
  BY <1>1 DEF Cleanup
<1>4. IsFiniteSet(D \ {t}) /\ Cardinality(D \ {t}) <= Cardinality(D)
  BY <1>1, FS_Subset
<1>5. Cardinality(D) \in Nat /\ Cardinality(D \ {t}) \in Nat /\ MaxEntries \in Nat
  BY <1>1, <1>4, FS_CardinalityType, PfAssumption
<1> QED
  BY <1>1, <1>2, <1>3, <1>4, <1>5

LEMMA TracingInit == Init => Tracing
<1> SUFFICES ASSUME Init PROVE Tracing
  OBVIOUS
<1>1. DOMAIN fault_events = {} /\ fault_events \in [{} -> Entry]
  BY DEF Init
<1>2. IsFiniteSet({}) /\ Cardinality({}) = 0
  BY FS_EmptySet
<1>3. current \in [Threads -> Fault] /\ \A t \in Threads : current[t].at = "out"
  BY DEF Init, NoFault, Fault, Types
<1>4. trace_tgid \in Nat /\ faults \in Nat
  BY PfAssumption DEF Init, Processes
<1>5. rb = <<>> /\ rb \in Seq([event : Entry, fault : Fault]) /\ Len(rb) = 0
  BY DEF Init
<1>6. TypeOK
  BY <1>1, <1>2, <1>3, <1>4, <1>5, PfAssumption DEF TypeOK
<1> QED
  BY <1>1, <1>3, <1>5, <1>6
  DEF Tracing, EntriesAreTraced, SettersHaveNone, EntryIsCurrent, EntryEndsWithFault, ReportIsOwnFault

LEMMA ReportsKept ==
  ASSUME Tracing, rb' = rb
  PROVE  ReportIsOwnFault'
BY DEF Tracing, ReportIsOwnFault

(***************************************************************************)
(* One lemma for each step.                                                *)
(***************************************************************************)
LEMMA FaultBeginsKeeps ==
  ASSUME Tracing, NEW t \in Threads, FaultBegins(t)
  PROVE  Tracing'
<1>1. TypeOK /\ EntriesAreTraced /\ SettersHaveNone /\ EntryIsCurrent /\ EntryEndsWithFault
  BY DEF Tracing
<1>2. faults' = faults + 1 /\ UNCHANGED <<tracer, named, trace_tgid, rb, missed, displaced>>
  BY DEF FaultBegins
<1> DEFINE found == trace_tgid = 0 /\ HasName(t)
<1>3. PICK type \in FirstType :
        /\ current' = [current EXCEPT ![t] =
              [number |-> faults + 1, type |-> type, at |-> IF found THEN "set" ELSE "in",
               steady |-> TRUE]]
        /\ fault_events' = IF trace_tgid # 0 /\ Traced(t)
                           THEN Updated(t, [start |-> faults + 1, type |-> type])
                           ELSE fault_events
  BY DEF FaultBegins
<1> DEFINE new == [number |-> faults + 1, type |-> type, at |-> IF found THEN "set" ELSE "in",
                   steady |-> TRUE]
           e == [start |-> faults + 1, type |-> type]
<1>4. type \in Types /\ faults + 1 \in Nat
  BY <1>1 DEF FirstType, Types, TypeOK
<1>5. new \in Fault /\ e \in Entry
  BY <1>4 DEF Fault, Entry
<1>6. /\ current' \in [Threads -> Fault] /\ current'[t] = new
      /\ \A u \in Threads : u # t => current'[u] = current[u]
  BY <1>1, <1>3, <1>5 DEF TypeOK
<1> HIDE DEF new, e
<1>7. /\ new.number = faults + 1 /\ new.type = type
      /\ new.at = IF found THEN "set" ELSE "in"
      /\ e.start = faults + 1 /\ e.type = type
  BY DEF new, e
<1>8. CASE trace_tgid # 0 /\ Traced(t)
  <2>1. fault_events' = Updated(t, e) /\ new.at = "in"
    BY <1>3, <1>7, <1>8 DEF e
  <2>2. /\ fault_events' \in [DOMAIN fault_events' -> Entry]
        /\ DOMAIN fault_events' \subseteq DOMAIN fault_events \cup {t}
        /\ DOMAIN fault_events' \subseteq Threads
        /\ IsFiniteSet(DOMAIN fault_events') /\ Cardinality(DOMAIN fault_events') <= MaxEntries
        /\ \A u \in DOMAIN fault_events' :
             u # t => u \in DOMAIN fault_events /\ fault_events'[u] = fault_events[u]
        /\ t \in DOMAIN fault_events' => fault_events'[t] = e
    BY <1>1, <1>5, <2>1, UpdatedMap
  <2>3. TypeOK'
    BY <1>1, <1>2, <1>4, <1>6, <2>2 DEF TypeOK
  <2>4. EntriesAreTraced'
    BY <1>1, <1>2, <1>8, <2>2 DEF EntriesAreTraced, Traced
  <2>5. SettersHaveNone'
    BY <1>1, <1>2, <1>6, <2>1, <2>2 DEF SettersHaveNone
  <2>6. EntryIsCurrent'
    BY <1>1, <1>2, <1>6, <1>7, <2>2 DEF EntryIsCurrent, Traced
  <2>7. EntryEndsWithFault'
    BY <1>1, <1>2, <1>6, <1>7, <2>2 DEF EntryEndsWithFault
  <2> QED
    BY <1>2, <2>3, <2>4, <2>5, <2>6, <2>7, ReportsKept DEF Tracing
<1>9. CASE ~(trace_tgid # 0 /\ Traced(t))
  <2>1. /\ fault_events' = fault_events
        /\ t \in DOMAIN fault_events => trace_tgid # 0 /\ Tgid[t] \in displaced
    BY <1>1, <1>3, <1>9 DEF EntriesAreTraced
  <2>2. TypeOK'
    BY <1>1, <1>2, <1>4, <1>6, <2>1 DEF TypeOK
  <2>3. EntriesAreTraced'
    BY <1>1, <1>2, <2>1 DEF EntriesAreTraced, Traced
  <2>4. SettersHaveNone'
    BY <1>1, <1>2, <1>6, <1>7, <2>1 DEF SettersHaveNone
  <2>5. EntryIsCurrent'
    BY <1>1, <1>2, <1>6, <1>9, <2>1 DEF EntryIsCurrent, Traced, TypeOK
  <2>6. EntryEndsWithFault'
    BY <1>1, <1>2, <1>6, <2>1 DEF EntryEndsWithFault, TypeOK
  <2> QED
    BY <1>2, <2>2, <2>3, <2>4, <2>5, <2>6, ReportsKept DEF Tracing
<1> QED
  BY <1>8, <1>9

LEMMA SetTgidKeeps ==
  ASSUME Tracing, NEW t \in Threads, SetTgid(t)
  PROVE  Tracing'
<1> DEFINE displaces == trace_tgid \notin {0, Tgid[t]}
<1>1. TypeOK /\ EntriesAreTraced /\ SettersHaveNone /\ EntryIsCurrent /\ EntryEndsWithFault
  BY DEF Tracing
<1>2. /\ current[t].at = "set" /\ trace_tgid' = Tgid[t]
      /\ UNCHANGED <<tracer, named, fault_events, rb, faults, missed>>
      /\ current' = [u \in Threads |->
            [current[u] EXCEPT !.at = IF u = t THEN "in" ELSE @,
                               !.steady = @ /\ (displaces => current[u].at = "out")]]
      /\ displaced' = IF displaces THEN displaced \cup {trace_tgid} ELSE displaced
  BY DEF SetTgid
<1>3. \A u \in Threads :
        /\ current'[u] \in Fault
        /\ current'[u].number = current[u].number /\ current'[u].type = current[u].type
        /\ current'[u].at = IF u = t THEN "in" ELSE current[u].at
        /\ current'[u].steady => current[u].steady
        /\ displaces /\ current[u].at # "out" => ~current'[u].steady
  <2> SUFFICES ASSUME NEW u \in Threads
               PROVE  /\ current'[u] \in Fault
                      /\ current'[u].number = current[u].number
                      /\ current'[u].type = current[u].type
                      /\ current'[u].at = IF u = t THEN "in" ELSE current[u].at
                      /\ current'[u].steady => current[u].steady
                      /\ displaces /\ current[u].at # "out" => ~current'[u].steady
    OBVIOUS
  <2> DEFINE b == current[u].steady /\ (displaces => current[u].at = "out")
             f == [current[u] EXCEPT !.at = IF u = t THEN "in" ELSE @, !.steady = b]
  <2>1. current[u] \in Fault /\ b \in BOOLEAN
    BY <1>1 DEF TypeOK, Fault
  <2>2. current'[u] = f
    BY <1>2
  <2> HIDE DEF b
  <2>3. /\ f \in Fault /\ f.number = current[u].number /\ f.type = current[u].type
        /\ f.at = IF u = t THEN "in" ELSE current[u].at
        /\ f.steady = b
    BY <2>1 DEF Fault
  <2> QED
    BY <2>2, <2>3 DEF b
<1>4. t \notin DOMAIN fault_events /\ DOMAIN fault_events \subseteq Threads
  BY <1>1, <1>2 DEF SettersHaveNone, TypeOK
<1>5. Tgid[t] \in Nat \ {0}
  BY PfAssumption
<1>6. TypeOK'
  <2>1. current' \in [Threads -> Fault]
    BY <1>2, <1>3
  <2> QED
    BY <1>1, <1>2, <1>5, <2>1 DEF TypeOK
<1>7. EntriesAreTraced'
  BY <1>1, <1>2, <1>5 DEF EntriesAreTraced, Traced
<1>8. SettersHaveNone'
  <2> SUFFICES ASSUME NEW u \in Threads, current'[u].at = "set" PROVE u \notin DOMAIN fault_events
    BY <1>2 DEF SettersHaveNone
  <2>1. u # t
    BY <1>3
  <2>2. current[u].at = "set"
    BY <1>3, <2>1
  <2> QED
    BY <1>1, <2>2 DEF SettersHaveNone
<1>9. EntryIsCurrent'
  <2> SUFFICES ASSUME NEW u \in DOMAIN fault_events,
                      current'[u].at = "in", current'[u].steady, Tgid[u] = trace_tgid'
               PROVE  /\ fault_events[u].start = current'[u].number
                      /\ fault_events[u].type = current'[u].type
    BY <1>2 DEF EntryIsCurrent, Traced
  <2>1. u \in Threads /\ u # t /\ trace_tgid # 0 /\ current[u].at = "in"
    BY <1>1, <1>3, <1>4 DEF EntriesAreTraced
  <2>2. ~displaces
    BY <1>3, <2>1
  <2>3. Traced(u)
    BY <1>2, <2>1, <2>2 DEF Traced
  <2>4. current[u].steady
    BY <1>3, <2>1
  <2> QED
    BY <1>1, <1>3, <2>1, <2>3, <2>4 DEF EntryIsCurrent
<1>10. EntryEndsWithFault'
  <2>1. displaced \subseteq displaced' /\ fault_events' = fault_events /\ missed' = missed
    BY <1>2
  <2>2. \A u \in DOMAIN fault_events : current'[u].number = current[u].number
    BY <1>3, <1>4
  <2>3. \A u \in DOMAIN fault_events :
          u \notin missed /\ Tgid[u] \notin displaced => fault_events[u].start = current[u].number
    BY <1>1 DEF EntryEndsWithFault
  <2> HIDE DEF displaces
  <2> QED
    BY <2>1, <2>2, <2>3 DEF EntryEndsWithFault
<1> QED
  BY <1>2, <1>6, <1>7, <1>8, <1>9, <1>10, ReportsKept DEF Tracing

LEMMA HugeKeeps ==
  ASSUME Tracing, NEW t \in Threads, NEW type \in {"thp", "hugetlb"}, mark_huge_fault(t, type)
  PROVE  Tracing'
<1>1. TypeOK /\ EntriesAreTraced /\ SettersHaveNone /\ EntryIsCurrent /\ EntryEndsWithFault
  BY DEF Tracing
<1>2. /\ current[t].at = "in"
      /\ UNCHANGED <<tracer, named, trace_tgid, rb, faults, missed, displaced>>
      /\ current' = [current EXCEPT ![t].type = type]
      /\ fault_events' = IF Traced(t) /\ t \in DOMAIN fault_events
                         THEN [fault_events EXCEPT ![t].type = type] ELSE fault_events
  BY DEF mark_huge_fault
<1>3. /\ current' \in [Threads -> Fault]
      /\ current'[t].at = "in" /\ current'[t].number = current[t].number /\ current'[t].type = type
      /\ current'[t].steady = current[t].steady
      /\ \A u \in Threads : u # t => current'[u] = current[u]
  BY <1>1, <1>2 DEF TypeOK, Fault, Types
<1>4. /\ DOMAIN fault_events' = DOMAIN fault_events
      /\ fault_events' \in [DOMAIN fault_events -> Entry]
      /\ \A u \in DOMAIN fault_events : u # t => fault_events'[u] = fault_events[u]
      /\ t \in DOMAIN fault_events =>
           /\ fault_events'[t].start = fault_events[t].start
           /\ Traced(t) => fault_events'[t].type = type
  <2>1. CASE Traced(t) /\ t \in DOMAIN fault_events
    <3>1. fault_events' = [fault_events EXCEPT ![t].type = type]
      BY <1>2, <2>1
    <3> QED
      BY <1>1, <2>1, <3>1 DEF TypeOK, Entry, Types
  <2>2. CASE ~(Traced(t) /\ t \in DOMAIN fault_events)
    BY <1>1, <1>2, <2>2 DEF TypeOK
  <2> QED
    BY <2>1, <2>2
<1>5. TypeOK'
  BY <1>1, <1>2, <1>3, <1>4 DEF TypeOK
<1>6. EntriesAreTraced' /\ SettersHaveNone'
  BY <1>1, <1>2, <1>3, <1>4 DEF EntriesAreTraced, SettersHaveNone, Traced, HasName
<1>7. EntryIsCurrent'
  BY <1>1, <1>2, <1>3, <1>4 DEF EntryIsCurrent, TypeOK, Traced
<1>8. EntryEndsWithFault'
  BY <1>1, <1>2, <1>3, <1>4 DEF EntryEndsWithFault, TypeOK
<1> QED
  BY <1>2, <1>5, <1>6, <1>7, <1>8 DEF Tracing, ReportIsOwnFault

LEMMA FaultEndsKeeps ==
  ASSUME Tracing, NEW t \in Threads, FaultEnds(t)
  PROVE  Tracing'
<1> DEFINE Event == [event : Entry, fault : Fault]
           sent == [event |-> fault_events[t], fault |-> current[t]]
<1>1. /\ TypeOK /\ EntriesAreTraced /\ SettersHaveNone /\ EntryIsCurrent /\ EntryEndsWithFault
      /\ ReportIsOwnFault
  BY DEF Tracing
<1>2. /\ current[t].at = "in" /\ current' = [current EXCEPT ![t] = NoFault]
      /\ UNCHANGED <<tracer, named, trace_tgid, faults, missed, displaced>>
  BY DEF FaultEnds
<1>3. /\ current' \in [Threads -> Fault] /\ current'[t].at = "out"
      /\ \A u \in Threads : u # t => current'[u] = current[u]
  BY <1>1, <1>2 DEF TypeOK, NoFault, Fault, Types
<1>4. SettersHaveNone' /\ EntriesAreTraced' /\ EntryIsCurrent' /\ EntryEndsWithFault'
      /\ fault_events' \in [DOMAIN fault_events' -> Entry]
      /\ DOMAIN fault_events' \subseteq Threads
      /\ IsFiniteSet(DOMAIN fault_events') /\ Cardinality(DOMAIN fault_events') <= MaxEntries
  <2>1. /\ DOMAIN fault_events' \subseteq DOMAIN fault_events
        /\ t \in DOMAIN fault_events' => Tgid[t] \in displaced
        /\ \A u \in DOMAIN fault_events' : fault_events'[u] = fault_events[u]
        /\ fault_events' \in [DOMAIN fault_events' -> Entry]
        /\ IsFiniteSet(DOMAIN fault_events') /\ Cardinality(DOMAIN fault_events') <= MaxEntries
    <3>1. CASE Traced(t) /\ t \in DOMAIN fault_events
      <4>1. fault_events' = Cleanup(t)
        BY <3>1 DEF FaultEnds
      <4> QED
        BY <1>1, <4>1, CleanupMap
    <3>2. CASE ~(Traced(t) /\ t \in DOMAIN fault_events)
      <4>1. fault_events' = fault_events
        BY <3>2 DEF FaultEnds
      <4> QED
        BY <1>1, <3>2, <4>1 DEF TypeOK, EntriesAreTraced
    <3> QED
      BY <3>1, <3>2
  <2>2. DOMAIN fault_events' \subseteq Threads
    BY <1>1, <2>1 DEF TypeOK
  <2>3. SettersHaveNone' /\ EntriesAreTraced'
    BY <1>1, <1>2, <1>3, <2>1 DEF SettersHaveNone, EntriesAreTraced, Traced, HasName
  <2>4. EntryIsCurrent' /\ EntryEndsWithFault'
    BY <1>1, <1>2, <1>3, <2>1, <2>2 DEF EntryIsCurrent, EntryEndsWithFault, Traced
  <2> QED
    BY <2>1, <2>2, <2>3, <2>4
<1>5. rb \in Seq(Event) /\ Len(rb) \in Nat /\ Len(rb) <= RingSize /\ RingSize \in Nat
  BY <1>1, PfAssumption DEF TypeOK
<1>6. rb' \in Seq(Event) /\ Len(rb') <= RingSize /\ ReportIsOwnFault'
  <2>1. CASE rb' = rb
    BY <1>1, <1>5, <2>1 DEF ReportIsOwnFault
  <2>2. CASE rb' # rb
    <3>1. Traced(t) /\ t \in DOMAIN fault_events /\ Len(rb) < RingSize /\ rb' = Append(rb, sent)
      BY <2>2 DEF FaultEnds, Submit
    <3>2. fault_events[t] \in Entry /\ current[t] \in Fault
      BY <1>1, <3>1 DEF TypeOK
    <3>3. /\ sent \in Event
          /\ sent.event = fault_events[t] /\ sent.fault = current[t]
      BY <3>2
    <3>4. sent.fault.steady =>
            sent.event.start = sent.fault.number /\ sent.event.type = sent.fault.type
      BY <1>1, <1>2, <3>1, <3>3 DEF EntryIsCurrent
    <3> HIDE DEF sent, Event
    <3>5. /\ rb' \in Seq(Event) /\ Len(rb') = Len(rb) + 1
          /\ DOMAIN rb = 1..Len(rb) /\ DOMAIN rb' = 1..(Len(rb) + 1)
          /\ \A i \in DOMAIN rb : rb'[i] = rb[i]
          /\ rb'[Len(rb) + 1] = sent
      BY <1>5, <3>1, <3>3
    <3>6. \A i \in DOMAIN rb' : i \in DOMAIN rb \/ i = Len(rb) + 1
      BY <1>5, <3>5
    <3>7. ReportIsOwnFault'
      BY <1>1, <3>4, <3>5, <3>6 DEF ReportIsOwnFault
    <3> QED
      BY <1>5, <3>1, <3>5, <3>7
  <2> QED
    BY <2>1, <2>2
<1>7. TypeOK'
  BY <1>1, <1>2, <1>3, <1>4, <1>6 DEF TypeOK
<1> QED
  BY <1>4, <1>6, <1>7 DEF Tracing

LEMMA MissedAndPollKeep ==
  ASSUME Tracing, Poll \/ \E t \in Threads : ReturnMissed(t)
  PROVE  Tracing'
<1>1. /\ TypeOK /\ EntriesAreTraced /\ SettersHaveNone /\ EntryIsCurrent /\ EntryEndsWithFault
      /\ ReportIsOwnFault
  BY DEF Tracing
<1>2. ASSUME NEW t \in Threads, ReturnMissed(t) PROVE Tracing'
  <2>1. /\ current' = [current EXCEPT ![t] = NoFault] /\ missed' = missed \cup {t}
        /\ UNCHANGED <<tracer, named, trace_tgid, fault_events, rb, faults, displaced>>
    BY <1>2 DEF ReturnMissed
  <2>2. /\ current' \in [Threads -> Fault] /\ current'[t].at = "out"
        /\ \A u \in Threads : u # t => current'[u] = current[u]
    BY <1>1, <2>1 DEF TypeOK, NoFault, Fault, Types
  <2>3. TypeOK'
    BY <1>1, <2>1, <2>2 DEF TypeOK
  <2>4. SettersHaveNone' /\ EntriesAreTraced'
    BY <1>1, <2>1, <2>2 DEF SettersHaveNone, EntriesAreTraced, Traced, HasName
  <2>5. EntryIsCurrent' /\ EntryEndsWithFault'
    BY <1>1, <2>1, <2>2 DEF EntryIsCurrent, EntryEndsWithFault, TypeOK, Traced
  <2> QED
    BY <1>1, <2>1, <2>3, <2>4, <2>5 DEF Tracing, ReportIsOwnFault
<1>3. CASE Poll
  <2> DEFINE Event == [event : Entry, fault : Fault]
  <2>1. /\ rb # <<>> /\ rb' = Tail(rb)
        /\ UNCHANGED <<tracer, named, trace_tgid, fault_events, faults, current, missed, displaced>>
    BY <1>3 DEF Poll
  <2>2. rb \in Seq(Event) /\ Len(rb) \in Nat /\ Len(rb) <= RingSize /\ RingSize \in Nat
    BY <1>1, PfAssumption DEF TypeOK
  <2> HIDE DEF Event
  <2>3. /\ rb' \in Seq(Event) /\ Len(rb') = Len(rb) - 1 /\ DOMAIN rb' = 1..(Len(rb) - 1)
        /\ \A i \in DOMAIN rb' : i + 1 \in DOMAIN rb /\ rb'[i] = rb[i + 1]
    BY <2>1, <2>2
  <2>4. ReportIsOwnFault' /\ Len(rb') <= RingSize
    BY <1>1, <2>2, <2>3 DEF ReportIsOwnFault
  <2>5. TypeOK'
    BY <1>1, <2>1, <2>3, <2>4 DEF TypeOK, Event
  <2> QED
    BY <1>1, <2>1, <2>4, <2>5
    DEF Tracing, SettersHaveNone, EntriesAreTraced, Traced, HasName, EntryIsCurrent, EntryEndsWithFault
<1> QED
  BY <1>2, <1>3

(* Every step keeps the invariant. *)
LEMMA TracingStep == Tracing /\ [Next]_vars => Tracing'
<1> SUFFICES ASSUME Tracing, [Next]_vars PROVE Tracing'
  OBVIOUS
<1>1. ASSUME NEW t \in Threads,
             FaultBegins(t) \/ SetTgid(t) \/ FaultEnds(t) \/ ReturnMissed(t)
      PROVE  Tracing'
  BY <1>1, FaultBeginsKeeps, SetTgidKeeps, FaultEndsKeeps, MissedAndPollKeep
<1>2. ASSUME NEW t \in Threads, NEW type \in {"thp", "hugetlb"}, mark_huge_fault(t, type)
      PROVE  Tracing'
  BY <1>2, HugeKeeps
<1>3. CASE Poll
  BY <1>3, MissedAndPollKeep
<1>4. CASE UNCHANGED vars
  BY <1>4 DEF vars, Tracing, TypeOK, SettersHaveNone, EntriesAreTraced, Traced,
              EntryIsCurrent, EntryEndsWithFault, ReportIsOwnFault
<1> QED
  BY <1>1, <1>2, <1>3, <1>4 DEF Next

(***************************************************************************)
(* Every report about a fault during which the trace did not move has its  *)
(* start and its type, whatever returns went unnoticed before and however  *)
(* many processes with the name race for trace_tgid.                       *)
(***************************************************************************)
THEOREM ReportsAlways == Spec => []ReportIsOwnFault
<1>1. Tracing => ReportIsOwnFault
  BY DEF Tracing
<1> QED
  BY <1>1, TracingInit, TracingStep, PTL DEF Spec

(***************************************************************************)
(* The map and the buffer keep within their sizes, and an entry of the map *)
(* goes with its fault: only unnoticed returns, and a trace that moved to  *)
(* another process, leave entries behind.                                  *)
(***************************************************************************)
THEOREM EntriesAlways == Spec => [](TypeOK /\ EntryEndsWithFault)
<1>1. Tracing => TypeOK /\ EntryEndsWithFault
  BY DEF Tracing
<1> QED
  BY <1>1, TracingInit, TracingStep, PTL DEF Spec
=============================================================================
