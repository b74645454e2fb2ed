------------------------------ MODULE PfTrace ------------------------------
(***************************************************************************)
(* The page-fault tracers under bpf/: a kprobe at the entry of the fault   *)
(* handler stores the time in a hash map by thread, a kretprobe at its     *)
(* return turns it into a duration and sends it to the reader.  pf_trace   *)
(* and kvm_pf_trace differ in the function they probe, in what they record *)
(* besides the time, and in that the latter knows no retried faults.       *)
(*                                                                         *)
(* Faults are numbered in the order they begin; the number stands for the  *)
(* time.  A probe runs without interruption, except that another CPU may   *)
(* run between its read of trace_tgid and its write.  External: kretprobe  *)
(* instances may run out, and then a return goes unnoticed.                *)
(*                                                                         *)
(* Any number of processes may have the name that is looked for.  The      *)
(* first one to fault is traced, and a second one whose thread read        *)
(* trace_tgid before that takes the trace away from it.  History: the      *)
(* processes that lost the trace (displaced), and whether the trace went   *)
(* from one process to another during a fault (steady).                    *)
(***************************************************************************)
EXTENDS Integers, Sequences, FiniteSets

CONSTANTS
  Threads,         (* threads of all processes                              *)
  Tgid,            (* thread -> its process, from 1                         *)
  MaxEntries,      (* max_entries of fault_events                           *)
  RingSize,        (* events that fit in rb                                 *)
  MaxFaults        (* bound: faults in a run                                *)

ASSUME PfAssumption ==
  /\ Tgid \in [Threads -> Nat \ {0}]
  /\ {MaxEntries, RingSize, MaxFaults} \subseteq Nat \ {0}

VARIABLES
  tracer,          (* "pf_trace" or "kvm_pf_trace"                          *)
  named,           (* processes whose name is target_comm                   *)
  trace_tgid,      (* process that is traced, or 0                          *)
  fault_events,    (* thread -> its entry, where it has one                 *)
  rb,              (* ring buffer                                           *)
  faults,          (* faults begun                                          *)
  current,         (* thread -> its fault: number, type, and where its kprobe is *)
  missed,          (* threads one of whose returns went unnoticed           *)
  displaced        (* processes that were traced until another one was      *)

vars == <<tracer, named, trace_tgid, fault_events, rb, faults, current, missed, displaced>>

Types == {"base", "thp", "hugetlb", "none", "guest_page", "guest_final"}
Processes == { Tgid[t] : t \in Threads }
NoFault == [number |-> 0, type |-> "none", at |-> "out", steady |-> TRUE]

(* main: the argument is a process number or a name. *)
Init ==
  /\ tracer \in {"pf_trace", "kvm_pf_trace"}
  /\ \/ trace_tgid \in Processes /\ named = {}
     \/ trace_tgid = 0 /\ named \in SUBSET Processes
  /\ fault_events = [t \in {} |-> 0] /\ rb = <<>> /\ faults = 0
  /\ current = [t \in Threads |-> NoFault]
  /\ missed = {} /\ displaced = {}

(***************************************************************************)
(* The kprobe.  Without a process to trace, the first one with the name is *)
(* taken, and this fault is not recorded.                                  *)
(***************************************************************************)
Traced(t) == Tgid[t] = trace_tgid

HasName(t) == Tgid[t] \in named

FirstType == IF tracer = "pf_trace" THEN {"base"} ELSE {"none", "guest_page", "guest_final"}

(* bpf_map_update_elem with BPF_ANY, which fails for a new key in a full map. *)
Updated_NoExist(t, e) ==
  IF t \in DOMAIN fault_events THEN fault_events
  ELSE [u \in DOMAIN fault_events \cup {t} |-> IF u = t THEN e ELSE fault_events[u]]

Updated(t, e) ==
  IF t \in DOMAIN fault_events \/ Cardinality(DOMAIN fault_events) < MaxEntries
  THEN [u \in DOMAIN fault_events \cup {t} |-> IF u = t THEN e ELSE fault_events[u]]
  ELSE fault_events

FaultBegins(t) ==
  /\ current[t] = NoFault /\ faults < MaxFaults
  /\ faults' = faults + 1
  /\ \E type \in FirstType :
       LET found == trace_tgid = 0 /\ HasName(t)
       IN  /\ current' = [current EXCEPT ![t] =
                 [number |-> faults + 1, type |-> type, at |-> IF found THEN "set" ELSE "in",
                  steady |-> TRUE]]
           /\ fault_events' = IF trace_tgid # 0 /\ Traced(t)
                              THEN Updated(t, [start |-> faults + 1, type |-> type])
                              ELSE fault_events
  /\ UNCHANGED <<tracer, named, trace_tgid, rb, missed, displaced>>

SetTgid(t) ==
  LET displaces == trace_tgid \notin {0, Tgid[t]}
  IN  /\ current[t].at = "set"
      /\ trace_tgid' = Tgid[t]
      /\ current' = [u \in Threads |->
            [current[u] EXCEPT !.at = IF u = t THEN "in" ELSE @,
                               !.steady = @ /\ (displaces => current[u].at = "out")]]
      /\ displaced' = IF displaces THEN displaced \cup {trace_tgid} ELSE displaced
      /\ UNCHANGED <<tracer, named, fault_events, rb, faults, missed>>

(* The kprobes of huge faults. *)
mark_huge_fault(t, type) ==
  /\ tracer = "pf_trace" /\ current[t].at = "in"
  /\ current' = [current EXCEPT ![t].type = type]
  /\ fault_events' = IF Traced(t) /\ t \in DOMAIN fault_events
                     THEN [fault_events EXCEPT ![t].type = type] ELSE fault_events
  /\ UNCHANGED <<tracer, named, trace_tgid, rb, faults, missed, displaced>>

(***************************************************************************)
(* The kretprobe.  The entry is deleted whether or not it could be sent.   *)
(***************************************************************************)
Cleanup_OnlyIfSent(t) ==
  IF Len(rb) < RingSize THEN [u \in DOMAIN fault_events \ {t} |-> fault_events[u]]
  ELSE fault_events

Cleanup(t) == [u \in DOMAIN fault_events \ {t} |-> fault_events[u]]

(* bpf_ringbuf_reserve, which fails when the buffer is full, and submit. *)
Submit(t) ==
  rb' = IF Len(rb) < RingSize
        THEN Append(rb, [event |-> fault_events[t], fault |-> current[t]]) ELSE rb

FaultEnds(t) ==
  /\ current[t].at = "in"
  /\ current' = [current EXCEPT ![t] = NoFault]
  /\ IF Traced(t) /\ t \in DOMAIN fault_events
     THEN /\ \/ tracer = "pf_trace" /\ UNCHANGED rb                \* VM_FAULT_RETRY
             \/ Submit(t)
          /\ fault_events' = Cleanup(t)
     ELSE UNCHANGED <<rb, fault_events>>
  /\ UNCHANGED <<tracer, named, trace_tgid, faults, missed, displaced>>

ReturnMissed(t) ==
  /\ current[t].at = "in"
  /\ current' = [current EXCEPT ![t] = NoFault]
  /\ missed' = missed \cup {t}
  /\ UNCHANGED <<tracer, named, trace_tgid, fault_events, rb, faults, displaced>>

(* handle_event *)
Poll == /\ rb # <<>> /\ rb' = Tail(rb)
        /\ UNCHANGED <<tracer, named, trace_tgid, fault_events, faults, current, missed, displaced>>

Next == \/ Poll
        \/ \E t \in Threads :
             \/ FaultBegins(t) \/ SetTgid(t) \/ FaultEnds(t) \/ ReturnMissed(t)
             \/ \E type \in {"thp", "hugetlb"} : mark_huge_fault(t, type)

Spec == Init /\ [][Next]_vars

-----------------------------------------------------------------------------
(***************************************************************************)
(* Types; the map and the ring buffer stay within their sizes.             *)
(***************************************************************************)
Entry == [start : Nat, type : Types]
Fault == [number : Nat, type : Types, at : {"out", "set", "in"}, steady : BOOLEAN]

TypeOK ==
  /\ trace_tgid \in Nat /\ faults \in Nat
  /\ fault_events \in [DOMAIN fault_events -> Entry]
  /\ DOMAIN fault_events \subseteq Threads
  /\ IsFiniteSet(DOMAIN fault_events) /\ Cardinality(DOMAIN fault_events) <= MaxEntries
  /\ current \in [Threads -> Fault]
  /\ rb \in Seq([event : Entry, fault : Fault]) /\ Len(rb) <= RingSize

(***************************************************************************)
(* What the reader gets about a fault is the time since that fault began   *)
(* and its own type, even when an earlier return of the thread left its    *)
(* entry behind, because it went unnoticed or because another process was  *)
(* traced by then.  When several processes have the name and their threads *)
(* race to write trace_tgid, only a fault in progress when the trace moves *)
(* from one process to another may be reported wrongly.                    *)
(***************************************************************************)
ReportIsOwnFault ==
  \A i \in DOMAIN rb :
    rb[i].fault.steady => /\ rb[i].event.start = rb[i].fault.number
                          /\ rb[i].event.type = rb[i].fault.type

(***************************************************************************)
(* An entry lives as long as its fault: the map fills up only with faults  *)
(* in progress, with threads one of whose returns went unnoticed, and with *)
(* threads of processes from which the trace was taken away.               *)
(***************************************************************************)
EntryEndsWithFault ==
  \A t \in DOMAIN fault_events :
    t \notin missed /\ Tgid[t] \notin displaced => fault_events[t].start = current[t].number
=============================================================================
