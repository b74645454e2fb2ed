----------------------------- MODULE VmRegistry -----------------------------
(***************************************************************************)
(* How the orchestrator gets to know VMs and their guests: the detection   *)
(* thread (vm_detection.rs), which keeps the list of VMs in step with a    *)
(* directory of QMP sockets, and the vsock listener with its consumer      *)
(* threads (consumer.rs), which attach a guest's connection to its Vm.     *)
(*                                                                         *)
(* Environment: hypervisors start, exit or crash, and a later one may use  *)
(* the path of an earlier one.  An orderly exit removes the socket file, a *)
(* crash leaves it for the next hypervisor to replace.  A hypervisor       *)
(* serves one QMP connection at a time.  It listens within the 50 ms of    *)
(* connect_with_retry, which is one step here.                             *)
(***************************************************************************)
EXTENDS Integers, Sequences, FiniteSets

CONSTANTS
  Paths,           (* paths of QMP sockets, one for each CID                *)
  Vms,             (* bound: VMs, each of which is started once             *)
  PathOf,          (* VM -> its path                                        *)
  Consumers,       (* VMs with a DCD region                                 *)
  Guests,          (* VMs whose guests run the daemon                       *)
  MaxLinks         (* bound: vsock connections made in a run                *)

ASSUME RegistryAssumption ==
  /\ Paths \subseteq Nat \ {0} /\ Vms \subseteq Nat \ {0}
  /\ PathOf \in [Vms -> Paths] /\ Consumers \subseteq Vms /\ Guests \subseteq Vms
  /\ MaxLinks \in Nat

Links == 1..MaxLinks

VARIABLES
  started,         (* VMs started so far                                    *)
  alive,           (* VMs that run                                          *)
  file,            (* path -> the VM whose socket file is there, or 0       *)
  watching,        (* the watch is registered                               *)
  events,          (* events of the watch not handled yet                   *)
  det,             (* the detection thread                                  *)
  vms,             (* path -> Vm object, or 0                               *)
  objects,         (* Vm objects made so far: their VM and vsock_conn *)
  qmp,             (* VM -> QMP connections to it, in the order they were made *)
  areas,           (* Vm objects whose consumer has areas that no thread releases *)
  links,           (* vsock connections made so far                         *)
  accept           (* the listener: connections to accept, and the one in hand *)

hostVars == <<started, alive, file, watching, events>>
vars == <<hostVars, det, vms, objects, qmp, areas, links, accept>>

Idle == [at |-> "idle", path |-> 0, vm |-> 0, object |-> 0, left |-> {}]
Detecting == 0     (* the connection of the detection thread, in qmp        *)

(* The VMs of one path are numbered in the order in which they start. *)
IsNext(v, S) == v \notin S /\ \A w \in Vms \ S : PathOf[w] = PathOf[v] => v <= w

(* A VM may run before the orchestrator was started. *)
Init ==
  /\ started \in {{}} \cup { {v} : v \in { w \in Vms : IsNext(w, {}) } }
  /\ alive = started
  /\ file = [p \in Paths |-> IF \E v \in started : PathOf[v] = p
                            THEN CHOOSE v \in started : TRUE ELSE 0]
  /\ watching = FALSE /\ events = <<>>
  /\ det = [Idle EXCEPT !.at = "start"]
  /\ vms = [p \in Paths |-> 0] /\ objects = <<>>
  /\ qmp = [v \in Vms |-> <<>>] /\ areas = {}
  /\ links = <<>> /\ accept = [queue |-> <<>>, link |-> 0, object |-> 0]

-----------------------------------------------------------------------------
(* External: hypervisors, their guests and the file watch. *)
Notify(s) == events' = IF watching THEN events \o s ELSE events

StartVm(v) ==
  LET p == PathOf[v]
      replaces == IF file[p] # 0 THEN <<[kind |-> "remove", path |-> p]>> ELSE <<>>
  IN  /\ IsNext(v, started) /\ file[p] \notin alive
      /\ started' = started \cup {v}
      /\ alive' = alive \cup {v}
      /\ file' = [file EXCEPT ![p] = v]
      /\ Notify(replaces \o <<[kind |-> "create", path |-> p]>>)
      /\ UNCHANGED <<watching, det, vms, objects, qmp, areas, links, accept>>

EndVm(v) ==
  /\ v \in alive
  /\ alive' = alive \ {v}
  /\ file' = [file EXCEPT ![PathOf[v]] = 0]
  /\ Notify(<<[kind |-> "remove", path |-> PathOf[v]]>>)
  /\ UNCHANGED <<started, watching, det, vms, objects, qmp, areas, links, accept>>

CrashVm(v) ==
  /\ v \in alive
  /\ alive' = alive \ {v}
  /\ UNCHANGED <<started, file, watching, events, det, vms, objects, qmp, areas, links, accept>>

(* The guest's daemon opens its connection, and closes it when it ends. *)
Open(k) == links[k].open /\ links[k].vm \in alive

GuestConnects(v) ==
  /\ v \in Guests \cap alive /\ Len(links) < MaxLinks
  /\ \A k \in DOMAIN links : links[k].vm = v => ~links[k].open
  /\ links' = Append(links, [vm |-> v, open |-> TRUE, object |-> 0])
  /\ accept' = [accept EXCEPT !.queue = Append(@, Len(links) + 1)]
  /\ UNCHANGED <<hostVars, det, vms, objects, qmp, areas>>

GuestCloses(k) ==
  /\ Open(k)
  /\ links' = [links EXCEPT ![k].open = FALSE]
  /\ UNCHANGED <<hostVars, det, vms, objects, qmp, areas, accept>>

-----------------------------------------------------------------------------
(***************************************************************************)
(* vm_detection_thread: register the watch, then scan the directory.       *)
(***************************************************************************)
Watch ==
  /\ det.at = "start"
  /\ watching' = TRUE
  /\ det' = [det EXCEPT !.at = "scan"]
  /\ UNCHANGED <<started, alive, file, events, vms, objects, qmp, areas, links, accept>>

Scan ==
  /\ det.at = "scan"
  /\ det' = [Idle EXCEPT !.left = { p \in Paths : file[p] # 0 }]
  /\ UNCHANGED <<hostVars, vms, objects, qmp, areas, links, accept>>

(* The next file of the scan, or the next create event of the watch. *)
NextFile ==
  /\ det.at = "idle"
  /\ \/ \E p \in det.left :
          /\ det' = [det EXCEPT !.at = "check", !.path = p, !.left = @ \ {p}]
          /\ UNCHANGED events
     \/ /\ det.left = {} /\ events # <<>> /\ Head(events).kind = "create"
        /\ det' = [det EXCEPT !.at = "check", !.path = Head(events).path]
        /\ events' = Tail(events)
  /\ UNCHANGED <<started, alive, file, watching, vms, objects, qmp, areas, links, accept>>

(***************************************************************************)
(* handle_new_file.  A file that is gone, and a path in the list, are      *)
(* passed over.                                                            *)
(***************************************************************************)
Done == det' = [Idle EXCEPT !.left = det.left]

IsNew_Always(p) == file[p] # 0

IsNew(p) == file[p] # 0 /\ vms[p] = 0

CheckFile ==
  /\ det.at = "check"
  /\ IF IsNew(det.path) THEN det' = [det EXCEPT !.at = "connect"] ELSE Done
  /\ UNCHANGED <<hostVars, vms, objects, qmp, areas, links, accept>>

ConnectQmp ==
  LET v == file[det.path]
  IN  /\ det.at = "connect"
      /\ IF v # 0 /\ v \in alive
         THEN /\ det' = [det EXCEPT !.at = "probe", !.vm = v]
              /\ qmp' = [qmp EXCEPT ![v] = Append(@, Detecting)]
         ELSE Done /\ UNCHANGED qmp
      /\ UNCHANGED <<hostVars, vms, objects, areas, links, accept>>

(* A QmpConnection is dropped. *)
Hangup(v, q) == [qmp EXCEPT ![v] = SelectSeq(@, LAMBDA r : r # q)]

(* The probes of check_new_vm wait for their answers.  They fail, and the  *)
(* VM is discarded, if it is gone.                                         *)
ProbeAnswered ==
  /\ det.at = "probe" /\ det.vm \in alive /\ Head(qmp[det.vm]) = Detecting
  /\ det' = [det EXCEPT !.at = "insert"]
  /\ UNCHANGED <<hostVars, vms, objects, qmp, areas, links, accept>>

ProbeFails ==
  /\ det.at = "probe" /\ det.vm \notin alive
  /\ qmp' = Hangup(det.vm, Detecting)
  /\ Done
  /\ UNCHANGED <<hostVars, vms, objects, areas, links, accept>>

Insert ==
  LET o == Len(objects) + 1
  IN  /\ det.at = "insert"
      /\ objects' = Append(objects, [vm |-> det.vm, vsock_conn |-> 0])
      /\ vms' = [vms EXCEPT ![det.path] = o]
      /\ qmp' = [qmp EXCEPT ![det.vm] =
                   [i \in DOMAIN @ |-> IF @[i] = Detecting THEN o ELSE @[i]]]
      /\ Done
      /\ UNCHANGED <<hostVars, areas, links, accept>>

(***************************************************************************)
(* remove_vms, for a remove event: out of the list, then exited, and then  *)
(* release_all_allocations.  That of a consumer is a loop that ends when   *)
(* no area is left to release, which it cannot bring about itself: the     *)
(* consumer side of a Vm that has exited is passed over.  That of a donor  *)
(* ends (module Orchestrator).  The Vm, and with it its QMP connection, is *)
(* dropped when no thread holds it.                                        *)
(***************************************************************************)
Unused(o, k) == /\ \A j \in DOMAIN links \ {k} : links[j].object # o
                /\ accept.object # o \/ accept.link = k

DropVm(o, k) == IF Unused(o, k) THEN Hangup(objects[o].vm, o) ELSE qmp

IsRemove_Any(e) == TRUE

IsRemove(e) == e.kind = "remove"

RemoveVm ==
  LET p == Head(events).path
      o == vms[p]
  IN  /\ det.at = "idle" /\ det.left = {}
      /\ events # <<>> /\ IsRemove(Head(events))
      /\ events' = Tail(events)
      /\ vms' = [vms EXCEPT ![p] = 0]
      /\ det' = IF o # 0 THEN [det EXCEPT !.at = "release", !.object = o] ELSE det
      /\ UNCHANGED <<started, alive, file, watching, objects, qmp, areas, links, accept>>

ReleaseAll ==
  /\ det.at = "release" /\ det.object \notin areas
  /\ qmp' = DropVm(det.object, 0)
  /\ Done
  /\ UNCHANGED <<hostVars, vms, objects, areas, links, accept>>

(* The list or the thread that removes it has the Vm. *)
Held(o) == det.object = o \/ \E p \in Paths : vms[p] = o

(* The areas of a consumer.  A thread that serves its guest reserves some, *)
(* even while the Vm is being removed (later ones do not matter here); they *)
(* go when a request fails, or when a return finds that the Vm has not     *)
(* exited.                                                                 *)
ReserveAreas(k) ==
  /\ links[k].object # 0 /\ Held(links[k].object)
  /\ areas' = areas \cup {links[k].object}
  /\ UNCHANGED <<hostVars, det, vms, objects, qmp, links, accept>>

ReleaseAreas(o) ==
  /\ areas' = areas \ {o}
  /\ UNCHANGED <<hostVars, det, vms, objects, qmp, links, accept>>

-----------------------------------------------------------------------------
(***************************************************************************)
(* consumer_listener_thread: find the Vm of the CID, then attach the       *)
(* connection unless the Vm has one.  A try_lock that fails finds a thread *)
(* that uses or resets the connection, so the Vm has one as well.          *)
(***************************************************************************)
NoLink(k) == links' = [links EXCEPT ![k].open = FALSE]

get_consumer_First(p) ==
  LET known == { q \in Paths : vms[q] # 0 }
  IN  IF known = {} THEN 0 ELSE vms[CHOOSE q \in known : \A r \in known : q <= r]

get_consumer(p) == IF vms[p] # 0 /\ objects[vms[p]].vm \in Consumers THEN vms[p] ELSE 0

FindConsumer ==
  LET k == Head(accept.queue)
      o == get_consumer(PathOf[links[k].vm])
  IN  /\ accept.link = 0 /\ accept.queue # <<>>
      /\ IF o # 0
         THEN /\ accept' = [queue |-> Tail(accept.queue), link |-> k, object |-> o]
              /\ UNCHANGED links
         ELSE /\ NoLink(k)
              /\ accept' = [accept EXCEPT !.queue = Tail(@)]
      /\ UNCHANGED <<hostVars, det, vms, objects, qmp, areas>>

HasLink_Never(o) == FALSE

HasLink(o) == objects[o].vsock_conn # 0

Attach ==
  LET k == accept.link
      o == accept.object
  IN  /\ k # 0
      /\ IF HasLink(o)
         THEN /\ NoLink(k)
              /\ qmp' = IF Held(o) THEN qmp ELSE DropVm(o, k)
              /\ UNCHANGED objects
         ELSE /\ objects' = [objects EXCEPT ![o].vsock_conn = k]
              /\ links' = [links EXCEPT ![k].object = o]
              /\ UNCHANGED qmp
      /\ accept' = [accept EXCEPT !.link = 0, !.object = 0]
      /\ UNCHANGED <<hostVars, det, vms, areas>>

(* consumer_thread, at the end of its stream (an overlong or unreadable    *)
(* line closes the connection first).                                      *)
Reset_Forgotten(o) == objects

Reset(o) == [objects EXCEPT ![o].vsock_conn = 0]

ConsumerThreadEnds(k) ==
  LET o == links[k].object
  IN  /\ o # 0 /\ ~Open(k)
      /\ objects' = Reset(o)
      /\ links' = [links EXCEPT ![k].object = 0]
      /\ qmp' = IF Held(o) THEN qmp ELSE DropVm(o, k)
      /\ UNCHANGED <<hostVars, det, vms, areas, accept>>

-----------------------------------------------------------------------------
DetectionThread == \/ Watch \/ Scan \/ NextFile \/ CheckFile \/ ConnectQmp
                   \/ ProbeAnswered \/ ProbeFails \/ Insert \/ RemoveVm \/ ReleaseAll

Listener == FindConsumer \/ Attach

Host == \/ \E v \in Vms : StartVm(v)
        \/ \E v \in alive : EndVm(v) \/ CrashVm(v) \/ GuestConnects(v)
        \/ \E k \in DOMAIN links : GuestCloses(k)

Next == \/ DetectionThread \/ Listener \/ Host
        \/ \E k \in DOMAIN links : ConsumerThreadEnds(k) \/ ReserveAreas(k)
        \/ \E o \in areas : ReleaseAreas(o)

Spec == Init /\ [][Next]_vars

Fairness == /\ WF_vars(DetectionThread) /\ WF_vars(Listener)
            /\ \A k \in Links : WF_vars(k \in DOMAIN links /\ ConsumerThreadEnds(k))

FairSpec == Spec /\ Fairness

-----------------------------------------------------------------------------
(***************************************************************************)
(* A Vm has at most one consumer thread and its vsock_conn is that one's   *)
(* connection: a guest that reconnects while the old thread still runs     *)
(* never has its new connection reset by the old thread.                   *)
(***************************************************************************)
ThreadOwnsLink ==
  /\ \A k \in DOMAIN links : links[k].object # 0 => objects[links[k].object].vsock_conn = k
  /\ \A o \in DOMAIN objects :
       objects[o].vsock_conn # 0 => links[objects[o].vsock_conn].object = o

(***************************************************************************)
(* Unless another VM was started at the path, a guest is served by the Vm  *)
(* of its own hypervisor, and that one is in the list as long as the       *)
(* socket file exists.                                                     *)
(***************************************************************************)
Reused(p) == Cardinality({ v \in started : PathOf[v] = p }) > 1

ServedByItsVm ==
  \A k \in DOMAIN links :
    LET v == links[k].vm
        o == links[k].object
    IN  o # 0 /\ ~Reused(PathOf[v]) =>
          objects[o].vm = v /\ (file[PathOf[v]] = v => vms[PathOf[v]] = o)

(***************************************************************************)
(* A Vm is taken from the list only if its VM is gone, or is not the first *)
(* one at its path.                                                        *)
(***************************************************************************)
RemovedIsGone ==
  [][\A p \in Paths :
       vms[p] # 0 /\ vms'[p] = 0 =>
         objects[vms[p]].vm \notin alive \/ Reused(p)]_vars

(***************************************************************************)
(* When VMs no longer come and go, the list ends up holding the ones that  *)
(* run, whether they were found by the scan, by the watch or by both, and  *)
(* the thread waits for the next event.  There are two exceptions.  A VM   *)
(* registered for the event of an earlier one at its path may be removed   *)
(* and found again while a consumer thread keeps its QMP connection.  And  *)
(* the removal of a consumer goes on for as long as it finds areas.        *)
(***************************************************************************)
Matches == \A p \in Paths :
  file[p] \in alive => vms[p] # 0 /\ objects[vms[p]].vm = file[p]

Blocked == det.at = "probe" /\ det.vm \in alive /\ Head(qmp[det.vm]) # Detecting

Releasing == det.at = "release" /\ det.object \in areas

ListCatchesUp ==
  \/ <>[](\/ Matches /\ det = Idle /\ events = <<>>
          \/ Blocked /\ Reused(det.path))
  \/ []<>Releasing

(***************************************************************************)
(* A connection that ended is taken out of its Vm, so that the guest can   *)
(* connect again.                                                          *)
(***************************************************************************)
LinkIsFreed == \A k \in Links :
  [](k \in DOMAIN links /\ ~Open(k) =>
       <>(\A o \in DOMAIN objects : objects[o].vsock_conn # k))
=============================================================================
