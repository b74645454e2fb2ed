-------------------------- MODULE VmRegistryProofs --------------------------
(***************************************************************************)
(* Proofs about the registration of VMs and of their guests' connections,  *)
(* for any number of VMs, paths and connections.                           *)
(***************************************************************************)
EXTENDS VmRegistry, FiniteSetTheorems, TLAPS

-----------------------------------------------------------------------------
(* The inductive invariant. *)

Events == [kind : {"create", "remove"}, path : Paths]
Objects == [vm : Vms, vsock_conn : Nat]
Connections == [vm : Vms, open : BOOLEAN, object : Nat]

(* The VMs of S that have path p. *)
VmsAt(S, p) == { v \in S : PathOf[v] = p }

(* The paths for which the watch reported a removal, not handled yet. *)
Removals == { events[i].path : i \in { j \in DOMAIN events : events[j].kind = "remove" } }

(* A VM that runs owns the socket file at its path. *)
HostKept ==
  /\ started \subseteq Vms /\ IsFiniteSet(started) /\ alive \subseteq started
  /\ file \in [Paths -> Vms \cup {0}]
  /\ \A p \in Paths : file[p] # 0 => file[p] \in started /\ PathOf[file[p]] = p
  /\ \A v \in alive : file[PathOf[v]] = v
  /\ events \in Seq(Events)
  /\ \A p \in Removals : \E v \in started : PathOf[v] = p

(* The detection thread works on a path that is not in the list. *)
DetectionKept ==
  /\ det \in [at : {"start", "scan", "idle", "check", "connect", "probe", "insert", "release"},
              path : Paths \cup {0}, vm : Vms \cup {0}, object : Nat, left : SUBSET Paths]
  /\ det.at \in {"check", "connect", "probe", "insert"} => det.path \in Paths
  /\ det.at \in {"connect", "probe", "insert"} => vms[det.path] = 0
  /\ det.at \in {"probe", "insert"} => det.vm \in started /\ PathOf[det.vm] = det.path

(* A Vm in the list is that of a VM at its path. *)
ListKept ==
  /\ objects \in Seq(Objects)
  /\ \A o \in DOMAIN objects : objects[o].vm \in started /\ objects[o].vsock_conn <= Len(links)
  /\ vms \in [Paths -> 0..Len(objects)]
  /\ \A p \in Paths : vms[p] # 0 => PathOf[objects[vms[p]].vm] = p

(* A guest is attached to a Vm at the path of its own VM. *)
LinksKept ==
  /\ links \in Seq(Connections)
  /\ \A k \in DOMAIN links :
       /\ links[k].vm \in started /\ links[k].object <= Len(objects)
       /\ links[k].object # 0 => PathOf[objects[links[k].object].vm] = PathOf[links[k].vm]

(* The connections the listener has not come to are the last ones made, in *)
(* order, and no thread serves them.                                       *)
AcceptKept ==
  LET q == accept.queue
  IN  /\ accept \in [queue : Seq(Nat), link : Nat, object : Nat]
      /\ Len(q) <= Len(links)
      /\ \A i \in DOMAIN q : q[i] = Len(links) - Len(q) + i
      /\ \A k \in DOMAIN links : k > Len(links) - Len(q) => links[k].object = 0
      /\ accept.link # 0 =>
           /\ accept.link = Len(links) - Len(q) /\ links[accept.link].object = 0
           /\ accept.object \in DOMAIN objects
           /\ PathOf[objects[accept.object].vm] = PathOf[links[accept.link].vm]

(* As long as the first VM at a path has its socket file, no removal is    *)
(* reported for it and the only Vm made for it is in the list.             *)
FirstIsListed ==
  \A p \in Paths : ~Reused(p) /\ file[p] # 0 =>
    /\ p \notin Removals
    /\ \A o \in DOMAIN objects : PathOf[objects[o].vm] = p => vms[p] = o

RegistryKept ==
  /\ HostKept /\ DetectionKept /\ ListKept /\ LinksKept /\ AcceptKept
  /\ ThreadOwnsLink /\ FirstIsListed

-----------------------------------------------------------------------------
(* Lemmas about the VMs of a path and about the parts of the invariant. *)

(***************************************************************************)
(* At a path that is not reused one VM was started at most.                *)
(***************************************************************************)
LEMMA OnlyOne ==
  ASSUME NEW S, IsFiniteSet(S), NEW p,
         ~(Cardinality(VmsAt(S, p)) > 1),
         NEW v \in S, NEW w \in S, PathOf[v] = p, PathOf[w] = p
  PROVE  v = w
<1> DEFINE A == { x \in S : PathOf[x] = p }
<1> SUFFICES ASSUME v # w PROVE FALSE
  OBVIOUS
<1>1. IsFiniteSet(A)
  BY FS_Subset
<1>2. IsFiniteSet({v}) /\ Cardinality({v}) = 1
  BY FS_Singleton
<1>3. IsFiniteSet({v} \cup {w}) /\ Cardinality({v} \cup {w}) = Cardinality({v}) + 1
  BY <1>2, FS_AddElement
<1>4. {v} \cup {w} \subseteq A
  OBVIOUS
<1>5. Cardinality({v} \cup {w}) <= Cardinality(A)
  BY <1>1, <1>4, FS_Subset
<1>6. Cardinality(A) \in Nat
  BY <1>1, FS_CardinalityType
<1>7. ~(Cardinality(A) > 1)
  BY DEF VmsAt
<1> HIDE DEF A
<1> QED
  BY <1>2, <1>3, <1>5, <1>6, <1>7

(***************************************************************************)
(* A path that was reused stays so when another VM is started.             *)
(***************************************************************************)
LEMMA StaysReused ==
  ASSUME NEW S, NEW T, IsFiniteSet(T), S \subseteq T, NEW p,
         Cardinality(VmsAt(S, p)) > 1
  PROVE  Cardinality(VmsAt(T, p)) > 1
<1> DEFINE A == VmsAt(S, p)
           B == VmsAt(T, p)
<1>1. IsFiniteSet(B)
  BY FS_Subset DEF VmsAt
<1>2. A \subseteq B
  BY DEF VmsAt
<1>3. IsFiniteSet(A) /\ Cardinality(A) <= Cardinality(B)
  BY <1>1, <1>2, FS_Subset
<1>4. Cardinality(A) \in Nat /\ Cardinality(B) \in Nat
  BY <1>1, <1>3, FS_CardinalityType
<1>5. Cardinality(A) > 1
  OBVIOUS
<1> HIDE DEF A, B
<1>6. Cardinality(B) > 1
  BY <1>3, <1>4, <1>5
<1> QED
  BY <1>6 DEF B

(* The sequence s with x as its element k. *)
SetAt(s, k, x) == [s EXCEPT ![k] = x]

PutAt(S, s, k, x) ==
  /\ SetAt(s, k, x) \in Seq(S)
  /\ Len(SetAt(s, k, x)) = Len(s) /\ DOMAIN SetAt(s, k, x) = DOMAIN s
  /\ SetAt(s, k, x)[k] = x
  /\ \A j \in DOMAIN s : j # k => SetAt(s, k, x)[j] = s[j]

(***************************************************************************)
(* What replacing one element of a sequence leaves of it.                  *)
(***************************************************************************)
LEMMA Replaced ==
  ASSUME NEW S, NEW s \in Seq(S), NEW k \in DOMAIN s, NEW x \in S PROVE PutAt(S, s, k, x)
<1> DEFINE t == [s EXCEPT ![k] = x]
<1>1. Len(s) \in Nat /\ DOMAIN s = 1..Len(s) /\ \A i \in 1..Len(s) : s[i] \in S
  OBVIOUS
<1>2. t \in [1..Len(s) -> S]
  BY <1>1
<1>3. t \in Seq(S) /\ DOMAIN t = 1..Len(s)
  BY <1>1, <1>2
<1>4. Len(t) = Len(s)
  BY <1>1, <1>3
<1> QED
  BY <1>1, <1>3, <1>4 DEF SetAt, PutAt

(***************************************************************************)
(* The parts of the invariant that an action does not touch.               *)
(***************************************************************************)
LEMMA HostSame ==
  ASSUME HostKept, UNCHANGED <<started, alive, file, events>> PROVE HostKept'
BY DEF HostKept, Removals

(***************************************************************************)
(* Likewise, for the detection thread.                                     *)
(***************************************************************************)
LEMMA DetectionSame ==
  ASSUME DetectionKept, UNCHANGED <<det, vms>>, started \subseteq started' PROVE DetectionKept'
BY DEF DetectionKept

(***************************************************************************)
(* Likewise, for the list of VMs.                                          *)
(***************************************************************************)
LEMMA ListSame ==
  ASSUME ListKept, UNCHANGED <<objects, vms>>, started \subseteq started',
         links \in Seq(Connections), links' \in Seq(Connections), Len(links) <= Len(links')
  PROVE  ListKept'
<1>1. \A o \in DOMAIN objects : objects[o] \in Objects
  BY DEF ListKept
<1>2. Len(links) \in Nat /\ Len(links') \in Nat
  OBVIOUS
<1>3. \A o \in DOMAIN objects : objects[o].vsock_conn \in Nat
  BY <1>1 DEF Objects
<1>4. \A o \in DOMAIN objects :
        objects[o].vm \in started' /\ objects[o].vsock_conn <= Len(links')
  BY <1>2, <1>3 DEF ListKept
<1> QED
  BY <1>4 DEF ListKept

(***************************************************************************)
(* Likewise, for the connections.                                          *)
(***************************************************************************)
LEMMA LinksSame ==
  ASSUME LinksKept, UNCHANGED <<links, objects>>, started \subseteq started' PROVE LinksKept'
BY DEF LinksKept

(***************************************************************************)
(* Likewise, for the listener and for the threads of connections.          *)
(***************************************************************************)
LEMMA AcceptSame ==
  ASSUME AcceptKept, ThreadOwnsLink, UNCHANGED <<links, objects, accept>>
  PROVE  AcceptKept' /\ ThreadOwnsLink'
<1>1. AcceptKept'
  BY DEF AcceptKept
<1>2. ThreadOwnsLink'
  BY DEF ThreadOwnsLink
<1> QED
  BY <1>1, <1>2

(***************************************************************************)
(* Likewise, for the VM that is the first one at its path.                 *)
(***************************************************************************)
LEMMA FirstSame ==
  ASSUME FirstIsListed, UNCHANGED <<started, file, events, objects, vms>> PROVE FirstIsListed'
BY DEF FirstIsListed, Reused, Removals

-----------------------------------------------------------------------------
(* Init, and the steps of hypervisors and guests. *)

(***************************************************************************)
(* The orchestrator starts with empty lists; one VM may run already.       *)
(***************************************************************************)
LEMMA InitRegistry ==
  ASSUME Init PROVE RegistryKept
<1>1. /\ alive = started /\ events = <<>> /\ det = [Idle EXCEPT !.at = "start"]
      /\ vms = [p \in Paths |-> 0] /\ objects = <<>> /\ links = <<>>
      /\ accept = [queue |-> <<>>, link |-> 0, object |-> 0]
      /\ file = [p \in Paths |-> IF \E v \in started : PathOf[v] = p
                                THEN CHOOSE v \in started : TRUE ELSE 0]
  BY DEF Init
<1>2. started = {} \/ \E v \in Vms : started = {v}
  BY DEF Init
<1>3. started \subseteq Vms /\ IsFiniteSet(started) /\ 0 \notin Vms
  <2>1. 0 \notin Vms
    BY RegistryAssumption
  <2>2. CASE started = {}
    BY <2>1, <2>2, FS_EmptySet
  <2>3. ASSUME NEW v \in Vms, started = {v} PROVE IsFiniteSet(started) /\ started \subseteq Vms
    BY <2>3, FS_Singleton
  <2> QED
    BY <2>1, <2>2, <2>3, <1>2
<1>4. \A p \in Paths : \/ file[p] = 0
                       \/ file[p] \in started /\ PathOf[file[p]] = p
  BY <1>1, <1>2
<1>5. \A v \in alive : file[PathOf[v]] = v
  BY <1>1, <1>2, RegistryAssumption
<1>6. DOMAIN events = {} /\ Removals = {}
  BY <1>1 DEF Removals
<1>7. HostKept
  <2>1. file \in [Paths -> Vms \cup {0}]
    BY <1>1, <1>3, <1>4
  <2>2. events \in Seq(Events)
    BY <1>1
  <2> QED
    BY <1>1, <1>3, <1>4, <1>5, <1>6, <2>1, <2>2 DEF HostKept
<1>8. DetectionKept
  BY <1>1 DEF DetectionKept, Idle
<1>9. objects \in Seq(Objects) /\ DOMAIN objects = {} /\ Len(objects) = 0
      /\ links \in Seq(Connections) /\ DOMAIN links = {} /\ Len(links) = 0
  BY <1>1
<1>10. ListKept /\ LinksKept
  BY <1>1, <1>9 DEF ListKept, LinksKept
<1>11. AcceptKept
  <2>1. accept.queue = <<>> /\ accept.link = 0 /\ accept.object = 0 /\ Len(accept.queue) = 0
        /\ DOMAIN accept.queue = {} /\ accept.queue \in Seq(Nat)
    BY <1>1
  <2>2. accept \in [queue : Seq(Nat), link : Nat, object : Nat]
    BY <2>1, <1>1
  <2> QED
    BY <2>1, <2>2, <1>9 DEF AcceptKept
<1>12. ThreadOwnsLink /\ FirstIsListed
  BY <1>6, <1>9 DEF ThreadOwnsLink, FirstIsListed
<1> QED
  BY <1>7, <1>8, <1>10, <1>11, <1>12 DEF RegistryKept

(***************************************************************************)
(* What the watch may report of the events s.                              *)
(***************************************************************************)
LEMMA Notified ==
  ASSUME HostKept, NEW s \in Seq(Events), Notify(s)
  PROVE  /\ events' \in Seq(Events)
         /\ \A p \in Removals' : p \in Removals \/ \E i \in DOMAIN s : s[i].kind = "remove" /\ s[i].path = p
<1>1. events \in Seq(Events)
  BY DEF HostKept
<1>2. CASE events' = events
  BY <1>1, <1>2 DEF Removals
<1>3. CASE events' = events \o s
  <2>1. events' \in Seq(Events) /\ Len(events') = Len(events) + Len(s)
        /\ Len(events) \in Nat /\ Len(s) \in Nat
    BY <1>1, <1>3
  <2>2. \A i \in DOMAIN events' : \/ i \in DOMAIN events /\ events'[i] = events[i]
                                  \/ i - Len(events) \in DOMAIN s /\ events'[i] = s[i - Len(events)]
    BY <1>1, <1>3
  <2>3. ASSUME NEW p \in Removals'
        PROVE  p \in Removals \/ \E i \in DOMAIN s : s[i].kind = "remove" /\ s[i].path = p
    <3>1. PICK i \in DOMAIN events' : events'[i].kind = "remove" /\ events'[i].path = p
      BY <2>3 DEF Removals
    <3> QED
      BY <3>1, <2>2 DEF Removals
  <2> QED
    BY <2>1, <2>3
<1> QED
  BY <1>2, <1>3 DEF Notify

(***************************************************************************)
(* A hypervisor starts, and replaces the socket file of one that crashed.  *)
(***************************************************************************)
LEMMA StartKept ==
  ASSUME RegistryKept, NEW v \in Vms, StartVm(v) PROVE RegistryKept'
<1> DEFINE p == PathOf[v]
           s == (IF file[p] # 0 THEN <<[kind |-> "remove", path |-> p]>> ELSE <<>>)
                  \o <<[kind |-> "create", path |-> p]>>
<1>1. /\ v \notin started /\ file[p] \notin alive
      /\ started' = started \cup {v} /\ alive' = alive \cup {v}
      /\ file' = [file EXCEPT ![p] = v] /\ Notify(s)
      /\ det' = det /\ vms' = vms /\ objects' = objects /\ links' = links /\ accept' = accept
  BY DEF StartVm, IsNext
<1>2. p \in Paths /\ 0 \notin Vms /\ v # 0
  BY RegistryAssumption
<1>3. /\ started \subseteq Vms /\ IsFiniteSet(started) /\ alive \subseteq started
      /\ file \in [Paths -> Vms \cup {0}]
      /\ \A q \in Paths : file[q] # 0 => file[q] \in started /\ PathOf[file[q]] = q
      /\ \A w \in alive : file[PathOf[w]] = w
      /\ \A q \in Removals : \E w \in started : PathOf[w] = q
  BY DEF RegistryKept, HostKept
<1>4. s \in Seq(Events) /\ \A i \in DOMAIN s : s[i].kind = "remove" => file[p] # 0 /\ s[i].path = p
  <2> DEFINE pre == IF file[p] # 0 THEN <<[kind |-> "remove", path |-> p]>> ELSE <<>>
             post == <<[kind |-> "create", path |-> p]>>
  <2>1. /\ pre \in Seq(Events) /\ post \in Seq(Events)
        /\ \A i \in DOMAIN pre : file[p] # 0 /\ pre[i].path = p
        /\ \A i \in DOMAIN post : post[i].kind = "create"
    <3>1. [kind |-> "create", path |-> p] \in Events /\ [kind |-> "remove", path |-> p] \in Events
      BY <1>2 DEF Events
    <3>2. post \in Seq(Events) /\ \A i \in DOMAIN post : post[i].kind = "create"
      BY <3>1
    <3>3. CASE file[p] = 0
      <4>1. pre = <<>>
        BY <3>3
      <4> QED
        BY <4>1, <3>2
    <3>4. CASE file[p] # 0
      <4>1. pre = <<[kind |-> "remove", path |-> p]>>
        BY <3>4
      <4>2. pre \in Seq(Events) /\ \A i \in DOMAIN pre : pre[i].path = p
        BY <4>1, <3>1
      <4> QED
        BY <4>2, <3>2, <3>4
    <3> QED
      BY <3>3, <3>4
  <2>2. s = pre \o post
    OBVIOUS
  <2> HIDE DEF s, pre, post
  <2>3. s \in Seq(Events)
    BY <2>1, <2>2
  <2>4. \A i \in DOMAIN s : \/ i \in DOMAIN pre /\ s[i] = pre[i]
                            \/ i - Len(pre) \in DOMAIN post /\ s[i] = post[i - Len(pre)]
    BY <2>1, <2>2
  <2>5. "create" # "remove"
    OBVIOUS
  <2> QED
    BY <2>1, <2>3, <2>4, <2>5
<1>5. /\ events' \in Seq(Events)
      /\ \A q \in Removals' : q \in Removals \/ (q = p /\ file[p] # 0)
  <2> HIDE DEF s
  <2>1. PICK r \in Seq(Events) : r = s
    BY <1>4
  <2>2. Notify(r) /\ HostKept
    BY <2>1, <1>1 DEF RegistryKept
  <2>3. /\ events' \in Seq(Events)
        /\ \A q \in Removals' : q \in Removals \/ \E i \in DOMAIN r : r[i].kind = "remove" /\ r[i].path = q
    BY <2>2, Notified
  <2> QED
    BY <2>1, <2>3, <1>4
<1> HIDE DEF s
<1>6. IsFiniteSet(started')
  BY <1>1, <1>3, FS_AddElement
<1>7. HostKept'
  <2>1. file' \in [Paths -> Vms \cup {0}]
    BY <1>1, <1>2, <1>3
  <2>2. \A q \in Paths : file'[q] # 0 => file'[q] \in started' /\ PathOf[file'[q]] = q
    BY <1>1, <1>2, <1>3
  <2>3. \A w \in alive' : file'[PathOf[w]] = w
    <3> SUFFICES ASSUME NEW w \in alive' PROVE file'[PathOf[w]] = w
      OBVIOUS
    <3>1. CASE w = v
      BY <3>1, <1>1, <1>2, <1>3
    <3>2. CASE w # v
      <4>1. w \in alive /\ file[PathOf[w]] = w
        BY <3>2, <1>1, <1>3
      <4>2. PathOf[w] # p /\ PathOf[w] \in Paths
        BY <4>1, <1>1, <1>3, RegistryAssumption
      <4> QED
        BY <4>1, <4>2, <1>1, <1>2, <1>3
    <3> QED
      BY <3>1, <3>2
  <2>4. \A q \in Removals' : \E w \in started' : PathOf[w] = q
    BY <1>1, <1>3, <1>5
  <2>5. started' \subseteq Vms /\ alive' \subseteq started'
    BY <1>1, <1>3
  <2> QED
    BY <2>1, <2>2, <2>3, <2>4, <2>5, <1>5, <1>6 DEF HostKept
<1>8. DetectionKept' /\ ListKept' /\ LinksKept' /\ AcceptKept' /\ ThreadOwnsLink'
  <2>1. started \subseteq started' /\ links \in Seq(Connections) /\ Len(links) \in Nat
    BY <1>1 DEF RegistryKept, LinksKept
  <2> QED
    BY <2>1, <1>1, DetectionSame, ListSame, LinksSame, AcceptSame DEF RegistryKept
<1>9. FirstIsListed'
  <2> SUFFICES ASSUME NEW q \in Paths, ~Reused(q)', file'[q] # 0
               PROVE  /\ q \notin Removals'
                      /\ \A o \in DOMAIN objects : PathOf[objects[o].vm] = q => vms[q] = o
    BY <1>1 DEF FirstIsListed
  <2>1. ~(Cardinality(VmsAt(started', q)) > 1)
    BY DEF Reused, VmsAt
  <2>2. ~Reused(q)
    <3>1. started \subseteq started'
      BY <1>1
    <3>2. ~(Cardinality(VmsAt(started, q)) > 1)
      BY <2>1, <3>1, <1>6, StaysReused
    <3> QED
      BY <3>2 DEF Reused, VmsAt
  <2>3. CASE q = p
    <3>1. \A w \in started : PathOf[w] # p
      <4> SUFFICES ASSUME NEW w \in started, PathOf[w] = p PROVE FALSE
        OBVIOUS
      <4>1. w \in started' /\ v \in started' /\ w # v
        BY <1>1
      <4> QED
        BY <4>1, <2>1, <2>3, <1>6, OnlyOne
    <3>2. file[p] = 0 /\ p \notin Removals
      BY <3>1, <1>2, <1>3
    <3>3. \A o \in DOMAIN objects : objects[o].vm \in started
      BY DEF RegistryKept, ListKept
    <3> QED
      BY <2>3, <3>1, <3>2, <3>3, <1>5
  <2>4. CASE q # p
    <3>1. file[q] # 0
      BY <2>4, <1>1, <1>3
    <3> QED
      BY <2>2, <2>4, <3>1, <1>5 DEF RegistryKept, FirstIsListed
  <2> QED
    BY <2>3, <2>4
<1> QED
  BY <1>7, <1>8, <1>9 DEF RegistryKept

(***************************************************************************)
(* A hypervisor exits and removes its socket file.                         *)
(***************************************************************************)
LEMMA EndKept ==
  ASSUME RegistryKept, NEW v \in alive, EndVm(v) PROVE RegistryKept'
<1> DEFINE p == PathOf[v]
           s == <<[kind |-> "remove", path |-> p]>>
<1>1. /\ started' = started /\ alive' = alive \ {v}
      /\ file' = [file EXCEPT ![p] = 0] /\ Notify(s)
      /\ det' = det /\ vms' = vms /\ objects' = objects /\ links' = links /\ accept' = accept
  BY DEF EndVm
<1>2. /\ started \subseteq Vms /\ IsFiniteSet(started) /\ alive \subseteq started
      /\ file \in [Paths -> Vms \cup {0}]
      /\ \A q \in Paths : file[q] # 0 => file[q] \in started /\ PathOf[file[q]] = q
      /\ \A w \in alive : file[PathOf[w]] = w
      /\ \A q \in Removals : \E w \in started : PathOf[w] = q
  BY DEF RegistryKept, HostKept
<1>3. v \in Vms /\ v \in started /\ p \in Paths
  BY <1>2, RegistryAssumption
<1>4. s \in Seq(Events) /\ \A i \in DOMAIN s : s[i].path = p
  BY <1>3 DEF Events
<1>5. /\ events' \in Seq(Events)
      /\ \A q \in Removals' : q \in Removals \/ q = p
  <2> HIDE DEF s
  <2>1. PICK r \in Seq(Events) : r = s
    BY <1>4
  <2>2. Notify(r) /\ HostKept
    BY <2>1, <1>1 DEF RegistryKept
  <2>3. /\ events' \in Seq(Events)
        /\ \A q \in Removals' : q \in Removals \/ \E i \in DOMAIN r : r[i].kind = "remove" /\ r[i].path = q
    BY <2>2, Notified
  <2> QED
    BY <2>1, <2>3, <1>4
<1> HIDE DEF s
<1>6. HostKept'
  <2>1. file' \in [Paths -> Vms \cup {0}]
    BY <1>1, <1>2
  <2>2. \A q \in Paths : file'[q] # 0 => file'[q] \in started' /\ PathOf[file'[q]] = q
    BY <1>1, <1>2, <1>3
  <2>3. \A w \in alive' : file'[PathOf[w]] = w
    <3> SUFFICES ASSUME NEW w \in alive' PROVE file'[PathOf[w]] = w
      OBVIOUS
    <3>1. w \in alive /\ w # v /\ PathOf[w] \in Paths /\ file[PathOf[w]] = w /\ file[p] = v
      BY <1>1, <1>2, RegistryAssumption
    <3>2. PathOf[w] # p
      BY <3>1
    <3> QED
      BY <3>1, <3>2, <1>1, <1>2
  <2>4. \A q \in Removals' : \E w \in started' : PathOf[w] = q
    BY <1>1, <1>2, <1>3, <1>5
  <2> QED
    BY <2>1, <2>2, <2>3, <2>4, <1>1, <1>2, <1>5 DEF HostKept
<1>7. DetectionKept' /\ ListKept' /\ LinksKept' /\ AcceptKept' /\ ThreadOwnsLink'
  <2>1. started \subseteq started' /\ links \in Seq(Connections) /\ Len(links) \in Nat
    BY <1>1 DEF RegistryKept, LinksKept
  <2> QED
    BY <2>1, <1>1, DetectionSame, ListSame, LinksSame, AcceptSame DEF RegistryKept
<1>8. FirstIsListed'
  <2> SUFFICES ASSUME NEW q \in Paths, ~Reused(q)', file'[q] # 0
               PROVE  /\ q \notin Removals'
                      /\ \A o \in DOMAIN objects : PathOf[objects[o].vm] = q => vms[q] = o
    BY <1>1 DEF FirstIsListed
  <2>1. q # p /\ file[q] # 0 /\ ~Reused(q)
    BY <1>1, <1>2, <1>3 DEF Reused
  <2> QED
    BY <2>1, <1>5 DEF RegistryKept, FirstIsListed
<1> QED
  BY <1>6, <1>7, <1>8 DEF RegistryKept

(***************************************************************************)
(* A hypervisor crashes and leaves its socket file.                        *)
(***************************************************************************)
LEMMA CrashKept ==
  ASSUME RegistryKept, NEW v \in alive, CrashVm(v) PROVE RegistryKept'
<1>1. /\ started' = started /\ alive' = alive \ {v} /\ file' = file /\ events' = events
      /\ det' = det /\ vms' = vms /\ objects' = objects /\ links' = links /\ accept' = accept
  BY DEF CrashVm
<1>2. HostKept'
  <2>1. Removals' = Removals
    BY <1>1 DEF Removals
  <2> QED
    BY <1>1, <2>1 DEF RegistryKept, HostKept
<1>3. started \subseteq started' /\ links \in Seq(Connections) /\ Len(links) \in Nat
  BY <1>1 DEF RegistryKept, LinksKept
<1> QED
  BY <1>1, <1>2, <1>3, DetectionSame, ListSame, LinksSame, AcceptSame, FirstSame DEF RegistryKept

(***************************************************************************)
(* A guest opens a connection, which waits for the listener.               *)
(***************************************************************************)
LEMMA GuestConnectsKept ==
  ASSUME RegistryKept, NEW v \in alive, GuestConnects(v) PROVE RegistryKept'
<1> DEFINE n == Len(links)
           q == accept.queue
           c == [vm |-> v, open |-> TRUE, object |-> 0]
<1>1. /\ started' = started /\ alive' = alive /\ file' = file /\ events' = events
      /\ det' = det /\ vms' = vms /\ objects' = objects
      /\ links' = Append(links, c) /\ accept' = [accept EXCEPT !.queue = Append(@, n + 1)]
  BY DEF GuestConnects, hostVars
<1>2. v \in started /\ v \in Vms
  BY DEF RegistryKept, HostKept
<1>3. c \in Connections
  BY <1>2 DEF Connections
<1>4. /\ links \in Seq(Connections) /\ links' \in Seq(Connections)
      /\ n \in Nat /\ Len(links') = n + 1 /\ DOMAIN links = 1..n /\ DOMAIN links' = 1..(n + 1)
      /\ links'[n + 1] = c /\ \A k \in DOMAIN links : links'[k] = links[k]
  BY <1>1, <1>3 DEF RegistryKept, LinksKept
<1>5. \A k \in DOMAIN links' : k = n + 1 \/ k \in DOMAIN links
  BY <1>4
<1>6. HostKept' /\ DetectionKept' /\ FirstIsListed'
  BY <1>1, HostSame, DetectionSame, FirstSame DEF RegistryKept
<1>7. ListKept'
  BY <1>1, <1>4, ListSame DEF RegistryKept
<1>8. objects \in Seq(Objects) /\ Len(objects) \in Nat
  BY DEF RegistryKept, ListKept
<1> HIDE DEF n
<1>9. LinksKept'
  <2>1. \A k \in DOMAIN links' :
          /\ links'[k].vm \in started /\ links'[k].object <= Len(objects)
          /\ links'[k].object # 0 => PathOf[objects[links'[k].object].vm] = PathOf[links'[k].vm]
    BY <1>2, <1>4, <1>5, <1>8 DEF RegistryKept, LinksKept
  <2> QED
    BY <2>1, <1>1, <1>4 DEF LinksKept
<1>10. ThreadOwnsLink'
  <2>1. \A o \in DOMAIN objects : objects[o] \in Objects /\ objects[o].vsock_conn <= n
    BY DEF RegistryKept, ListKept, n
  <2>2. \A o \in DOMAIN objects : objects[o].vsock_conn # 0 => objects[o].vsock_conn \in DOMAIN links
    BY <2>1, <1>4 DEF Objects
  <2>3. \A k \in DOMAIN links' : links'[k].object # 0 => objects[links'[k].object].vsock_conn = k
    BY <1>4, <1>5 DEF RegistryKept, ThreadOwnsLink
  <2>4. \A o \in DOMAIN objects :
          objects[o].vsock_conn # 0 => links'[objects[o].vsock_conn].object = o
    BY <1>4, <2>2 DEF RegistryKept, ThreadOwnsLink
  <2> QED
    BY <2>3, <2>4, <1>1 DEF ThreadOwnsLink
<1>11. AcceptKept'
  <2>1. /\ accept \in [queue : Seq(Nat), link : Nat, object : Nat]
        /\ q \in Seq(Nat) /\ Len(q) \in Nat /\ Len(q) <= n
        /\ \A i \in DOMAIN q : q[i] = n - Len(q) + i
        /\ \A k \in DOMAIN links : k > n - Len(q) => links[k].object = 0
        /\ accept.link # 0 =>
             /\ accept.link = n - Len(q) /\ links[accept.link].object = 0
             /\ accept.object \in DOMAIN objects
             /\ PathOf[objects[accept.object].vm] = PathOf[links[accept.link].vm]
    BY DEF RegistryKept, AcceptKept, n
  <2> DEFINE r == Append(q, n + 1)
  <2>2. /\ r \in Seq(Nat) /\ Len(r) = Len(q) + 1 /\ DOMAIN r = 1..(Len(q) + 1)
        /\ r[Len(q) + 1] = n + 1 /\ \A i \in DOMAIN q : r[i] = q[i]
        /\ DOMAIN q = 1..Len(q)
    BY <2>1, <1>4
  <2>3. /\ accept' \in [queue : Seq(Nat), link : Nat, object : Nat]
        /\ accept'.queue = r /\ accept'.link = accept.link /\ accept'.object = accept.object
    BY <2>1, <2>2, <1>1
  <2> HIDE DEF q, r, c
  <2>4. Len(r) <= Len(links')
    BY <2>1, <2>2, <1>4
  <2>5. \A i \in DOMAIN r : r[i] = Len(links') - Len(r) + i
    <3> SUFFICES ASSUME NEW i \in DOMAIN r PROVE r[i] = Len(links') - Len(r) + i
      OBVIOUS
    <3>1. i \in Nat /\ (i = Len(q) + 1 \/ i \in DOMAIN q)
      BY <2>1, <2>2
    <3>2. Len(links') - Len(r) + i = n - Len(q) + i
      BY <3>1, <2>1, <2>2, <1>4
    <3>3. CASE i \in DOMAIN q
      <4>1. r[i] = q[i] /\ q[i] = n - Len(q) + i
        BY <3>3, <2>1, <2>2
      <4> QED
        BY <4>1, <3>2
    <3>4. CASE i = Len(q) + 1
      <4>1. r[i] = n + 1 /\ n - Len(q) + i = n + 1
        BY <3>4, <2>1, <2>2, <1>4
      <4> QED
        BY <4>1, <3>2
    <3> QED
      BY <3>1, <3>3, <3>4
  <2>6. c.object = 0
    BY DEF c
  <2>7. \A k \in DOMAIN links' : k > Len(links') - Len(r) => links'[k].object = 0
    <3> SUFFICES ASSUME NEW k \in DOMAIN links', k > Len(links') - Len(r)
                 PROVE  links'[k].object = 0
      OBVIOUS
    <3>1. CASE k = n + 1
      BY <3>1, <2>6, <1>4
    <3>2. CASE k \in DOMAIN links
      <4>1. k > n - Len(q)
        BY <3>2, <2>1, <2>2, <1>4
      <4>2. links[k].object = 0 /\ links'[k] = links[k]
        BY <4>1, <3>2, <2>1, <1>4
      <4> QED
        BY <4>2
    <3> QED
      BY <1>5, <3>1, <3>2
  <2>8. accept.link # 0 =>
             /\ accept.link = Len(links') - Len(r) /\ links'[accept.link].object = 0
             /\ accept.object \in DOMAIN objects
             /\ PathOf[objects[accept.object].vm] = PathOf[links'[accept.link].vm]
    <3> SUFFICES ASSUME accept.link # 0
                 PROVE  /\ accept.link = Len(links') - Len(r) /\ links'[accept.link].object = 0
                        /\ accept.object \in DOMAIN objects
                        /\ PathOf[objects[accept.object].vm] = PathOf[links'[accept.link].vm]
      OBVIOUS
    <3>1. accept.link \in Nat /\ accept.link = n - Len(q)
      BY <2>1
    <3>2. accept.link \in DOMAIN links
      BY <3>1, <2>1, <1>4
    <3>3. accept.link = Len(links') - Len(r)
      <4>1. Len(links') = n + 1 /\ Len(r) = Len(q) + 1 /\ n \in Nat /\ Len(q) \in Nat
        BY <2>1, <2>2, <1>4
      <4> QED
        BY <4>1, <3>1
    <3>4. links'[accept.link] = links[accept.link]
      BY <3>2, <1>4
    <3> QED
      BY <3>3, <3>4, <2>1
  <2> QED
    BY <2>3, <2>4, <2>5, <2>7, <2>8, <1>1 DEF AcceptKept
<1> QED
  BY <1>6, <1>7, <1>9, <1>10, <1>11 DEF RegistryKept

(***************************************************************************)
(* A step that changes nothing of a connection but that it is closed.      *)
(***************************************************************************)
LEMMA ClosedLink ==
  ASSUME LinksKept, NEW k \in DOMAIN links, links' = [links EXCEPT ![k].open = FALSE]
  PROVE  /\ links' \in Seq(Connections) /\ Len(links') = Len(links) /\ DOMAIN links' = DOMAIN links
         /\ \A j \in DOMAIN links : links'[j].vm = links[j].vm /\ links'[j].object = links[j].object
<1> DEFINE c == [links[k] EXCEPT !.open = FALSE]
<1>1. links \in Seq(Connections) /\ links[k] \in Connections
  BY DEF LinksKept
<1>2. c \in Connections /\ c.vm = links[k].vm /\ c.object = links[k].object
  BY <1>1 DEF Connections
<1>3. links' = SetAt(links, k, c)
  BY DEF SetAt
<1> HIDE DEF c
<1>4. /\ links' \in Seq(Connections) /\ Len(links') = Len(links) /\ DOMAIN links' = DOMAIN links
      /\ links'[k] = c /\ \A j \in DOMAIN links : j # k => links'[j] = links[j]
  <2>1. PutAt(Connections, links, k, c)
    BY <1>1, <1>2, Replaced
  <2> QED
    BY <2>1, <1>3 DEF PutAt
<1> QED
  BY <1>2, <1>4

(***************************************************************************)
(* The parts of the invariant that only ask whose connections there are    *)
(* and which thread serves them do not notice that one is closed.          *)
(***************************************************************************)
LEMMA ClosedKept ==
  ASSUME RegistryKept, UNCHANGED <<hostVars, det, vms, objects>>,
         NEW k \in DOMAIN links, links' = [links EXCEPT ![k].open = FALSE]
  PROVE  /\ HostKept' /\ DetectionKept' /\ FirstIsListed' /\ ListKept' /\ LinksKept'
         /\ ThreadOwnsLink'
         /\ accept' = accept => AcceptKept'
<1>1. /\ started' = started /\ alive' = alive /\ file' = file /\ events' = events
      /\ det' = det /\ vms' = vms /\ objects' = objects
  BY DEF hostVars
<1>2. /\ links' \in Seq(Connections) /\ Len(links') = Len(links) /\ DOMAIN links' = DOMAIN links
      /\ \A j \in DOMAIN links : links'[j].vm = links[j].vm /\ links'[j].object = links[j].object
  BY ClosedLink DEF RegistryKept
<1>3. links \in Seq(Connections) /\ Len(links) \in Nat /\ DOMAIN links = 1..Len(links)
  BY DEF RegistryKept, LinksKept
<1>4. HostKept' /\ DetectionKept' /\ FirstIsListed'
  BY <1>1, HostSame, DetectionSame, FirstSame DEF RegistryKept
<1>5. ListKept'
  BY <1>1, <1>2, <1>3, ListSame DEF RegistryKept
<1>6. LinksKept'
  BY <1>1, <1>2 DEF RegistryKept, LinksKept
<1>7. \A o \in DOMAIN objects : objects[o].vsock_conn # 0 => objects[o].vsock_conn \in DOMAIN links
  <2>1. \A o \in DOMAIN objects : objects[o] \in Objects /\ objects[o].vsock_conn <= Len(links)
    BY DEF RegistryKept, ListKept
  <2> QED
    BY <2>1, <1>3 DEF Objects
<1>8. ThreadOwnsLink'
  BY <1>1, <1>2, <1>7 DEF RegistryKept, ThreadOwnsLink
<1>9. ASSUME accept' = accept PROVE AcceptKept'
  <2>1. AcceptKept
    BY DEF RegistryKept
  <2>2. accept.link # 0 => accept.link \in DOMAIN links
    <3>1. accept.queue \in Seq(Nat) /\ accept.link \in Nat /\ Len(accept.queue) \in Nat
      BY <2>1 DEF AcceptKept
    <3> QED
      BY <3>1, <2>1, <1>3 DEF AcceptKept
  <2> QED
    BY <2>1, <2>2, <1>1, <1>2, <1>9 DEF AcceptKept
<1> QED
  BY <1>4, <1>5, <1>6, <1>8, <1>9

(***************************************************************************)
(* A guest closes its connection.                                          *)
(***************************************************************************)
LEMMA GuestClosesKept ==
  ASSUME RegistryKept, NEW k \in DOMAIN links, GuestCloses(k) PROVE RegistryKept'
<1>1. /\ UNCHANGED <<hostVars, det, vms, objects>> /\ accept' = accept
      /\ links' = [links EXCEPT ![k].open = FALSE]
  BY DEF GuestCloses
<1> QED
  BY <1>1, ClosedKept DEF RegistryKept

-----------------------------------------------------------------------------
(* The steps of the detection thread. *)

(***************************************************************************)
(* An event that is handled is one of those reported, and handling it      *)
(* leaves the others.                                                      *)
(***************************************************************************)
LEMMA Handled ==
  ASSUME events \in Seq(Events), events # <<>>
  PROVE  /\ Head(events) \in Events /\ Tail(events) \in Seq(Events)
         /\ Head(events).kind = "remove" => Head(events).path \in Removals
         /\ events' = Tail(events) => Removals' \subseteq Removals
<1>1. Len(events) \in Nat /\ Len(events) > 0 /\ DOMAIN events = 1..Len(events)
  OBVIOUS
<1>2. Head(events) = events[1] /\ 1 \in DOMAIN events /\ events[1] \in Events
  BY <1>1
<1>3. Head(events).kind = "remove" => Head(events).path \in Removals
  BY <1>2 DEF Removals
<1>4. /\ Tail(events) \in Seq(Events) /\ DOMAIN Tail(events) = 1..(Len(events) - 1)
      /\ \A i \in DOMAIN Tail(events) : Tail(events)[i] = events[i + 1]
  BY <1>1
<1>5. \A i \in DOMAIN Tail(events) : i + 1 \in DOMAIN events
  BY <1>1, <1>4
<1>6. ASSUME events' = Tail(events) PROVE Removals' \subseteq Removals
  <2> SUFFICES ASSUME NEW p \in Removals' PROVE p \in Removals
    OBVIOUS
  <2>1. PICK i \in DOMAIN events' : events'[i].kind = "remove" /\ events'[i].path = p
    BY DEF Removals
  <2>2. i \in DOMAIN Tail(events) /\ events'[i] = events[i + 1] /\ i + 1 \in DOMAIN events
    BY <1>4, <1>5, <1>6, <2>1
  <2> QED
    BY <2>1, <2>2 DEF Removals
<1> QED
  BY <1>2, <1>3, <1>4, <1>6

(***************************************************************************)
(* The host's part, and the listing of the first VM of a path, when the    *)
(* thread handles an event or none.                                        *)
(***************************************************************************)
LEMMA HandledKept ==
  ASSUME RegistryKept, UNCHANGED <<started, alive, file>>,
         events' = events \/ (events # <<>> /\ events' = Tail(events))
  PROVE  HostKept' /\ Removals' \subseteq Removals
<1>1. events \in Seq(Events)
  BY DEF RegistryKept, HostKept
<1>2. events' \in Seq(Events) /\ Removals' \subseteq Removals
  <2>1. CASE events' = events
    BY <2>1, <1>1 DEF Removals
  <2>2. CASE events # <<>> /\ events' = Tail(events)
    BY <2>2, <1>1, Handled
  <2> QED
    BY <2>1, <2>2
<1> QED
  BY <1>2 DEF RegistryKept, HostKept

(***************************************************************************)
(* A step of the detection thread that leaves the list as it is.           *)
(***************************************************************************)
LEMMA DetectionStep ==
  ASSUME RegistryKept, DetectionKept',
         UNCHANGED <<started, alive, file, vms, objects, links, accept>>,
         events' = events \/ (events # <<>> /\ events' = Tail(events))
  PROVE  RegistryKept'
<1>1. HostKept' /\ Removals' \subseteq Removals
  BY HandledKept
<1>2. FirstIsListed'
  BY <1>1 DEF RegistryKept, FirstIsListed, Reused
<1>3. links \in Seq(Connections) /\ Len(links) \in Nat
  BY DEF RegistryKept, LinksKept
<1> QED
  BY <1>1, <1>2, <1>3, ListSame, LinksSame, AcceptSame DEF RegistryKept

(***************************************************************************)
(* Back to waiting, the detection thread works on no path.                 *)
(***************************************************************************)
LEMMA DoneKept ==
  ASSUME DetectionKept, Done PROVE DetectionKept'
BY DEF DetectionKept, Done, Idle

(***************************************************************************)
(* The thread starts, scans the directory and takes up files.              *)
(***************************************************************************)
LEMMA FilesKept ==
  ASSUME RegistryKept, Watch \/ Scan \/ NextFile PROVE RegistryKept'
<1>1. /\ UNCHANGED <<started, alive, file, vms, objects, links, accept>>
      /\ events' = events \/ (events # <<>> /\ events' = Tail(events))
  BY DEF Watch, Scan, NextFile, hostVars
<1>2. DetectionKept /\ events \in Seq(Events)
  BY DEF RegistryKept, HostKept
<1>3. CASE Watch
  <2>1. DetectionKept'
    BY <1>2, <1>3 DEF DetectionKept, Watch
  <2> QED
    BY <2>1, <1>1, DetectionStep
<1>4. CASE Scan
  <2>1. DetectionKept'
    BY <1>2, <1>4 DEF DetectionKept, Scan, Idle
  <2> QED
    BY <2>1, <1>1, DetectionStep
<1>5. CASE NextFile
  <2>1. DetectionKept'
    <3>1. ASSUME NEW p \in det.left,
                 det' = [det EXCEPT !.at = "check", !.path = p, !.left = @ \ {p}]
          PROVE  DetectionKept'
      BY <1>2, <3>1 DEF DetectionKept
    <3>2. ASSUME events # <<>>, det' = [det EXCEPT !.at = "check", !.path = Head(events).path]
          PROVE  DetectionKept'
      <4>1. Head(events).path \in Paths
        BY <1>2, <3>2, Handled DEF Events
      <4> QED
        BY <4>1, <1>2, <3>2 DEF DetectionKept
    <3> QED
      BY <3>1, <3>2, <1>5 DEF NextFile
  <2> QED
    BY <2>1, <1>1, DetectionStep
<1> QED
  BY <1>3, <1>4, <1>5

(***************************************************************************)
(* handle_new_file, up to the answers to its probes.                       *)
(***************************************************************************)
LEMMA ProbesKept ==
  ASSUME RegistryKept, CheckFile \/ ConnectQmp \/ ProbeAnswered \/ ProbeFails
  PROVE  RegistryKept'
<1>1. /\ UNCHANGED <<started, alive, file, vms, objects, links, accept>>
      /\ events' = events
  BY DEF CheckFile, ConnectQmp, ProbeAnswered, ProbeFails, hostVars
<1>2. DetectionKept
  BY DEF RegistryKept
<1>3. CASE CheckFile
  <2>1. CASE IsNew(det.path)
    <3>1. DetectionKept'
      BY <1>1, <1>2, <1>3, <2>1 DEF DetectionKept, CheckFile, IsNew
    <3> QED
      BY <3>1, <1>1, DetectionStep
  <2>2. CASE ~IsNew(det.path)
    BY <2>2, <1>1, <1>2, <1>3, DoneKept, DetectionStep DEF CheckFile
  <2> QED
    BY <2>1, <2>2
<1>4. CASE ConnectQmp
  <2>1. CASE file[det.path] # 0 /\ file[det.path] \in alive
    <3>1. det' = [det EXCEPT !.at = "probe", !.vm = file[det.path]] /\ det.at = "connect"
      BY <1>4, <2>1 DEF ConnectQmp
    <3>2. det.path \in Paths /\ vms[det.path] = 0
      BY <1>2, <3>1 DEF DetectionKept
    <3>3. file[det.path] \in started /\ file[det.path] \in Vms /\ PathOf[file[det.path]] = det.path
      BY <2>1, <3>2 DEF RegistryKept, HostKept
    <3>4. DetectionKept'
      BY <3>1, <3>2, <3>3, <1>1, <1>2 DEF DetectionKept
    <3> QED
      BY <3>4, <1>1, DetectionStep
  <2>2. CASE ~(file[det.path] # 0 /\ file[det.path] \in alive)
    BY <2>2, <1>1, <1>2, <1>4, DoneKept, DetectionStep DEF ConnectQmp
  <2> QED
    BY <2>1, <2>2
<1>5. CASE ProbeAnswered
  <2>1. DetectionKept'
    BY <1>1, <1>2, <1>5 DEF DetectionKept, ProbeAnswered
  <2> QED
    BY <2>1, <1>1, DetectionStep
<1>6. CASE ProbeFails
  BY <1>1, <1>2, <1>6, DoneKept, DetectionStep DEF ProbeFails
<1> QED
  BY <1>3, <1>4, <1>5, <1>6

(***************************************************************************)
(* The Vm is made and entered in the list.                                 *)
(***************************************************************************)
LEMMA InsertKept ==
  ASSUME RegistryKept, Insert PROVE RegistryKept'
<1> DEFINE n == Len(objects)
           p == det.path
           x == [vm |-> det.vm, vsock_conn |-> 0]
<1>1. /\ det.at = "insert" /\ objects' = Append(objects, x) /\ vms' = [vms EXCEPT ![p] = n + 1]
      /\ Done /\ links' = links /\ accept' = accept
      /\ started' = started /\ alive' = alive /\ file' = file /\ events' = events
  BY DEF Insert, hostVars
<1>2. /\ p \in Paths /\ vms[p] = 0 /\ det.vm \in started /\ PathOf[det.vm] = p
      /\ DetectionKept
  BY <1>1 DEF RegistryKept, DetectionKept
<1>3. x \in Objects
  BY <1>2 DEF Objects, RegistryKept, HostKept
<1>4. /\ objects \in Seq(Objects) /\ objects' \in Seq(Objects)
      /\ n \in Nat /\ Len(objects') = n + 1 /\ DOMAIN objects = 1..n /\ DOMAIN objects' = 1..(n + 1)
      /\ objects'[n + 1] = x /\ \A o \in DOMAIN objects : objects'[o] = objects[o]
  BY <1>1, <1>3 DEF RegistryKept, ListKept
<1>5. \A o \in DOMAIN objects' : o = n + 1 \/ o \in DOMAIN objects
  BY <1>4
<1>6. links \in Seq(Connections) /\ Len(links) \in Nat /\ DOMAIN links = 1..Len(links)
  BY DEF RegistryKept, LinksKept
<1>7. \A k \in DOMAIN links : links[k].object # 0 => links[k].object \in DOMAIN objects
  <2>1. \A k \in DOMAIN links : links[k] \in Connections /\ links[k].object <= n
    BY DEF RegistryKept, LinksKept
  <2> QED
    BY <2>1, <1>4 DEF Connections
<1>8. vms \in [Paths -> 0..n]
  BY DEF RegistryKept, ListKept
<1>9. x.vm = det.vm /\ x.vsock_conn = 0
  OBVIOUS
<1> HIDE DEF n, x
<1>10. HostKept'
  BY <1>1, HostSame DEF RegistryKept
<1>11. DetectionKept'
  BY <1>1, <1>2, DoneKept
<1>12. ListKept'
  <2>1. \A o \in DOMAIN objects' : objects'[o].vm \in started /\ objects'[o].vsock_conn <= Len(links)
    BY <1>2, <1>4, <1>5, <1>6, <1>9 DEF RegistryKept, ListKept
  <2>2. vms' \in [Paths -> 0..(n + 1)]
    BY <1>1, <1>2, <1>4, <1>8
  <2>3. ASSUME NEW q \in Paths, vms'[q] # 0 PROVE PathOf[objects'[vms'[q]].vm] = q
    <3>1. CASE q = p
      BY <3>1, <1>1, <1>2, <1>4, <1>8, <1>9
    <3>2. CASE q # p
      <4>1. vms'[q] = vms[q] /\ vms[q] \in DOMAIN objects
        BY <3>2, <2>3, <1>1, <1>4, <1>8
      <4>2. PathOf[objects[vms[q]].vm] = q
        BY <4>1, <2>3 DEF RegistryKept, ListKept
      <4> QED
        BY <4>1, <4>2, <1>4
    <3> QED
      BY <3>1, <3>2
  <2> QED
    BY <2>1, <2>2, <2>3, <1>1, <1>4 DEF ListKept
<1>13. LinksKept'
  <2>1. \A k \in DOMAIN links : links[k].object \in Nat
    <3>1. \A k \in DOMAIN links : links[k] \in Connections
      BY <1>6
    <3> QED
      BY <3>1 DEF Connections
  <2>2. \A k \in DOMAIN links : links[k].object <= n + 1
    BY <2>1, <1>4 DEF RegistryKept, LinksKept, n
  <2> QED
    BY <2>2, <1>1, <1>4, <1>7 DEF RegistryKept, LinksKept
<1>14. AcceptKept'
  BY <1>1, <1>4, <1>5 DEF RegistryKept, AcceptKept
<1>15. ThreadOwnsLink'
  BY <1>1, <1>4, <1>5, <1>7, <1>9 DEF RegistryKept, ThreadOwnsLink
<1>16. FirstIsListed'
  <2>1. Removals' = Removals
    BY <1>1 DEF Removals
  <2> SUFFICES ASSUME NEW q \in Paths, ~Reused(q), file[q] # 0
               PROVE  /\ q \notin Removals
                      /\ \A o \in DOMAIN objects' : PathOf[objects'[o].vm] = q => vms'[q] = o
    BY <1>1, <2>1 DEF FirstIsListed, Reused
  <2>2. q \notin Removals /\ \A o \in DOMAIN objects : PathOf[objects[o].vm] = q => vms[q] = o
    BY DEF RegistryKept, FirstIsListed
  <2>3. ASSUME NEW o \in DOMAIN objects', PathOf[objects'[o].vm] = q PROVE vms'[q] = o
    <3>1. CASE o = n + 1
      <4>1. q = p
        BY <3>1, <2>3, <1>2, <1>4, <1>9
      <4> QED
        BY <4>1, <3>1, <1>1, <1>2, <1>8
    <3>2. CASE o \in DOMAIN objects
      <4>1. vms[q] = o /\ o # 0
        BY <3>2, <2>2, <2>3, <1>4
      <4>2. q # p
        BY <4>1, <1>2
      <4> QED
        BY <4>1, <4>2, <1>1, <1>8
    <3> QED
      BY <3>1, <3>2, <1>5
  <2> QED
    BY <2>2, <2>3
<1> QED
  BY <1>10, <1>11, <1>12, <1>13, <1>14, <1>15, <1>16 DEF RegistryKept

(***************************************************************************)
(* A Vm is taken from the list only for a path whose file was removed, or  *)
(* that was reused.                                                        *)
(***************************************************************************)
LEMMA RemovalIsDue ==
  ASSUME RegistryKept, RemoveVm
  PROVE  /\ Head(events).path \in Paths
         /\ file[Head(events).path] = 0 \/ Reused(Head(events).path)
<1>1. events \in Seq(Events) /\ events # <<>> /\ Head(events).kind = "remove"
  BY DEF RegistryKept, HostKept, RemoveVm, IsRemove
<1>2. Head(events).path \in Removals /\ Head(events).path \in Paths
  BY <1>1, Handled DEF Events
<1> QED
  BY <1>2 DEF RegistryKept, FirstIsListed

(***************************************************************************)
(* remove_vms.                                                             *)
(***************************************************************************)
LEMMA RemoveKept ==
  ASSUME RegistryKept, RemoveVm PROVE RegistryKept'
<1>1. PICK p : p = Head(events).path
  OBVIOUS
<1>2. /\ det.at = "idle" /\ events # <<>> /\ events' = Tail(events)
      /\ vms' = [vms EXCEPT ![p] = 0]
      /\ det' = det \/ det' = [det EXCEPT !.at = "release", !.object = vms[p]]
      /\ UNCHANGED <<started, alive, file, objects, links, accept>>
  BY <1>1 DEF RemoveVm
<1>3. p \in Paths /\ (file[p] = 0 \/ Reused(p))
  BY <1>1, RemovalIsDue
<1>4. HostKept' /\ Removals' \subseteq Removals
  BY <1>2, HandledKept
<1>5. vms \in [Paths -> 0..Len(objects)] /\ objects \in Seq(Objects) /\ Len(objects) \in Nat
  BY DEF RegistryKept, ListKept
<1>6. DetectionKept'
  <2>1. vms[p] \in Nat
    BY <1>3, <1>5
  <2> QED
    BY <1>2, <2>1 DEF RegistryKept, DetectionKept
<1>7. \A q \in Paths : vms'[q] = IF q = p THEN 0 ELSE vms[q]
  BY <1>2, <1>5
<1>8. vms' \in [Paths -> 0..Len(objects)]
  BY <1>2, <1>3, <1>5
<1>9. ListKept'
  BY <1>2, <1>7, <1>8 DEF RegistryKept, ListKept
<1>10. FirstIsListed'
  <2> SUFFICES ASSUME NEW q \in Paths, ~Reused(q)', file'[q] # 0
               PROVE  /\ q \notin Removals'
                      /\ \A o \in DOMAIN objects : PathOf[objects[o].vm] = q => vms'[q] = o
    BY <1>2 DEF FirstIsListed
  <2>1. ~Reused(q) /\ file[q] # 0
    BY <1>2 DEF Reused
  <2>2. q # p
    BY <2>1, <1>3
  <2> QED
    BY <2>1, <2>2, <1>4, <1>7 DEF RegistryKept, FirstIsListed
<1> QED
  BY <1>2, <1>4, <1>6, <1>9, <1>10, LinksSame, AcceptSame DEF RegistryKept

(***************************************************************************)
(* The end of remove_vms, and the areas it waits for.                      *)
(***************************************************************************)
LEMMA ReleaseKept ==
  ASSUME RegistryKept,
         \/ ReleaseAll
         \/ \E k \in DOMAIN links : ReserveAreas(k)
         \/ \E o \in areas : ReleaseAreas(o)
  PROVE  RegistryKept'
<1>1. UNCHANGED <<started, alive, file, events, vms, objects, links, accept>>
  BY DEF ReleaseAll, ReserveAreas, ReleaseAreas, hostVars
<1>2. Done \/ det' = det
  BY DEF ReleaseAll, ReserveAreas, ReleaseAreas
<1>3. DetectionKept'
  BY <1>1, <1>2, DoneKept, DetectionSame DEF RegistryKept
<1> QED
  BY <1>1, <1>3, DetectionStep

-----------------------------------------------------------------------------
(* The listener and the threads of connections. *)

(***************************************************************************)
(* The listener takes the next connection.  Its Vm, if there is one, is    *)
(* that of a VM at the same path.                                          *)
(***************************************************************************)
LEMMA FindKept ==
  ASSUME RegistryKept, FindConsumer PROVE RegistryKept'
<1> DEFINE q == accept.queue
           n == Len(links)
<1>1. /\ q \in Seq(Nat) /\ q # <<>> /\ accept.link = 0
      /\ accept \in [queue : Seq(Nat), link : Nat, object : Nat]
      /\ Len(q) <= n /\ \A i \in DOMAIN q : q[i] = n - Len(q) + i
      /\ \A k \in DOMAIN links : k > n - Len(q) => links[k].object = 0
  BY DEF RegistryKept, AcceptKept, FindConsumer
<1>2. Len(q) \in Nat /\ Len(q) > 0 /\ n \in Nat /\ DOMAIN links = 1..n /\ DOMAIN q = 1..Len(q)
  BY <1>1 DEF RegistryKept, LinksKept
<1>3. /\ Head(q) = q[1] /\ 1 \in DOMAIN q /\ Tail(q) \in Seq(Nat) /\ Len(Tail(q)) = Len(q) - 1
      /\ DOMAIN Tail(q) = 1..(Len(q) - 1) /\ \A i \in DOMAIN Tail(q) : Tail(q)[i] = q[i + 1]
  BY <1>1, <1>2
<1>4. PICK k \in DOMAIN links : k = Head(q) /\ k = n - Len(q) + 1
  BY <1>1, <1>2, <1>3
<1>5. PICK o : o = get_consumer(PathOf[links[k].vm])
  OBVIOUS
<1>6. PICK t : t = Tail(q)
  OBVIOUS
<1>7. /\ t \in Seq(Nat) /\ Len(t) = Len(q) - 1 /\ Len(t) <= n /\ n - Len(t) = k
      /\ \A i \in DOMAIN t : t[i] = n - Len(t) + i
      /\ \A j \in DOMAIN links : j > n - Len(t) => links[j].object = 0
      /\ links[k].object = 0
  <2>1. Len(t) = Len(q) - 1 /\ Len(t) <= n /\ n - Len(t) = k
    BY <1>1, <1>2, <1>3, <1>4, <1>6
  <2>2. ASSUME NEW i \in DOMAIN t PROVE t[i] = n - Len(t) + i
    <3>1. i \in Nat /\ i + 1 \in DOMAIN q /\ t[i] = q[i + 1]
      BY <1>2, <1>3, <1>6
    <3>2. q[i + 1] = n - Len(q) + (i + 1)
      BY <3>1, <1>1
    <3> QED
      <4>1. Len(t) = Len(q) - 1 /\ Len(t) \in Int
        BY <2>1, <1>2
      <4> HIDE DEF n, q
      <4> QED
        BY <3>1, <3>2, <4>1, <1>2
  <2>3. \A j \in DOMAIN links : j >= k => j > n - Len(q)
    BY <1>2, <1>4
  <2>4. \A j \in DOMAIN links : j >= k => links[j].object = 0
    BY <2>3, <1>1
  <2>5. \A j \in DOMAIN links : j > k => j >= k
    BY <1>2
  <2>6. k >= k
    BY <1>2
  <2> QED
    BY <2>1, <2>2, <2>4, <2>5, <2>6, <1>3, <1>6
<1>8. /\ UNCHANGED <<hostVars, det, vms, objects>>
      /\ started' = started /\ alive' = alive /\ file' = file /\ events' = events
  BY DEF FindConsumer, hostVars
<1>9. CASE o # 0
  <2>1. accept' = [queue |-> t, link |-> k, object |-> o] /\ links' = links
    BY <1>4, <1>5, <1>6, <1>9 DEF FindConsumer
  <2>2. PICK p \in Paths : p = PathOf[links[k].vm]
    <3>1. links[k].vm \in started /\ started \subseteq Vms
      BY DEF RegistryKept, LinksKept, HostKept
    <3> QED
      BY <3>1, RegistryAssumption
  <2>3. o = vms[p]
    BY <2>2, <1>5, <1>9 DEF get_consumer
  <2>4. o \in DOMAIN objects /\ PathOf[objects[o].vm] = p
    <3>1. vms \in [Paths -> 0..Len(objects)] /\ objects \in Seq(Objects)
          /\ PathOf[objects[o].vm] = p
      BY <2>3, <1>9 DEF RegistryKept, ListKept
    <3>2. o \in 0..Len(objects) /\ Len(objects) \in Nat /\ DOMAIN objects = 1..Len(objects)
      BY <3>1, <2>3
    <3> QED
      BY <3>1, <3>2, <1>9
  <2>5. k \in Nat /\ o \in Nat
    <3>1. objects \in Seq(Objects)
      BY DEF RegistryKept, ListKept
    <3> QED
      BY <3>1, <1>2, <2>4
  <2>6. accept'.queue = t /\ accept'.link = k /\ accept'.object = o
        /\ accept' \in [queue : Seq(Nat), link : Nat, object : Nat]
    BY <2>1, <2>5, <1>7
  <2> HIDE DEF q, n
  <2>7. AcceptKept'
    BY <2>1, <2>2, <2>4, <2>6, <1>7, <1>8 DEF AcceptKept, n
  <2>8. ThreadOwnsLink'
    BY <2>1, <1>8 DEF RegistryKept, ThreadOwnsLink
  <2>9. links \in Seq(Connections) /\ Len(links) \in Nat
    BY DEF RegistryKept, LinksKept
  <2> QED
    BY <2>1, <2>7, <2>8, <2>9, <1>8, HostSame, DetectionSame, ListSame, LinksSame, FirstSame
    DEF RegistryKept
<1>10. CASE o = 0
  <2>1. /\ accept' = [accept EXCEPT !.queue = t]
        /\ links' = [links EXCEPT ![k].open = FALSE]
    BY <1>4, <1>5, <1>6, <1>10 DEF FindConsumer, NoLink
  <2>2. /\ HostKept' /\ DetectionKept' /\ FirstIsListed' /\ ListKept' /\ LinksKept'
        /\ ThreadOwnsLink'
    BY <2>1, <1>8, ClosedKept
  <2>3. /\ Len(links') = Len(links) /\ DOMAIN links' = DOMAIN links
        /\ \A j \in DOMAIN links : links'[j].vm = links[j].vm /\ links'[j].object = links[j].object
    BY <2>1, ClosedLink DEF RegistryKept
  <2>4. /\ accept' \in [queue : Seq(Nat), link : Nat, object : Nat]
        /\ accept'.queue = t /\ accept'.link = 0
    BY <2>1, <1>1, <1>7
  <2> HIDE DEF q, n
  <2>5. AcceptKept'
    BY <2>3, <2>4, <1>7 DEF AcceptKept, n
  <2> QED
    BY <2>2, <2>5 DEF RegistryKept
<1> QED
  BY <1>9, <1>10

(***************************************************************************)
(* The connection that the listener holds, and the Vm it found for it.     *)
(***************************************************************************)
LEMMA LinkInHand ==
  ASSUME RegistryKept, accept.link # 0
  PROVE  /\ accept.link \in DOMAIN links /\ links[accept.link].object = 0
         /\ accept.object \in DOMAIN objects
         /\ PathOf[objects[accept.object].vm] = PathOf[links[accept.link].vm]
         /\ \A o \in DOMAIN objects : objects[o].vsock_conn # accept.link
<1>1. /\ accept.link \in Nat /\ accept.queue \in Seq(Nat) /\ Len(accept.queue) \in Nat
      /\ accept.link = Len(links) - Len(accept.queue) /\ links[accept.link].object = 0
      /\ accept.object \in DOMAIN objects
      /\ PathOf[objects[accept.object].vm] = PathOf[links[accept.link].vm]
  BY DEF RegistryKept, AcceptKept
<1>2. links \in Seq(Connections) /\ Len(links) \in Nat /\ DOMAIN links = 1..Len(links)
  BY DEF RegistryKept, LinksKept
<1>3. accept.link \in DOMAIN links
  BY <1>1, <1>2
<1>4. objects \in Seq(Objects) /\ DOMAIN objects = 1..Len(objects) /\ Len(objects) \in Nat
  BY DEF RegistryKept, ListKept
<1>5. ASSUME NEW o \in DOMAIN objects, objects[o].vsock_conn = accept.link PROVE FALSE
  <2>1. links[accept.link].object = o
    BY <1>5 DEF RegistryKept, ThreadOwnsLink
  <2> QED
    BY <2>1, <1>1, <1>4
<1> QED
  BY <1>1, <1>3, <1>5

(* Vm o gets connection c, and the thread of Vm d serves connection k. *)
LinkTo(o, k, c, d) ==
  /\ objects' = [objects EXCEPT ![o].vsock_conn = c]
  /\ links' = [links EXCEPT ![k].object = d]

LinkedAs(o, k, c, d) ==
  /\ Len(links') = Len(links) /\ DOMAIN links' = DOMAIN links
  /\ DOMAIN objects' = DOMAIN objects
  /\ links'[k].object = d /\ \A j \in DOMAIN links : j # k => links'[j] = links[j]
  /\ objects'[o].vsock_conn = c /\ \A j \in DOMAIN objects : j # o => objects'[j] = objects[j]
  /\ \A j \in DOMAIN links : links'[j].vm = links[j].vm
  /\ \A j \in DOMAIN objects : objects'[j].vm = objects[j].vm

(***************************************************************************)
(* What a step keeps that makes Vm o and connection k point to each other, *)
(* or to nothing.                                                          *)
(***************************************************************************)
LEMMA Linked ==
  ASSUME RegistryKept, UNCHANGED <<hostVars, det, vms>>,
         NEW o \in DOMAIN objects, NEW k \in DOMAIN links, NEW c, NEW d,
         LinkTo(o, k, c, d), (c = k /\ d = o) \/ (c = 0 /\ d = 0),
         PathOf[objects[o].vm] = PathOf[links[k].vm]
  PROVE  /\ HostKept' /\ DetectionKept' /\ ListKept' /\ LinksKept' /\ FirstIsListed'
         /\ LinkedAs(o, k, c, d)
<1>1. /\ started' = started /\ alive' = alive /\ file' = file /\ events' = events
      /\ det' = det /\ vms' = vms
  BY DEF hostVars
<1>2. /\ links \in Seq(Connections) /\ Len(links) \in Nat /\ DOMAIN links = 1..Len(links)
      /\ objects \in Seq(Objects) /\ Len(objects) \in Nat /\ DOMAIN objects = 1..Len(objects)
  BY DEF RegistryKept, LinksKept, ListKept
<1>3. c \in Nat /\ c <= Len(links) /\ d \in Nat /\ d <= Len(objects) /\ (d # 0 => d = o)
  BY <1>2
<1>4. links[k] \in Connections /\ objects[o] \in Objects
  BY <1>2
<1>5. LET x == [objects[o] EXCEPT !.vsock_conn = c]
           y == [links[k] EXCEPT !.object = d]
       IN  /\ x \in Objects /\ x.vm = objects[o].vm /\ x.vsock_conn = c
           /\ y \in Connections /\ y.vm = links[k].vm /\ y.object = d
  BY <1>3, <1>4 DEF Objects, Connections
<1>6. PICK x \in Objects : x = [objects[o] EXCEPT !.vsock_conn = c] /\ x.vm = objects[o].vm /\ x.vsock_conn = c
  BY <1>5
<1>7. PICK y \in Connections : y = [links[k] EXCEPT !.object = d] /\ y.vm = links[k].vm /\ y.object = d
  BY <1>5
<1>8. objects' = SetAt(objects, o, x) /\ links' = SetAt(links, k, y)
  BY <1>6, <1>7 DEF SetAt, LinkTo
<1>9. /\ objects' \in Seq(Objects) /\ Len(objects') = Len(objects) /\ DOMAIN objects' = DOMAIN objects
      /\ objects'[o] = x /\ \A j \in DOMAIN objects : j # o => objects'[j] = objects[j]
  <2>1. PutAt(Objects, objects, o, x)
    BY <1>2, Replaced
  <2> QED
    BY <2>1, <1>8 DEF PutAt
<1>10. /\ links' \in Seq(Connections) /\ Len(links') = Len(links) /\ DOMAIN links' = DOMAIN links
      /\ links'[k] = y /\ \A j \in DOMAIN links : j # k => links'[j] = links[j]
  <2>1. PutAt(Connections, links, k, y)
    BY <1>2, Replaced
  <2> QED
    BY <2>1, <1>8 DEF PutAt
<1>11. /\ \A j \in DOMAIN links : links'[j].vm = links[j].vm
       /\ \A j \in DOMAIN objects : objects'[j].vm = objects[j].vm
  BY <1>6, <1>7, <1>9, <1>10
<1>12. HostKept' /\ DetectionKept'
  BY <1>1, HostSame, DetectionSame DEF RegistryKept
<1>13. ListKept'
  <2>1. \A j \in DOMAIN objects : objects'[j].vm \in started /\ objects'[j].vsock_conn <= Len(links)
    BY <1>3, <1>6, <1>9, <1>11 DEF RegistryKept, ListKept
  <2>2. /\ vms \in [Paths -> 0..Len(objects)]
        /\ \A p \in Paths : vms[p] # 0 => PathOf[objects[vms[p]].vm] = p
    BY DEF RegistryKept, ListKept
  <2>3. \A p \in Paths : vms[p] # 0 => PathOf[objects'[vms[p]].vm] = p
    <3> SUFFICES ASSUME NEW p \in Paths, vms[p] # 0 PROVE PathOf[objects'[vms[p]].vm] = p
      OBVIOUS
    <3>1. vms[p] \in DOMAIN objects
      BY <1>2, <2>2
    <3> QED
      BY <3>1, <2>2, <1>11
  <2> QED
    BY <2>1, <2>2, <2>3, <1>1, <1>9, <1>10 DEF ListKept
<1>14. LinksKept'
  <2>1. ASSUME NEW j \in DOMAIN links
        PROVE  /\ links'[j].vm \in started /\ links'[j].object <= Len(objects)
               /\ links'[j].object # 0 => PathOf[objects'[links'[j].object].vm] = PathOf[links'[j].vm]
    <3>1. links[j].vm \in started /\ links[j].object <= Len(objects)
          /\ (links[j].object # 0 => PathOf[objects[links[j].object].vm] = PathOf[links[j].vm])
      BY DEF RegistryKept, LinksKept
    <3>2. CASE j = k
      <4>1. links'[j].object = d /\ links'[j].vm = links[k].vm
        BY <3>2, <1>7, <1>10
      <4>2. d # 0 => PathOf[objects'[d].vm] = PathOf[links[k].vm]
        BY <1>3, <1>11
      <4> QED
        BY <4>1, <4>2, <3>1, <3>2, <1>3
    <3>3. CASE j # k
      <4>1. links'[j] = links[j] /\ links[j] \in Connections
        BY <3>3, <1>2, <1>10
      <4>2. links[j].object # 0 => links[j].object \in DOMAIN objects
        BY <4>1, <3>1, <1>2 DEF Connections
      <4> QED
        BY <4>1, <4>2, <3>1, <1>11
    <3> QED
      BY <3>2, <3>3
  <2> QED
    BY <2>1, <1>1, <1>9, <1>10 DEF LinksKept
<1>15. FirstIsListed'
  <2>1. Removals' = Removals
    BY <1>1 DEF Removals
  <2> SUFFICES ASSUME NEW p \in Paths, ~Reused(p)', file'[p] # 0
               PROVE  /\ p \notin Removals
                      /\ \A j \in DOMAIN objects : PathOf[objects'[j].vm] = p => vms[p] = j
    BY <2>1, <1>1, <1>9 DEF FirstIsListed
  <2>2. ~Reused(p) /\ file[p] # 0
    BY <1>1 DEF Reused
  <2>3. p \notin Removals /\ \A j \in DOMAIN objects : PathOf[objects[j].vm] = p => vms[p] = j
    BY <2>2 DEF RegistryKept, FirstIsListed
  <2> QED
    BY <2>3, <1>11
<1> QED
  BY <1>6, <1>7, <1>9, <1>10, <1>11, <1>12, <1>13, <1>14, <1>15 DEF LinkedAs

(***************************************************************************)
(* The listener attaches the connection, unless the Vm has one.            *)
(***************************************************************************)
LEMMA AttachKept ==
  ASSUME RegistryKept, Attach PROVE RegistryKept'
<1>1. accept.link # 0 /\ UNCHANGED <<hostVars, det, vms>>
      /\ accept' = [accept EXCEPT !.link = 0, !.object = 0]
  BY DEF Attach
<1>2. PICK k \in DOMAIN links : k = accept.link
  BY <1>1, LinkInHand
<1>3. PICK o \in DOMAIN objects : o = accept.object
  BY <1>1, LinkInHand
<1>4. /\ links[k].object = 0 /\ PathOf[objects[o].vm] = PathOf[links[k].vm]
      /\ \A j \in DOMAIN objects : objects[j].vsock_conn # k
  BY <1>1, <1>2, <1>3, LinkInHand
<1>5. /\ accept' \in [queue : Seq(Nat), link : Nat, object : Nat]
      /\ accept'.queue = accept.queue /\ accept'.link = 0
  BY <1>1 DEF RegistryKept, AcceptKept
<1>6. CASE HasLink(o)
  <2>1. objects' = objects /\ links' = [links EXCEPT ![k].open = FALSE]
    BY <1>2, <1>3, <1>6 DEF Attach, NoLink
  <2>2. /\ HostKept' /\ DetectionKept' /\ FirstIsListed' /\ ListKept' /\ LinksKept'
        /\ ThreadOwnsLink'
    BY <2>1, <1>1, ClosedKept
  <2>3. /\ Len(links') = Len(links) /\ DOMAIN links' = DOMAIN links
        /\ \A j \in DOMAIN links : links'[j].vm = links[j].vm /\ links'[j].object = links[j].object
    BY <2>1, ClosedLink DEF RegistryKept
  <2>4. AcceptKept'
    BY <2>3, <1>5 DEF RegistryKept, AcceptKept
  <2> QED
    BY <2>2, <2>4 DEF RegistryKept
<1>7. CASE ~HasLink(o)
  <2>1. /\ objects' = [objects EXCEPT ![o].vsock_conn = k]
        /\ links' = [links EXCEPT ![k].object = o]
    BY <1>2, <1>3, <1>7 DEF Attach
  <2>2. objects[o].vsock_conn = 0
    BY <1>7 DEF HasLink
  <2>3. /\ HostKept' /\ DetectionKept' /\ ListKept' /\ LinksKept' /\ FirstIsListed'
        /\ Len(links') = Len(links) /\ DOMAIN links' = DOMAIN links
        /\ DOMAIN objects' = DOMAIN objects
        /\ links'[k].object = o /\ \A j \in DOMAIN links : j # k => links'[j] = links[j]
        /\ objects'[o].vsock_conn = k /\ \A j \in DOMAIN objects : j # o => objects'[j] = objects[j]
    <3>1. LinkTo(o, k, k, o)
      BY <2>1 DEF LinkTo
    <3>2. /\ HostKept' /\ DetectionKept' /\ ListKept' /\ LinksKept' /\ FirstIsListed'
          /\ LinkedAs(o, k, k, o)
      BY <3>1, <1>1, <1>4, Linked
    <3> QED
      BY <3>2 DEF LinkedAs
  <2>4. links \in Seq(Connections) /\ DOMAIN links = 1..Len(links) /\ Len(links) \in Nat
    BY DEF RegistryKept, LinksKept
  <2>5. AcceptKept'
    <3>1. /\ accept.queue \in Seq(Nat) /\ Len(accept.queue) \in Nat
          /\ k = Len(links) - Len(accept.queue)
      BY <1>1, <1>2 DEF RegistryKept, AcceptKept
    <3>2. \A j \in DOMAIN links : j > Len(links) - Len(accept.queue) => j # k
      BY <3>1, <2>4
    <3> QED
      BY <3>2, <2>3, <1>5 DEF RegistryKept, AcceptKept
  <2>6. ThreadOwnsLink'
    <3>1. ASSUME NEW j \in DOMAIN links, links'[j].object # 0
          PROVE  objects'[links'[j].object].vsock_conn = j
      <4>1. CASE j = k
        BY <4>1, <2>3
      <4>2. CASE j # k
        <5>1. links'[j] = links[j] /\ objects[links[j].object].vsock_conn = j
          BY <4>2, <2>3, <3>1 DEF RegistryKept, ThreadOwnsLink
        <5>2. j # 0 /\ links[j].object # o
          BY <5>1, <2>2, <2>4
        <5>3. links[j].object \in DOMAIN objects
          <6>1. links[j] \in Connections /\ links[j].object <= Len(objects)
            BY DEF RegistryKept, LinksKept
          <6>2. objects \in Seq(Objects) /\ DOMAIN objects = 1..Len(objects) /\ Len(objects) \in Nat
            BY DEF RegistryKept, ListKept
          <6> QED
            BY <6>1, <6>2, <3>1, <5>1 DEF Connections
        <5> QED
          BY <5>1, <5>2, <5>3, <2>3
      <4> QED
        BY <4>1, <4>2
    <3>2. ASSUME NEW j \in DOMAIN objects, objects'[j].vsock_conn # 0
          PROVE  links'[objects'[j].vsock_conn].object = j
      <4>1. CASE j = o
        BY <4>1, <2>3
      <4>2. CASE j # o
        <5>1. objects'[j] = objects[j] /\ links[objects[j].vsock_conn].object = j
          BY <4>2, <2>3, <3>2 DEF RegistryKept, ThreadOwnsLink
        <5>2. objects[j].vsock_conn # k
          BY <1>4
        <5>3. objects[j].vsock_conn \in DOMAIN links
          <6>1. objects[j] \in Objects /\ objects[j].vsock_conn <= Len(links)
            BY DEF RegistryKept, ListKept
          <6> QED
            BY <6>1, <5>1, <3>2, <2>4 DEF Objects
        <5> QED
          BY <5>1, <5>2, <5>3, <2>3
      <4> QED
        BY <4>1, <4>2
    <3> QED
      BY <3>1, <3>2, <2>3 DEF ThreadOwnsLink
  <2> QED
    BY <2>3, <2>5, <2>6 DEF RegistryKept
<1> QED
  BY <1>6, <1>7

(***************************************************************************)
(* The thread of a connection ends: it resets the connection of its Vm,    *)
(* which is its own one.                                                   *)
(***************************************************************************)
LEMMA EndsKept ==
  ASSUME RegistryKept, NEW k \in DOMAIN links, ConsumerThreadEnds(k) PROVE RegistryKept'
<1>1. links \in Seq(Connections) /\ DOMAIN links = 1..Len(links) /\ Len(links) \in Nat
  BY DEF RegistryKept, LinksKept
<1>2. objects \in Seq(Objects) /\ DOMAIN objects = 1..Len(objects) /\ Len(objects) \in Nat
  BY DEF RegistryKept, ListKept
<1>3. PICK o \in DOMAIN objects : o = links[k].object
  <2>1. links[k] \in Connections /\ links[k].object <= Len(objects)
    BY DEF RegistryKept, LinksKept
  <2>2. links[k].object # 0
    BY DEF ConsumerThreadEnds
  <2> QED
    BY <2>1, <2>2, <1>2 DEF Connections
<1>4. o # 0 /\ PathOf[objects[o].vm] = PathOf[links[k].vm] /\ objects[o].vsock_conn = k
  <2>1. o # 0
    BY <1>2
  <2> QED
    BY <2>1, <1>3 DEF RegistryKept, LinksKept, ThreadOwnsLink
<1>5. LinkTo(o, k, 0, 0) /\ UNCHANGED <<hostVars, det, vms>> /\ accept' = accept
  BY <1>3 DEF ConsumerThreadEnds, Reset, LinkTo
<1>6. HostKept' /\ DetectionKept' /\ ListKept' /\ LinksKept' /\ FirstIsListed' /\ LinkedAs(o, k, 0, 0)
  BY <1>4, <1>5, Linked
<1>7. AcceptKept'
  <2>1. /\ Len(links') = Len(links) /\ DOMAIN links' = DOMAIN links /\ DOMAIN objects' = DOMAIN objects
        /\ \A j \in DOMAIN links : links[j].object = 0 => links'[j].object = 0
        /\ \A j \in DOMAIN links : links'[j].vm = links[j].vm
        /\ \A j \in DOMAIN objects : objects'[j].vm = objects[j].vm
    BY <1>6 DEF LinkedAs
  <2>2. accept.link # 0 => accept.link \in DOMAIN links
    BY LinkInHand
  <2> QED
    BY <2>1, <2>2, <1>5 DEF RegistryKept, AcceptKept
<1>8. ThreadOwnsLink'
  <2>1. ASSUME NEW j \in DOMAIN links, links'[j].object # 0
        PROVE  objects'[links'[j].object].vsock_conn = j
    <3>1. j # k /\ links'[j] = links[j]
      BY <2>1, <1>6 DEF LinkedAs
    <3>2. objects[links[j].object].vsock_conn = j
      BY <2>1, <3>1 DEF RegistryKept, ThreadOwnsLink
    <3>3. links[j].object # o
      BY <3>1, <3>2, <1>4
    <3>4. links[j].object \in DOMAIN objects
      <4>1. links[j] \in Connections /\ links[j].object <= Len(objects)
        BY DEF RegistryKept, LinksKept
      <4> QED
        BY <4>1, <3>1, <2>1, <1>2 DEF Connections
    <3> QED
      BY <3>1, <3>2, <3>3, <3>4, <1>6 DEF LinkedAs
  <2>2. ASSUME NEW j \in DOMAIN objects, objects'[j].vsock_conn # 0
        PROVE  links'[objects'[j].vsock_conn].object = j
    <3>1. j # o /\ objects'[j] = objects[j]
      BY <2>2, <1>6 DEF LinkedAs
    <3>2. links[objects[j].vsock_conn].object = j
      BY <2>2, <3>1 DEF RegistryKept, ThreadOwnsLink
    <3>3. objects[j].vsock_conn # k
      BY <3>1, <3>2, <1>3
    <3>4. objects[j].vsock_conn \in DOMAIN links
      <4>1. objects[j] \in Objects /\ objects[j].vsock_conn <= Len(links)
        BY DEF RegistryKept, ListKept
      <4> QED
        BY <4>1, <3>1, <2>2, <1>1 DEF Objects
    <3> QED
      BY <3>1, <3>2, <3>3, <3>4, <1>6 DEF LinkedAs
  <2>3. DOMAIN links' = DOMAIN links /\ DOMAIN objects' = DOMAIN objects
    BY <1>6 DEF LinkedAs
  <2> QED
    BY <2>1, <2>2, <2>3 DEF ThreadOwnsLink
<1> QED
  BY <1>6, <1>7, <1>8 DEF RegistryKept

-----------------------------------------------------------------------------
(* The theorems. *)

(***************************************************************************)
(* Every step of the orchestrator, of a hypervisor or of a guest keeps the *)
(* invariant.                                                              *)
(***************************************************************************)
LEMMA NextRegistry ==
  ASSUME RegistryKept, [Next]_vars PROVE RegistryKept'
<1>1. CASE DetectionThread
  BY <1>1, FilesKept, ProbesKept, InsertKept, RemoveKept, ReleaseKept DEF DetectionThread
<1>2. CASE Listener
  BY <1>2, FindKept, AttachKept DEF Listener
<1>3. CASE Host
  <2>1. ASSUME NEW v \in Vms, StartVm(v) PROVE RegistryKept'
    BY <2>1, StartKept
  <2>2. ASSUME NEW v \in alive, EndVm(v) \/ CrashVm(v) \/ GuestConnects(v) PROVE RegistryKept'
    BY <2>2, EndKept, CrashKept, GuestConnectsKept
  <2>3. ASSUME NEW k \in DOMAIN links, GuestCloses(k) PROVE RegistryKept'
    BY <2>3, GuestClosesKept
  <2> QED
    BY <1>3, <2>1, <2>2, <2>3 DEF Host
<1>4. ASSUME NEW k \in DOMAIN links, ConsumerThreadEnds(k) PROVE RegistryKept'
  BY <1>4, EndsKept
<1>5. ASSUME \/ \E k \in DOMAIN links : ReserveAreas(k)
             \/ \E o \in areas : ReleaseAreas(o)
      PROVE  RegistryKept'
  BY <1>5, ReleaseKept
<1>6. CASE UNCHANGED vars
  <2>1. UNCHANGED <<started, alive, file, events, det, vms, objects, links, accept>>
    BY <1>6 DEF vars, hostVars
  <2>2. links \in Seq(Connections) /\ Len(links) \in Nat /\ started \subseteq started'
    BY <2>1 DEF RegistryKept, LinksKept
  <2> QED
    BY <2>1, <2>2, HostSame, DetectionSame, ListSame, LinksSame, AcceptSame, FirstSame
    DEF RegistryKept
<1> QED
  BY <1>1, <1>2, <1>3, <1>4, <1>5, <1>6 DEF Next

(***************************************************************************)
(* The Vm of a guest's thread and the guest's own VM have one path: if it  *)
(* was not reused, they are one VM.                                        *)
(***************************************************************************)
LEMMA KeptServes ==
  ASSUME RegistryKept PROVE ServedByItsVm
<1> SUFFICES ASSUME NEW k \in DOMAIN links, links[k].object # 0, ~Reused(PathOf[links[k].vm])
             PROVE  /\ objects[links[k].object].vm = links[k].vm
                    /\ file[PathOf[links[k].vm]] = links[k].vm =>
                         vms[PathOf[links[k].vm]] = links[k].object
  BY DEF ServedByItsVm
<1>1. PICK v : v = links[k].vm
  OBVIOUS
<1>2. PICK o : o = links[k].object
  OBVIOUS
<1>3. o \in DOMAIN objects
  <2>1. links[k] \in Connections /\ o <= Len(objects) /\ o # 0
    BY <1>2 DEF RegistryKept, LinksKept
  <2>2. objects \in Seq(Objects) /\ DOMAIN objects = 1..Len(objects) /\ Len(objects) \in Nat
    BY DEF RegistryKept, ListKept
  <2> QED
    BY <2>1, <2>2, <1>2 DEF Connections
<1>4. PICK w : w = objects[o].vm
  OBVIOUS
<1>5. v \in started /\ w \in started /\ PathOf[w] = PathOf[v]
  BY <1>1, <1>2, <1>3, <1>4 DEF RegistryKept, LinksKept, ListKept
<1>6. IsFiniteSet(started) /\ started \subseteq Vms
  BY DEF RegistryKept, HostKept
<1>7. ~(Cardinality(VmsAt(started, PathOf[v])) > 1)
  BY <1>1 DEF Reused, VmsAt
<1>8. w = v
  BY <1>5, <1>6, <1>7, OnlyOne
<1>9. file[PathOf[v]] = v => vms[PathOf[v]] = o
  <2>1. PathOf[v] \in Paths /\ v # 0
    BY <1>5, <1>6, RegistryAssumption
  <2> QED
    BY <2>1, <1>1, <1>3, <1>4, <1>5 DEF RegistryKept, FirstIsListed
<1> QED
  BY <1>1, <1>2, <1>4, <1>8, <1>9

(***************************************************************************)
(* A Vm whose VM runs leaves the list only at a path that was reused.      *)
(***************************************************************************)
LEMMA KeptRemoves ==
  ASSUME RegistryKept, [Next]_vars, NEW p \in Paths, vms[p] # 0, vms'[p] = 0,
         objects[vms[p]].vm \in alive
  PROVE  Reused(p)
<1>1. vms' # vms
  OBVIOUS
<1>2. vms \in [Paths -> 0..Len(objects)] /\ objects \in Seq(Objects) /\ Len(objects) \in Nat
      /\ PathOf[objects[vms[p]].vm] = p
  BY DEF RegistryKept, ListKept
<1>3. CASE Insert
  <2>1. /\ det.path \in Paths /\ vms' = [vms EXCEPT ![det.path] = Len(objects) + 1]
    BY <1>3 DEF Insert, RegistryKept, DetectionKept
  <2> QED
    BY <2>1, <1>2
<1>4. CASE RemoveVm
  <2>1. PICK q : q = Head(events).path
    OBVIOUS
  <2>2. q \in Paths /\ (file[q] = 0 \/ Reused(q))
    BY <2>1, <1>4, RemovalIsDue
  <2>3. q = p
    BY <2>1, <1>2, <1>4 DEF RemoveVm
  <2>4. file[p] = objects[vms[p]].vm
    BY <1>2 DEF RegistryKept, HostKept
  <2>5. objects[vms[p]].vm # 0
    BY RegistryAssumption DEF RegistryKept, HostKept
  <2> QED
    BY <2>2, <2>3, <2>4, <2>5
<1> QED
  BY <1>1, <1>3, <1>4
  DEF Next, vars, DetectionThread, Listener, Host, Watch, Scan, NextFile, CheckFile, ConnectQmp,
      ProbeAnswered, ProbeFails, FindConsumer, Attach, StartVm, EndVm, CrashVm, GuestConnects,
      GuestCloses, ConsumerThreadEnds, ReleaseAll, ReserveAreas, ReleaseAreas

(***************************************************************************)
(* The registry's invariant holds of vm_detection.rs and of the listener   *)
(* of consumer.rs, whatever hypervisors and guests do.                     *)
(***************************************************************************)
THEOREM RegistryKeptAlways == Spec => []RegistryKept
<1>1. Init => RegistryKept
  BY InitRegistry
<1>2. RegistryKept /\ [Next]_vars => RegistryKept'
  BY NextRegistry
<1> QED
  BY <1>1, <1>2, PTL DEF Spec

(***************************************************************************)
(* A thread that ends resets its own connection and no other (the reset of *)
(* vsock_conn at the end of consumer_thread).                              *)
(***************************************************************************)
THEOREM ThreadOwnsLinkAlways == Spec => []ThreadOwnsLink
<1>1. RegistryKept => ThreadOwnsLink
  BY DEF RegistryKept
<1> QED
  BY <1>1, RegistryKeptAlways, PTL

(***************************************************************************)
(* A guest is served by the Vm of its own hypervisor (get_consumer finds   *)
(* it by the CID), unless the path was reused.                             *)
(***************************************************************************)
THEOREM ServedByItsVmAlways == Spec => []ServedByItsVm
<1>1. RegistryKept => ServedByItsVm
  BY KeptServes
<1> QED
  BY <1>1, RegistryKeptAlways, PTL

(***************************************************************************)
(* remove_vms never takes a Vm from the list whose VM runs, unless the     *)
(* path was reused.                                                        *)
(***************************************************************************)
THEOREM RemovedIsGoneAlways == Spec => RemovedIsGone
<1> DEFINE A == \A p \in Paths : vms[p] # 0 /\ vms'[p] = 0 =>
                  objects[vms[p]].vm \notin alive \/ Reused(p)
<1>1. RegistryKept /\ [Next]_vars => [A]_vars
  BY KeptRemoves
<1> QED
  BY <1>1, RegistryKeptAlways, PTL DEF Spec, RemovedIsGone
=============================================================================
