-------------------------- MODULE GuestStackProofs --------------------------
(***************************************************************************)
(* Proofs about ephemerald and libephmem_reserve, for any number of        *)
(* processes, connections and requests.                                    *)
(***************************************************************************)
EXTENDS GuestStack, FiniteSetTheorems, TLAPS

-----------------------------------------------------------------------------
(* The inductive invariant, in layers: types and requests, connections,    *)
(* requests on their way, the origin of what is granted, memory on its     *)
(* way, and answers on their way.                                          *)

Written == [size : Nat \ {0}, ask : Asks]
Answers == [size : Nat, ask : Asks \cup {0}]
Responses == [id : Ids, size : {Granularity}, offset : Offsets, more : BOOLEAN]
Pending == [id : Ids \cup {-1}, requested : Nat, received : Nat,
            allocations : SUBSET Offsets, ask : Asks \cup {0}]

Busy == {"check", "forward", "deny", "send"}

(* The requests that no reader has taken from its socket. *)
Unread == { a \in Asks : \E c \in Conns : \E i \in DOMAIN inbox[c] : inbox[c][i].ask = a }

Readers == [at : {"none", "reading", "done"} \cup Busy, msg : Messages]
Processes == [conn : Conns \cup {0}, at : {"idle", "drained", "waiting"},
              amount : Nat, ask : Asks \cup {0}, got : Nat, late : BOOLEAN]

DaemonTypes ==
  /\ clients \in [Pids -> Conns \cup {0}]
  /\ pending \in [Conns -> Pending] /\ allocations \in [Conns -> SUBSET Offsets]
  /\ reader \in [Conns -> Readers]
  /\ orch \in [at : {"reading", "found", "send"}, msg : Messages]
  /\ daemon \in {"running", "exited"} /\ request_id \in Nat
  /\ lost \subseteq Ids /\ client_of \in [Ids -> Conns \cup {0}] /\ granted \subseteq Ids \X Offsets

SocketTypes ==
  /\ owner \in [Conns -> Pids \cup {0}] /\ closed \subseteq Conns /\ backlog \in Seq(Conns)
  /\ outbox \in [Conns -> Seq(Answers)] /\ inbox \in [Conns -> Seq(Written)]

VsockTypes ==
  /\ requests \in Seq([id : Ids, size : Nat]) /\ responses \in Seq(Responses)
  /\ link \in {"up", "down"}
  /\ granting \in Pending /\ (granting = NoRequest \/ granting.id \in Ids)

AppTypes == app \in [Pids -> Processes] /\ asks \in 0..MaxAsks

TypesKept == DaemonTypes /\ SocketTypes /\ VsockTypes /\ AppTypes

(* What the threads of the daemon and the processes have in hand. *)
HandsKept ==
  /\ \A c \in Conns : reader[c].at \in Busy =>
       reader[c].msg.client \in Conns /\ reader[c].msg.id \in Ids
  /\ orch.at \in {"found", "send"} => orch.msg.client \in Conns /\ orch.msg.id \in Ids
  /\ \A p \in Pids :
       /\ app[p].at # "idle" => app[p].conn # 0
       /\ app[p].at = "drained" => app[p].amount > 0

(* A request is written once, and REQUEST_ID_COUNTER counts those read. *)
RequestsKept ==
  /\ \A c \in Conns : \A i \in DOMAIN inbox[c] : inbox[c][i].ask <= asks
  /\ \A c, d \in Conns : \A i \in DOMAIN inbox[c], j \in DOMAIN inbox[d] :
       inbox[c][i].ask = inbox[d][j].ask => c = d /\ i = j
  /\ request_id + Cardinality(Unread) <= asks

(* Connections are accepted in the order in which they were made, and a    *)
(* process has the last one of its pid.                                    *)
ConnectionsKept ==
  /\ \A i, j \in DOMAIN backlog : i < j => backlog[i] < backlog[j]
  /\ \A c \in Conns, i \in DOMAIN backlog : reader[c].at # "none" => c < backlog[i]
  /\ \A i \in DOMAIN backlog : owner[backlog[i]] # 0
  /\ \A c \in Conns : reader[c].at # "none" => owner[c] # 0
  /\ \A c \in closed : owner[c] # 0
  /\ \A c, d \in Conns : owner[c] # 0 /\ d < c => owner[d] # 0
  /\ \A p \in Pids : app[p].conn # 0 =>
       /\ owner[app[p].conn] = p /\ app[p].conn \notin closed
       /\ \A c \in Conns : owner[c] = p => c <= app[p].conn
  /\ \A p \in Pids : clients[p] # 0 => owner[clients[p]] = p /\ reader[clients[p]].at # "none"

GuestKept == TypesKept /\ HandsKept /\ RequestsKept /\ ConnectionsKept /\ StaysRegistered

-----------------------------------------------------------------------------
(* Lemmas about the parts of the invariant. *)

(***************************************************************************)
(* The numbers of connections and requests.                                *)
(***************************************************************************)
LEMMA Numbers ==
  /\ MaxConns \in Nat /\ MaxAsks \in Nat /\ Granularity \in Nat /\ Granularity > 0
  /\ Conns \subseteq Nat /\ 0 \notin Conns /\ Asks \subseteq Nat /\ Ids \subseteq Nat
  /\ Pids \subseteq Nat /\ 0 \notin Pids /\ 0 \in Offsets
  /\ NoMessage \in Messages /\ NoRequest \in Pending
BY EphemeraldAssumption DEF Conns, Asks, Ids, NoMessage, NoRequest, Messages, Pending

(***************************************************************************)
(* An action that leaves the queue of requests alone.                      *)
(***************************************************************************)
LEMMA RequestsSame ==
  ASSUME RequestsKept, UNCHANGED <<inbox, asks, request_id>> PROVE RequestsKept'
<1>1. Unread' = Unread
  BY DEF Unread
<1> QED
  BY <1>1 DEF RequestsKept

(* No connection is made, accepted or closed, and no client changes. *)
NoConnection ==
  /\ UNCHANGED <<backlog, owner, closed, clients>>
  /\ \A p \in Pids : app'[p].conn = app[p].conn
  /\ \A c \in Conns : /\ reader'[c].at = "none" <=> reader[c].at = "none"
                      /\ reader'[c].at = "done" <=> reader[c].at = "done"

(***************************************************************************)
(* Such a step leaves the connections as they are.                         *)
(***************************************************************************)
LEMMA ConnectionsSame ==
  ASSUME TypesKept, ConnectionsKept, StaysRegistered, NoConnection
  PROVE  ConnectionsKept' /\ StaysRegistered'
<1>1. /\ \A i \in DOMAIN backlog : backlog[i] \in Conns
      /\ \A p \in Pids : clients[p] # 0 => clients[p] \in Conns
      /\ \A p \in Pids : app[p].conn # 0 => app[p].conn \in Conns
  BY DEF TypesKept, SocketTypes, DaemonTypes, AppTypes, Processes
<1>2. ConnectionsKept'
  BY <1>1 DEF ConnectionsKept, NoConnection
<1>3. StaysRegistered'
  BY <1>1 DEF StaysRegistered, NoConnection
<1> QED
  BY <1>2, <1>3

(***************************************************************************)
(* What the threads have in hand, when none of them moves.                 *)
(***************************************************************************)
LEMMA HandsSame ==
  ASSUME HandsKept, UNCHANGED <<reader, orch, app>> PROVE HandsKept'
BY DEF HandsKept

(***************************************************************************)
(* All starts empty.                                                       *)
(***************************************************************************)
LEMMA InitGuest ==
  ASSUME Init PROVE GuestKept
<1>1. EphemeraldInit /\ app = [p \in Pids |-> NewProcess] /\ asks = 0 /\ granting = NoRequest
  BY DEF Init
<1>2. DaemonTypes
  BY <1>1, Numbers DEF DaemonTypes, EphemeraldInit, At, Readers
<1>3. SocketTypes
  BY <1>1 DEF SocketTypes, EphemeraldInit
<1>4. VsockTypes
  BY <1>1, Numbers DEF VsockTypes, EphemeraldInit
<1>5. AppTypes
  BY <1>1, Numbers DEF AppTypes, Processes, NewProcess
<1>6. HandsKept
  <2>1. orch.at = "reading" /\ \A c \in Conns : reader[c].at = "none"
    BY <1>1 DEF EphemeraldInit, At
  <2>2. \A p \in Pids : app[p].at = "idle"
    BY <1>1 DEF NewProcess
  <2> QED
    BY <2>1, <2>2 DEF HandsKept, Busy
<1>7. RequestsKept
  <2>1. \A c \in Conns : DOMAIN inbox[c] = {}
    BY <1>1 DEF EphemeraldInit
  <2>2. Unread = {}
    BY <2>1 DEF Unread
  <2>3. Cardinality(Unread) = 0
    BY <2>2, FS_EmptySet
  <2>4. request_id = 0
    BY <1>1 DEF EphemeraldInit
  <2> QED
    BY <2>1, <2>3, <2>4, <1>1 DEF RequestsKept
<1>8. ConnectionsKept /\ StaysRegistered
  <2>1. /\ DOMAIN backlog = {} /\ closed = {}
        /\ \A c \in Conns : reader[c].at = "none" /\ owner[c] = 0
    BY <1>1 DEF EphemeraldInit, At
  <2>2. \A p \in Pids : clients[p] = 0 /\ app[p].conn = 0
    BY <1>1 DEF EphemeraldInit, NewProcess
  <2> QED
    BY <2>1, <2>2 DEF ConnectionsKept, StaysRegistered
<1> QED
  BY <1>2, <1>3, <1>4, <1>5, <1>6, <1>7, <1>8 DEF GuestKept, TypesKept

-----------------------------------------------------------------------------
(* The listener. *)

(***************************************************************************)
(* Of the connections in the backlog the listener accepts the oldest one.  *)
(***************************************************************************)
LEMMA Oldest ==
  ASSUME SocketTypes, ConnectionsKept, backlog # <<>>
  PROVE  /\ Head(backlog) \in Conns /\ Tail(backlog) \in Seq(Conns)
         /\ owner[Head(backlog)] \in Pids /\ reader[Head(backlog)].at = "none"
         /\ \A c \in Conns : reader[c].at # "none" => c < Head(backlog)
         /\ \A i, j \in DOMAIN Tail(backlog) : i < j => Tail(backlog)[i] < Tail(backlog)[j]
         /\ \A i \in DOMAIN Tail(backlog) :
              /\ Head(backlog) < Tail(backlog)[i] /\ owner[Tail(backlog)[i]] # 0
              /\ \A c \in Conns : reader[c].at # "none" => c < Tail(backlog)[i]
<1>1. backlog \in Seq(Conns) /\ Len(backlog) \in Nat /\ Len(backlog) > 0
      /\ DOMAIN backlog = 1..Len(backlog)
  BY DEF SocketTypes
<1>2. Head(backlog) = backlog[1] /\ 1 \in DOMAIN backlog /\ backlog[1] \in Conns
  BY <1>1
<1>3. /\ Tail(backlog) \in Seq(Conns) /\ DOMAIN Tail(backlog) = 1..(Len(backlog) - 1)
      /\ \A i \in DOMAIN Tail(backlog) : Tail(backlog)[i] = backlog[i + 1]
  BY <1>1
<1>4. \A i \in DOMAIN Tail(backlog) : i \in Nat /\ i + 1 \in DOMAIN backlog /\ 1 < i + 1
  BY <1>1, <1>3
<1>5. \A i, j \in DOMAIN Tail(backlog) : i < j => i + 1 < j + 1
  BY <1>4
<1>6. reader[backlog[1]].at = "none"
  <2>1. \A n \in Nat : ~(n < n)
    OBVIOUS
  <2>2. ~(backlog[1] < backlog[1])
    BY <2>1, <1>2, Numbers
  <2> QED
    BY <2>2, <1>2 DEF ConnectionsKept
<1>7. owner[backlog[1]] \in Pids
  BY <1>2 DEF ConnectionsKept, SocketTypes
<1> QED
  BY <1>2, <1>3, <1>4, <1>5, <1>6, <1>7 DEF ConnectionsKept

(***************************************************************************)
(* A connection is accepted: it becomes the client of its pid, or it is    *)
(* closed again.                                                           *)
(***************************************************************************)
LEMMA AcceptKept ==
  ASSUME GuestKept, Listener, UNCHANGED <<app, asks, granting>> PROVE GuestKept'
<1>1. PICK c \in Conns : c = Head(backlog)
  BY Oldest DEF GuestKept, TypesKept, Listener, Register, Refuse, Accept
<1>2. PICK a \in {"reading", "done"} :
        /\ reader' = [reader EXCEPT ![c].at = a]
        /\ \/ a = "reading" /\ clients' = [clients EXCEPT ![owner[c]] = c]
           \/ a = "done" /\ clients' = clients
  BY <1>1 DEF Listener, Register, Refuse
<1>3. /\ backlog # <<>> /\ backlog' = Tail(backlog)
      /\ UNCHANGED <<pending, allocations, orch, request_id, daemon, owner, closed, inbox, outbox,
                     requests, responses, link, client_of, granted, lost, app, asks, granting>>
  BY DEF Listener, Register, Refuse, Accept, vsockVars, historyVars
<1>4. /\ Tail(backlog) \in Seq(Conns)
      /\ owner[c] \in Pids /\ reader[c].at = "none"
      /\ \A d \in Conns : reader[d].at # "none" => d < c
      /\ \A i, j \in DOMAIN Tail(backlog) : i < j => Tail(backlog)[i] < Tail(backlog)[j]
      /\ \A i \in DOMAIN Tail(backlog) :
           /\ c < Tail(backlog)[i] /\ owner[Tail(backlog)[i]] # 0
           /\ \A d \in Conns : reader[d].at # "none" => d < Tail(backlog)[i]
  BY <1>1, <1>3, Oldest DEF GuestKept, TypesKept
<1>5. DaemonTypes /\ SocketTypes /\ VsockTypes /\ AppTypes
  BY DEF GuestKept, TypesKept
<1>6. /\ reader' \in [Conns -> Readers] /\ reader'[c].at = a /\ reader'[c].msg = reader[c].msg
      /\ \A d \in Conns : d # c => reader'[d] = reader[d]
  BY <1>2, <1>5 DEF DaemonTypes, Readers
<1>7. clients' \in [Pids -> Conns \cup {0}]
  BY <1>2, <1>4, <1>5 DEF DaemonTypes
<1>8. TypesKept'
  <2>1. DaemonTypes'
    BY <1>3, <1>5, <1>6, <1>7 DEF DaemonTypes
  <2>2. SocketTypes'
    BY <1>3, <1>4, <1>5 DEF SocketTypes
  <2>3. VsockTypes' /\ AppTypes'
    BY <1>3, <1>5 DEF VsockTypes, AppTypes
  <2> QED
    BY <2>1, <2>2, <2>3 DEF TypesKept
<1>9. HandsKept'
  BY <1>3, <1>6 DEF GuestKept, HandsKept, Busy
<1>10. RequestsKept'
  BY <1>3, RequestsSame DEF GuestKept
<1>11. \A d \in Conns : owner[d] \in Pids \/ owner[d] = 0
  BY <1>5 DEF SocketTypes
<1>12. c \in Nat /\ 0 \notin Pids /\ 0 \notin Conns
  BY Numbers
<1>13. ConnectionsKept'
  <2>1. \A p \in Pids : clients'[p] = clients[p] \/ (p = owner[c] /\ clients'[p] = c)
    BY <1>2, <1>5 DEF DaemonTypes
  <2>2. \A p \in Pids : clients'[p] # 0 => owner[clients'[p]] = p /\ reader'[clients'[p]].at # "none"
    <3> SUFFICES ASSUME NEW p \in Pids, clients'[p] # 0
                 PROVE  owner[clients'[p]] = p /\ reader'[clients'[p]].at # "none"
      OBVIOUS
    <3>1. CASE p = owner[c] /\ clients'[p] = c
      BY <3>1, <1>6
    <3>2. CASE clients'[p] = clients[p]
      <4>1. clients[p] \in Conns /\ owner[clients[p]] = p /\ reader[clients[p]].at # "none"
        BY <3>2, <1>5 DEF GuestKept, ConnectionsKept, DaemonTypes
      <4> QED
        BY <4>1, <3>2, <1>4, <1>6
    <3> QED
      BY <2>1, <3>1, <3>2
  <2>3. \A d \in Conns : reader'[d].at # "none" => d = c \/ reader[d].at # "none"
    BY <1>6
  <2>4. \A d \in Conns, i \in DOMAIN backlog' : reader'[d].at # "none" => d < backlog'[i]
    BY <2>3, <1>3, <1>4
  <2>5. \A d \in Conns : reader'[d].at # "none" => owner'[d] # 0
    BY <2>3, <1>3, <1>4, <1>12 DEF GuestKept, ConnectionsKept
  <2> QED
    BY <2>2, <2>4, <2>5, <1>3, <1>4 DEF GuestKept, ConnectionsKept
<1>14. StaysRegistered'
  <2> SUFFICES ASSUME NEW p \in Pids, app[p].conn # 0,
                      reader'[app[p].conn].at \notin {"none", "done"}
               PROVE  clients'[p] = app[p].conn
    BY <1>3 DEF StaysRegistered
  <2>1. PICK d \in Conns : d = app[p].conn
    BY <1>5 DEF AppTypes, Processes
  <2>2. owner[d] = p /\ \A e \in Conns : owner[e] = p => e <= d
    BY <2>1 DEF GuestKept, ConnectionsKept
  <2>3. CASE d = c
    BY <2>1, <2>2, <2>3, <1>2, <1>5, <1>6 DEF DaemonTypes
  <2>4. CASE d # c
    <3>1. reader[d].at \notin {"none", "done"} /\ clients[p] = d
      BY <2>1, <2>4, <1>6 DEF GuestKept, StaysRegistered
    <3>2. d < c
      BY <3>1, <1>4
    <3>3. d \in Nat /\ c \in Nat
      BY Numbers
    <3>4. owner[c] # p
      BY <2>2, <3>2, <3>3
    <3>5. clients'[p] = clients[p]
      BY <3>4, <1>2, <1>5 DEF DaemonTypes
    <3> QED
      BY <3>1, <3>5, <2>1
  <2> QED
    BY <2>3, <2>4
<1> QED
  BY <1>8, <1>9, <1>10, <1>13, <1>14 DEF GuestKept

-----------------------------------------------------------------------------
(* The readers. *)

(***************************************************************************)
(* What a step of a reader that is at work, and stays so, changes of it.   *)
(***************************************************************************)
LEMMA ReaderMoves ==
  ASSUME TypesKept, HandsKept, NEW c \in Conns, reader[c].at \notin {"none", "done"},
         NEW x \in Readers, x.at \notin {"none", "done"},
         x.at \in Busy => x.msg.client \in Conns /\ x.msg.id \in Ids,
         reader' = [reader EXCEPT ![c] = x]
  PROVE  /\ reader' \in [Conns -> Readers]
         /\ orch' = orch /\ app' = app => HandsKept'
         /\ UNCHANGED <<backlog, owner, closed, clients, app>> => NoConnection
<1>1. reader \in [Conns -> Readers]
  BY DEF TypesKept, DaemonTypes
<1>2. reader' \in [Conns -> Readers] /\ reader'[c] = x /\ \A d \in Conns : d # c => reader'[d] = reader[d]
  BY <1>1
<1>3. ASSUME orch' = orch, app' = app PROVE HandsKept'
  BY <1>2, <1>3 DEF HandsKept
<1>4. ASSUME UNCHANGED <<backlog, owner, closed, clients, app>> PROVE NoConnection
  BY <1>2, <1>4 DEF NoConnection
<1> QED
  BY <1>2, <1>3, <1>4

(***************************************************************************)
(* Rounding up keeps a size a natural number.                              *)
(***************************************************************************)
LEMMA RoundUpNat == \A n \in Nat : RoundUp(n) \in Nat
<1> SUFFICES ASSUME NEW n \in Nat PROVE RoundUp(n) \in Nat
  OBVIOUS
<1>1. PICK g \in Nat : g = Granularity /\ g > 0
  BY Numbers
<1>2. n + g - 1 \in Nat
  BY <1>1
<1>3. ((n + g - 1) \div g) \in Nat
  BY <1>1, <1>2
<1>4. \A k \in Nat : k * g \in Nat
  BY <1>1
<1> QED
  BY <1>1, <1>3, <1>4 DEF RoundUp

(***************************************************************************)
(* The first request of a socket is taken from it: it leaves the set of    *)
(* those to read, of which REQUEST_ID_COUNTER has counted none.            *)
(***************************************************************************)
LEMMA RequestRead ==
  ASSUME GuestKept, NEW c \in Conns, inbox[c] # <<>>, asks' = asks,
         inbox' = [inbox EXCEPT ![c] = Tail(inbox[c])], request_id' \in {request_id, request_id + 1}
  PROVE  /\ Head(inbox[c]) \in Written /\ inbox' \in [Conns -> Seq(Written)]
         /\ request_id \in Ids /\ request_id' \in Nat /\ RequestsKept'
<1> DEFINE s == inbox[c]
           m == Head(inbox[c])
<1>1. /\ inbox \in [Conns -> Seq(Written)] /\ request_id \in Nat /\ asks \in Nat /\ asks <= MaxAsks
      /\ MaxAsks \in Nat
  BY Numbers DEF GuestKept, TypesKept, SocketTypes, DaemonTypes, AppTypes
<1>2. s \in Seq(Written) /\ Len(s) \in Nat /\ Len(s) > 0 /\ DOMAIN s = 1..Len(s)
  BY <1>1
<1>3. m = s[1] /\ 1 \in DOMAIN s /\ m \in Written
  BY <1>2
<1>4. /\ Tail(s) \in Seq(Written) /\ DOMAIN Tail(s) = 1..(Len(s) - 1)
      /\ \A i \in DOMAIN Tail(s) : Tail(s)[i] = s[i + 1]
  BY <1>2
<1>5. /\ inbox' \in [Conns -> Seq(Written)] /\ inbox'[c] = Tail(s)
      /\ \A d \in Conns : d # c => inbox'[d] = inbox[d]
  BY <1>1, <1>4
<1>6. \A i \in DOMAIN Tail(s) : i \in Nat /\ i + 1 \in DOMAIN s /\ i + 1 # 1
  BY <1>2, <1>4
<1>7. \A i \in DOMAIN s : i = 1 \/ (i - 1 \in DOMAIN Tail(s) /\ (i - 1) + 1 = i)
  BY <1>2, <1>4
<1>8. /\ \A d, e \in Conns : \A i \in DOMAIN inbox[d], j \in DOMAIN inbox[e] :
           inbox[d][i].ask = inbox[e][j].ask => d = e /\ i = j
      /\ \A d \in Conns : \A i \in DOMAIN inbox[d] : inbox[d][i].ask <= asks
      /\ request_id + Cardinality(Unread) <= asks
  BY DEF GuestKept, RequestsKept
<1>9. m.ask \in Unread
  <2>1. m.ask \in Asks
    BY <1>3 DEF Written
  <2> QED
    BY <2>1, <1>3 DEF Unread
<1>10. Unread' = Unread \ {m.ask}
  <2>1. ASSUME NEW a \in Unread' PROVE a \in Unread \ {m.ask}
    <3>5. PICK d \in Conns : \E i \in DOMAIN inbox'[d] : inbox'[d][i].ask = a
      BY <2>1 DEF Unread
    <3>1. PICK i \in DOMAIN inbox'[d] : inbox'[d][i].ask = a
      BY <3>5
    <3>2. a \in Asks
      BY <2>1 DEF Unread
    <3>3. CASE d = c
      <4>1. i \in DOMAIN Tail(s) /\ s[i + 1].ask = a /\ i + 1 \in DOMAIN s /\ i + 1 # 1
        BY <3>1, <3>3, <1>4, <1>5, <1>6
      <4>2. a # m.ask
        BY <4>1, <1>3, <1>8
      <4> QED
        BY <4>1, <4>2, <3>2 DEF Unread
    <3>4. CASE d # c
      <4>1. i \in DOMAIN inbox[d] /\ inbox[d][i].ask = a
        BY <3>1, <3>4, <1>5
      <4>2. a # m.ask
        BY <4>1, <3>4, <1>3, <1>8
      <4> QED
        BY <4>1, <4>2, <3>2 DEF Unread
    <3> QED
      BY <3>3, <3>4
  <2>2. ASSUME NEW a \in Unread \ {m.ask} PROVE a \in Unread'
    <3>5. PICK d \in Conns : \E i \in DOMAIN inbox[d] : inbox[d][i].ask = a
      BY <2>2 DEF Unread
    <3>1. PICK i \in DOMAIN inbox[d] : inbox[d][i].ask = a
      BY <3>5
    <3>2. a \in Asks
      BY <2>2 DEF Unread
    <3>3. CASE d = c
      <4>1. i # 1
        BY <3>1, <3>3, <2>2, <1>3
      <4>2. i - 1 \in DOMAIN inbox'[c] /\ inbox'[c][i - 1].ask = a
        BY <4>1, <3>1, <3>3, <1>4, <1>5, <1>7
      <4> QED
        BY <4>2, <3>2 DEF Unread
    <3>4. CASE d # c
      BY <3>1, <3>2, <3>4, <1>5 DEF Unread
    <3> QED
      BY <3>3, <3>4
  <2> QED
    BY <2>1, <2>2
<1>11. IsFiniteSet(Unread)
  <2>1. IsFiniteSet(Asks)
    BY <1>1, FS_Interval DEF Asks
  <2> QED
    BY <2>1, FS_Subset DEF Unread
<1>12. Cardinality(Unread) \in Nat /\ Cardinality(Unread') = Cardinality(Unread) - 1
       /\ Cardinality(Unread') \in Nat
  <2>1. Cardinality(Unread) \in Nat
    BY <1>11, FS_CardinalityType
  <2>2. IsFiniteSet(Unread') /\ Cardinality(Unread') = Cardinality(Unread) - 1
    BY <1>9, <1>10, <1>11, FS_RemoveElement
  <2>3. Cardinality(Unread') \in Nat
    BY <2>2, FS_CardinalityType
  <2> QED
    BY <2>1, <2>2, <2>3
<1>13. request_id \in Ids /\ request_id' \in Nat /\ request_id' + Cardinality(Unread') <= asks
  <2> DEFINE k == Cardinality(Unread)
             l == Cardinality(Unread')
  <2>1. k \in Nat /\ l \in Nat /\ l = k - 1 /\ request_id + k <= asks
    BY <1>8, <1>12
  <2> HIDE DEF k, l
  <2>2. request_id < asks /\ request_id' + l <= asks /\ request_id' \in Nat
    <3>1. \A u, v, x, n, y \in Nat : /\ v = u - 1 /\ x + u <= n /\ y \in {x, x + 1}
                                     => x < n /\ y + v <= n
      OBVIOUS
    <3>2. request_id' \in Nat
      BY <1>1
    <3> QED
      BY <3>1, <3>2, <2>1, <1>1
  <2> QED
    BY <2>2, <1>1 DEF Ids, l
<1>14. RequestsKept'
  <2>1. \A d \in Conns : \A i \in DOMAIN inbox'[d] :
          \/ d # c /\ i \in DOMAIN inbox[d] /\ inbox'[d][i] = inbox[d][i]
          \/ d = c /\ i \in Nat /\ i + 1 \in DOMAIN inbox[d] /\ inbox'[d][i] = inbox[d][i + 1]
    BY <1>4, <1>5, <1>6
  <2>2. \A d \in Conns : \A i \in DOMAIN inbox'[d] : inbox'[d][i].ask <= asks
    BY <2>1, <1>8
  <2>3. ASSUME NEW d \in Conns, NEW e \in Conns, NEW i \in DOMAIN inbox'[d], NEW j \in DOMAIN inbox'[e],
               inbox'[d][i].ask = inbox'[e][j].ask
        PROVE  d = e /\ i = j
    <3>1. CASE d = c /\ e = c
      <4>1. i \in Nat /\ j \in Nat /\ i + 1 = j + 1
        BY <3>1, <2>1, <2>3, <1>8
      <4> QED
        BY <4>1, <3>1
    <3>2. CASE d # c /\ e # c
      BY <3>2, <2>1, <2>3, <1>8
    <3>3. CASE d = c /\ e # c
      BY <3>3, <2>1, <2>3, <1>8
    <3>4. CASE d # c /\ e = c
      BY <3>4, <2>1, <2>3, <1>8
    <3> QED
      BY <3>1, <3>2, <3>3, <3>4
  <2> QED
    BY <2>2, <2>3, <1>13 DEF RequestsKept
<1> QED
  BY <1>3, <1>5, <1>13, <1>14

(***************************************************************************)
(* A request is read: it gets an id, or is passed over.                    *)
(***************************************************************************)
LEMMA ReadKept ==
  ASSUME GuestKept, NEW c \in Conns, ReadRequest(c), UNCHANGED <<app, asks, granting>>
  PROVE  GuestKept'
<1>1. /\ reader[c].at = "reading" /\ inbox[c] # <<>>
      /\ inbox' = [inbox EXCEPT ![c] = Tail(inbox[c])]
      /\ request_id' \in {request_id, request_id + 1}
      /\ UNCHANGED <<clients, pending, allocations, orch, daemon, owner, backlog, closed, outbox,
                     requests, responses, link, client_of, granted, lost, app, asks, granting>>
  BY DEF ReadRequest, Reading, vsockVars, historyVars
<1>2. /\ Head(inbox[c]) \in Written /\ inbox' \in [Conns -> Seq(Written)]
      /\ request_id \in Ids /\ request_id' \in Nat /\ RequestsKept'
  BY <1>1, RequestRead
<1>3. DaemonTypes /\ SocketTypes /\ VsockTypes /\ AppTypes /\ TypesKept /\ HandsKept
      /\ ConnectionsKept /\ StaysRegistered
  BY DEF GuestKept, TypesKept
<1>4. owner[c] \in Pids /\ Target(c) \in Conns \cup {0}
  BY <1>1, <1>3 DEF ConnectionsKept, Target, SocketTypes, DaemonTypes
<1>5. CASE reader' = reader
  <2>1. DaemonTypes' /\ SocketTypes' /\ VsockTypes' /\ AppTypes'
    BY <1>1, <1>2, <1>3, <1>5 DEF DaemonTypes, SocketTypes, VsockTypes, AppTypes
  <2>2. NoConnection
    BY <1>1, <1>5 DEF NoConnection
  <2> QED
    BY <2>1, <2>2, <1>1, <1>2, <1>3, <1>5, HandsSame, ConnectionsSame DEF GuestKept, TypesKept
<1>6. CASE reader' # reader
  <2>1. PICK m : m = Head(inbox[c])
    OBVIOUS
  <2>2. PICK t : t = Target(c)
    OBVIOUS
  <2>3. t # 0 /\ reader' = [reader EXCEPT ![c] = At("check",
           [client |-> t, id |-> request_id, size |-> RoundUp(m.size),
            offset |-> 0, more |-> FALSE, ask |-> m.ask])]
    BY <1>6, <2>1, <2>2 DEF ReadRequest
  <2>4. PICK x : x = At("check",
           [client |-> t, id |-> request_id, size |-> RoundUp(m.size),
            offset |-> 0, more |-> FALSE, ask |-> m.ask])
    OBVIOUS
  <2>5. m.size \in Nat /\ m.ask \in Asks /\ RoundUp(m.size) \in Nat /\ t \in Conns
    BY <1>2, <1>4, <2>1, <2>2, <2>3, RoundUpNat DEF Written
  <2>6. x \in Readers /\ x.at = "check" /\ x.msg.client = t /\ x.msg.id = request_id
    BY <1>2, <2>4, <2>5, Numbers DEF At, Readers, Messages, Busy
  <2>7. reader' \in [Conns -> Readers] /\ HandsKept' /\ NoConnection
    BY <1>1, <1>2, <1>3, <2>3, <2>4, <2>5, <2>6, ReaderMoves
  <2>8. DaemonTypes' /\ SocketTypes' /\ VsockTypes' /\ AppTypes'
    BY <1>1, <1>2, <1>3, <2>7 DEF DaemonTypes, SocketTypes, VsockTypes, AppTypes
  <2> QED
    BY <2>7, <2>8, <1>2, <1>3, ConnectionsSame DEF GuestKept, TypesKept
<1> QED
  BY <1>5, <1>6

(***************************************************************************)
(* What the other steps of a busy reader leave as it is.                   *)
(***************************************************************************)
LEMMA ReaderKept ==
  ASSUME GuestKept, NEW c \in Conns, reader[c].at \in Busy,
         NEW x \in Readers, x.at \in {"reading"} \cup Busy,
         x.at \in Busy => x.msg.client \in Conns /\ x.msg.id \in Ids,
         reader' = [reader EXCEPT ![c] = x],
         UNCHANGED <<clients, orch, request_id, daemon, granted, lost, owner, backlog, closed, inbox,
                     responses, link, app, asks, granting>>,
         pending' \in [Conns -> Pending], allocations' \in [Conns -> SUBSET Offsets],
         client_of' \in [Ids -> Conns \cup {0}],
         requests' \in Seq([id : Ids, size : Nat]), outbox' \in [Conns -> Seq(Answers)]
  PROVE  GuestKept'
<1>1. DaemonTypes /\ SocketTypes /\ VsockTypes /\ AppTypes /\ TypesKept /\ HandsKept
      /\ ConnectionsKept /\ StaysRegistered /\ RequestsKept
  BY DEF GuestKept, TypesKept
<1>2. reader[c].at \notin {"none", "done"} /\ x.at \notin {"none", "done"}
  BY DEF Busy
<1>3. reader' \in [Conns -> Readers] /\ HandsKept' /\ NoConnection
  BY <1>1, <1>2, ReaderMoves
<1>4. DaemonTypes' /\ SocketTypes' /\ VsockTypes' /\ AppTypes'
  BY <1>1, <1>3 DEF DaemonTypes, SocketTypes, VsockTypes, AppTypes
<1> QED
  BY <1>1, <1>3, <1>4, RequestsSame, ConnectionsSame DEF GuestKept, TypesKept

(***************************************************************************)
(* A message is written to a socket, or dropped.                           *)
(***************************************************************************)
LEMMA SentTypes ==
  ASSUME outbox \in [Conns -> Seq(Answers)], NEW d \in Conns, NEW n \in Nat,
         NEW a \in Asks \cup {0}, SendTo(d, n, a)
  PROVE  outbox' \in [Conns -> Seq(Answers)]
<1>1. [size |-> n, ask |-> a] \in Answers
  BY DEF Answers
<1>2. Append(outbox[d], [size |-> n, ask |-> a]) \in Seq(Answers)
  BY <1>1
<1> QED
  BY <1>2 DEF SendTo

(***************************************************************************)
(* The rest of handle_eph_mem_request, with the denial of a request that   *)
(* could not be forwarded.                                                 *)
(***************************************************************************)
LEMMA HandleKept ==
  ASSUME GuestKept, NEW c \in Conns, CheckPending(c) \/ Forward(c) \/ Deny(c) \/ SendDenial(c),
         UNCHANGED <<app, asks, granting>>
  PROVE  GuestKept'
<1>1. PICK m \in Messages : m = reader[c].msg
  BY DEF GuestKept, TypesKept, DaemonTypes, Readers
<1>2. /\ reader[c].at \in Busy
      /\ UNCHANGED <<clients, orch, request_id, daemon, granted, lost, owner, backlog, closed, inbox,
                     responses, link, app, asks, granting>>
  BY DEF CheckPending, Forward, Deny, SendDenial, Busy, socketVars, vsockVars, historyVars
<1>3. m.client \in Conns /\ m.id \in Ids
  BY <1>1, <1>2 DEF GuestKept, HandsKept
<1>4. /\ pending \in [Conns -> Pending] /\ allocations \in [Conns -> SUBSET Offsets]
      /\ client_of \in [Ids -> Conns \cup {0}] /\ reader \in [Conns -> Readers]
      /\ requests \in Seq([id : Ids, size : Nat]) /\ outbox \in [Conns -> Seq(Answers)]
  BY DEF GuestKept, TypesKept, DaemonTypes, SocketTypes, VsockTypes
<1>5. m.size \in Nat /\ m.ask \in Asks \cup {0} /\ reader[c] \in Readers
  BY <1>4 DEF Messages
<1>6. \A a \in {"reading"} \cup Busy :
        /\ [reader[c] EXCEPT !.at = a] \in Readers
        /\ [reader[c] EXCEPT !.at = a].at = a /\ [reader[c] EXCEPT !.at = a].msg = m
  BY <1>1, <1>5 DEF Readers
<1>7. At("reading", NoMessage) \in Readers /\ At("reading", NoMessage).at = "reading"
  BY Numbers DEF At, Readers
<1>8. "reading" \notin Busy /\ {"forward", "deny", "send"} \subseteq Busy
  BY DEF Busy
<1>9. CASE CheckPending(c)
  <2>1. CASE HasPending(m.client)
    <3>1. reader' = [reader EXCEPT ![c] = At("reading", NoMessage)]
          /\ UNCHANGED <<pending, client_of, allocations, requests, outbox>>
      BY <1>1, <1>9, <2>1 DEF CheckPending, socketVars, vsockVars
    <3> QED
      BY <3>1, <1>2, <1>4, <1>7, <1>8, ReaderKept
  <2>2. CASE ~HasPending(m.client)
    <3>1. /\ pending' = [pending EXCEPT ![m.client] =
               [id |-> m.id, requested |-> m.size, received |-> 0, allocations |-> {},
                ask |-> m.ask]]
          /\ client_of' = [client_of EXCEPT ![m.id] = m.client]
          /\ reader' = [reader EXCEPT ![c] = [reader[c] EXCEPT !.at = "forward"]]
          /\ UNCHANGED <<allocations, requests, outbox>>
      BY <1>1, <1>9, <2>2 DEF CheckPending, socketVars, vsockVars
    <3>2. pending' \in [Conns -> Pending] /\ client_of' \in [Ids -> Conns \cup {0}]
      BY <3>1, <1>3, <1>4, <1>5 DEF Pending
    <3>3. PICK x \in Readers : x = [reader[c] EXCEPT !.at = "forward"] /\ x.at = "forward" /\ x.msg = m
      BY <1>6, <1>8
    <3> QED
      BY <3>1, <3>2, <3>3, <1>2, <1>3, <1>4, <1>8, ReaderKept, ZenonT(30)
  <2> QED
    BY <2>1, <2>2
<1>10. CASE Forward(c)
  <2>1. UNCHANGED <<pending, allocations, client_of, outbox>>
    BY <1>10 DEF Forward, socketVars, historyVars
  <2>2. CASE link = "up"
    <3>1. /\ reader' = [reader EXCEPT ![c] = At("reading", NoMessage)]
          /\ requests' = Append(requests, [id |-> m.id, size |-> m.size])
      BY <1>1, <1>10, <2>2 DEF Forward
    <3>2. requests' \in Seq([id : Ids, size : Nat])
      BY <3>1, <1>3, <1>4, <1>5
    <3> QED
      BY <3>1, <3>2, <2>1, <1>2, <1>4, <1>7, <1>8, ReaderKept
  <2>3. CASE link # "up"
    <3>1. reader' = [reader EXCEPT ![c] = [reader[c] EXCEPT !.at = "deny"]] /\ requests' = requests
      BY <1>10, <2>3 DEF Forward
    <3>2. PICK x \in Readers : x = [reader[c] EXCEPT !.at = "deny"] /\ x.at = "deny" /\ x.msg = m
      BY <1>6, <1>8
    <3> QED
      BY <3>1, <3>2, <2>1, <1>2, <1>3, <1>4, <1>8, ReaderKept
  <2> QED
    BY <2>2, <2>3
<1>11. CASE Deny(c)
  <2>1. UNCHANGED <<client_of, outbox, requests>>
    BY <1>11 DEF Deny, socketVars, vsockVars, historyVars
  <2>2. CASE pending[m.client].id # m.id
    <3>1. reader' = [reader EXCEPT ![c] = At("reading", NoMessage)] /\ UNCHANGED <<pending, allocations>>
      BY <1>1, <1>11, <2>2 DEF Deny
    <3> QED
      BY <3>1, <2>1, <1>2, <1>4, <1>7, <1>8, ReaderKept
  <2>3. CASE pending[m.client].id = m.id
    <3>1. PICK n : n = pending[m.client].received
      OBVIOUS
    <3>2. n \in Nat
      BY <3>1, <1>3, <1>4 DEF Pending
    <3>3. /\ pending' = [pending EXCEPT ![m.client] = NoRequest]
          /\ allocations' = [allocations EXCEPT ![m.client] = @ \cup pending[m.client].allocations]
          /\ reader' = [reader EXCEPT ![c] = At("send", [m EXCEPT !.size = n])]
      BY <1>1, <1>11, <2>3, <3>1 DEF Deny, Complete
    <3>4. PICK x : x = At("send", [m EXCEPT !.size = n])
      OBVIOUS
    <3>5. [m EXCEPT !.size = n] \in Messages /\ [m EXCEPT !.size = n].client = m.client
          /\ [m EXCEPT !.size = n].id = m.id
      BY <3>2 DEF Messages
    <3>6. x \in Readers /\ x.at = "send" /\ x.msg.client = m.client /\ x.msg.id = m.id
      BY <3>4, <3>5 DEF At, Readers, Busy
    <3>7. pending' \in [Conns -> Pending] /\ allocations' \in [Conns -> SUBSET Offsets]
      <4>1. pending[m.client].allocations \subseteq Offsets
        BY <1>3, <1>4 DEF Pending
      <4> QED
        BY <4>1, <3>3, <1>3, <1>4, Numbers
    <3> QED
      BY <3>3, <3>4, <3>6, <3>7, <2>1, <1>2, <1>3, <1>4, <1>8, ReaderKept
  <2> QED
    BY <2>2, <2>3
<1>12. CASE SendDenial(c)
  <2>1. /\ reader' = [reader EXCEPT ![c] = At("reading", NoMessage)]
        /\ UNCHANGED <<pending, allocations, client_of, requests>> /\ SendTo(m.client, m.size, m.ask)
    BY <1>1, <1>12 DEF SendDenial, vsockVars, historyVars
  <2>2. outbox' \in [Conns -> Seq(Answers)]
    BY <2>1, <1>3, <1>4, <1>5, SentTypes
  <2> QED
    BY <2>1, <2>2, <1>2, <1>4, <1>7, <1>8, ReaderKept
<1> QED
  BY <1>9, <1>10, <1>11, <1>12

(***************************************************************************)
(* The close handler removes the client of its own connection only.        *)
(***************************************************************************)
LEMMA CloseKept ==
  ASSUME GuestKept, NEW c \in Conns, Close(c), UNCHANGED <<app, asks, granting>>
  PROVE  GuestKept'
<1>1. /\ reader[c].at = "reading" /\ (c \in closed \/ Dropped(c))
      /\ clients' = IF IsCurrent(c) THEN [clients EXCEPT ![owner[c]] = 0] ELSE clients
      /\ reader' = [reader EXCEPT ![c].at = "done"]
      /\ UNCHANGED <<pending, allocations, orch, request_id, daemon, owner, backlog, closed, inbox,
                     outbox, requests, responses, link, client_of, granted, lost, app, asks, granting>>
  BY DEF Close, Reading, socketVars, vsockVars, historyVars
<1>2. DaemonTypes /\ SocketTypes /\ VsockTypes /\ AppTypes
  BY DEF GuestKept, TypesKept
<1>3. owner[c] \in Pids
  BY <1>1, <1>2 DEF GuestKept, ConnectionsKept, SocketTypes
<1>4. /\ reader' \in [Conns -> Readers] /\ reader'[c].at = "done"
      /\ \A d \in Conns : d # c => reader'[d] = reader[d]
  BY <1>1, <1>2 DEF DaemonTypes, Readers
<1>5. /\ clients' \in [Pids -> Conns \cup {0}]
      /\ \A p \in Pids : clients'[p] = clients[p] \/ (clients[p] = c /\ clients'[p] = 0)
  BY <1>1, <1>2, <1>3 DEF DaemonTypes, IsCurrent
<1>6. TypesKept'
  <2>1. DaemonTypes'
    BY <1>1, <1>2, <1>4, <1>5 DEF DaemonTypes
  <2>2. SocketTypes' /\ VsockTypes' /\ AppTypes'
    BY <1>1, <1>2 DEF SocketTypes, VsockTypes, AppTypes
  <2> QED
    BY <2>1, <2>2 DEF TypesKept
<1>7. HandsKept'
  BY <1>1, <1>4 DEF GuestKept, HandsKept, Busy
<1>8. RequestsKept'
  BY <1>1, RequestsSame DEF GuestKept
<1>9. ConnectionsKept'
  <2>1. \A d \in Conns : reader'[d].at # "none" => reader[d].at # "none"
    BY <1>1, <1>4
  <2>2. \A d \in Conns : reader[d].at # "none" => reader'[d].at # "none"
    BY <1>4
  <2>3. \A p \in Pids : clients'[p] # 0 =>
          clients[p] = clients'[p] /\ clients[p] \in Conns
    BY <1>2, <1>5 DEF DaemonTypes
  <2>4. \A p \in Pids : clients'[p] # 0 => owner[clients'[p]] = p /\ reader'[clients'[p]].at # "none"
    BY <2>2, <2>3 DEF GuestKept, ConnectionsKept
  <2> QED
    BY <2>1, <2>4, <1>1 DEF GuestKept, ConnectionsKept
<1>10. StaysRegistered'
  <2> SUFFICES ASSUME NEW p \in Pids, app[p].conn # 0,
                      reader'[app[p].conn].at \notin {"none", "done"}
               PROVE  clients'[p] = app[p].conn
    BY <1>1 DEF StaysRegistered
  <2>1. app[p].conn \in Conns
    BY <1>2 DEF AppTypes, Processes
  <2>2. app[p].conn # c /\ reader'[app[p].conn] = reader[app[p].conn]
    BY <2>1, <1>4
  <2>3. clients[p] = app[p].conn
    BY <2>2 DEF GuestKept, StaysRegistered
  <2> QED
    BY <2>2, <2>3, <1>5
<1> QED
  BY <1>6, <1>7, <1>8, <1>9, <1>10 DEF GuestKept

-----------------------------------------------------------------------------
(* The reader of the orchestrator's connection. *)

(***************************************************************************)
(* What its steps leave as it is.                                          *)
(***************************************************************************)
LEMMA OrchKept ==
  ASSUME GuestKept, orch' \in [at : {"reading", "found", "send"}, msg : Messages],
         orch'.at \in {"found", "send"} => orch'.msg.client \in Conns /\ orch'.msg.id \in Ids,
         UNCHANGED <<clients, reader, request_id, owner, backlog, closed, inbox,
                     requests, link, client_of, granted, app, asks, granting>>,
         daemon' \in {"running", "exited"}, lost' \subseteq Ids,
         pending' \in [Conns -> Pending], allocations' \in [Conns -> SUBSET Offsets],
         responses' \in Seq(Responses), outbox' \in [Conns -> Seq(Answers)]
  PROVE  GuestKept'
<1>1. DaemonTypes /\ SocketTypes /\ VsockTypes /\ AppTypes /\ TypesKept /\ HandsKept
      /\ ConnectionsKept /\ StaysRegistered /\ RequestsKept
  BY DEF GuestKept, TypesKept
<1>2. DaemonTypes' /\ SocketTypes' /\ VsockTypes' /\ AppTypes'
  BY <1>1 DEF DaemonTypes, SocketTypes, VsockTypes, AppTypes
<1>3. HandsKept'
  BY <1>1 DEF HandsKept
<1>4. NoConnection
  BY DEF NoConnection
<1> QED
  BY <1>1, <1>2, <1>3, <1>4, RequestsSame, ConnectionsSame DEF GuestKept, TypesKept

(***************************************************************************)
(* A response is one of those that came, and the others remain.            *)
(***************************************************************************)
LEMMA ResponseTaken ==
  ASSUME responses \in Seq(Responses), responses # <<>>
  PROVE  Head(responses) \in Responses /\ Tail(responses) \in Seq(Responses)
OBVIOUS

(***************************************************************************)
(* A response is dropped, or delivered to a client, or the daemon ends.    *)
(***************************************************************************)
LEMMA OrchestratorThreadKept ==
  ASSUME GuestKept, OrchestratorThread, UNCHANGED <<app, asks, granting>> PROVE GuestKept'
<1>1. /\ pending \in [Conns -> Pending] /\ allocations \in [Conns -> SUBSET Offsets]
      /\ responses \in Seq(Responses) /\ outbox \in [Conns -> Seq(Answers)] /\ lost \subseteq Ids
      /\ orch \in [at : {"reading", "found", "send"}, msg : Messages]
      /\ daemon \in {"running", "exited"}
      /\ orch.at \in {"found", "send"} => orch.msg.client \in Conns /\ orch.msg.id \in Ids
  BY DEF GuestKept, TypesKept, DaemonTypes, SocketTypes, VsockTypes, HandsKept
<1>2. /\ At("reading", NoMessage) \in [at : {"reading", "found", "send"}, msg : Messages]
      /\ At("reading", NoMessage).at = "reading"
  BY Numbers DEF At
<1>3. CASE DaxFails
  <2>1. /\ responses # <<>> /\ responses' = Tail(responses)
        /\ lost' \subseteq lost \cup {Head(responses).id}
        /\ UNCHANGED <<clients, pending, allocations, reader, orch, request_id, daemon, owner,
                       backlog, closed, inbox, outbox, requests, link, client_of, granted>>
    BY <1>3 DEF DaxFails, TakeResponse, daemonVars, socketVars
  <2>2. Head(responses).id \in Ids /\ responses' \in Seq(Responses)
    BY <1>1, <2>1, ResponseTaken DEF Responses
  <2> QED
    BY <2>1, <2>2, <1>1, OrchKept
<1>4. CASE FindClient
  <2>1. /\ responses # <<>> /\ responses' = Tail(responses)
        /\ UNCHANGED <<clients, pending, allocations, reader, request_id, daemon, owner,
                       backlog, closed, inbox, outbox, requests, link, client_of, granted, lost>>
    BY <1>4 DEF FindClient, TakeResponse, socketVars, historyVars
  <2>2. PICK m : m = Head(responses)
    OBVIOUS
  <2>3. /\ m.id \in Ids /\ m.size \in Nat /\ m.offset \in Offsets /\ m.more \in BOOLEAN
        /\ responses' \in Seq(Responses)
    BY <1>1, <2>1, <2>2, ResponseTaken, Numbers DEF Responses
  <2>4. CASE orch' = orch
    BY <2>1, <2>3, <2>4, <1>1, OrchKept
  <2>5. ASSUME NEW d \in Conns,
               orch' = At("found", [client |-> d, id |-> m.id, size |-> m.size, offset |-> m.offset,
                                    more |-> m.more, ask |-> 0])
        PROVE  GuestKept'
    <3>1. /\ orch' \in [at : {"reading", "found", "send"}, msg : Messages]
          /\ orch'.msg.client \in Conns /\ orch'.msg.id \in Ids
      BY <2>3, <2>5 DEF At, Messages
    <3> QED
      BY <3>1, <2>1, <2>3, <1>1, OrchKept
  <2> QED
    BY <2>2, <2>4, <2>5, <1>4 DEF FindClient
<1>5. CASE Deliver
  <2>1. PICK m \in Messages : m = orch.msg
    BY <1>1
  <2>2. m.client \in Conns /\ m.id \in Ids /\ m.size \in Nat /\ m.offset \in Offsets
    BY <1>1, <1>5, <2>1 DEF Deliver, Messages
  <2>3. PICK q \in Pending : q = pending[m.client]
    BY <1>1, <2>2
  <2>4. UNCHANGED <<clients, reader, request_id, daemon, owner, backlog, closed, inbox, outbox,
                    requests, responses, link, client_of, granted, lost>>
    BY <1>5 DEF Deliver, socketVars, vsockVars, historyVars
  <2>5. /\ q.received + m.size \in Nat /\ q.ask \in Asks \cup {0}
        /\ q.allocations \cup {m.offset} \in SUBSET Offsets
    BY <2>2 DEF Pending
  <2>6. CASE ~Fits(m)
    <3>1. orch' = At("reading", NoMessage) /\ UNCHANGED <<pending, allocations>>
      BY <1>5, <2>1, <2>6 DEF Deliver
    <3> QED
      BY <3>1, <2>4, <1>1, <1>2, OrchKept
  <2>7. CASE Fits(m) /\ AwaitsMore(m)
    <3>1. /\ orch' = At("reading", NoMessage) /\ allocations' = allocations
          /\ pending' = [pending EXCEPT ![m.client] =
                           [q EXCEPT !.received = q.received + m.size,
                                     !.allocations = q.allocations \cup {m.offset}]]
      BY <1>5, <2>1, <2>3, <2>7 DEF Deliver
    <3>2. [q EXCEPT !.received = q.received + m.size,
                    !.allocations = q.allocations \cup {m.offset}] \in Pending
      BY <2>5 DEF Pending
    <3>3. pending' \in [Conns -> Pending]
      BY <3>1, <3>2, <1>1
    <3> QED
      BY <3>1, <3>3, <2>4, <1>1, <1>2, OrchKept
  <2>8. CASE Fits(m) /\ ~AwaitsMore(m)
    <3>1. PICK n \in Nat : n = q.received + m.size
      BY <2>5
    <3>2. /\ pending' = [pending EXCEPT ![m.client] = NoRequest]
          /\ allocations' = [allocations EXCEPT ![m.client] = @ \cup (q.allocations \cup {m.offset})]
          /\ orch' = At("send", [m EXCEPT !.size = n, !.offset = 0, !.ask = q.ask])
      BY <1>5, <2>1, <2>3, <2>8, <3>1 DEF Deliver, Complete
    <3>3. /\ orch' \in [at : {"reading", "found", "send"}, msg : Messages]
          /\ orch'.msg.client \in Conns /\ orch'.msg.id \in Ids
      BY <3>2, <2>2, <2>5, Numbers DEF At, Messages
    <3>4. pending' \in [Conns -> Pending] /\ allocations' \in [Conns -> SUBSET Offsets]
      BY <3>2, <2>2, <2>5, <1>1, Numbers
    <3> QED
      BY <3>3, <3>4, <2>4, <1>1, OrchKept
  <2> QED
    BY <2>6, <2>7, <2>8
<1>6. CASE SendGrant
  <2>1. PICK m \in Messages : m = orch.msg
    BY <1>1
  <2>2. m.client \in Conns /\ m.size \in Nat /\ m.ask \in Asks \cup {0}
    BY <1>1, <1>6, <2>1 DEF SendGrant, Messages
  <2>3. /\ SendTo(m.client, m.size, m.ask) /\ orch' = At("reading", NoMessage)
        /\ UNCHANGED <<clients, pending, allocations, reader, request_id, daemon, owner, backlog,
                       closed, inbox, requests, responses, link, client_of, granted, lost>>
    BY <1>6, <2>1 DEF SendGrant, vsockVars, historyVars
  <2>4. outbox' \in [Conns -> Seq(Answers)]
    BY <2>2, <2>3, <1>1, SentTypes
  <2> QED
    BY <2>3, <2>4, <1>1, <1>2, OrchKept
<1>7. CASE LoseOrchestrator
  <2>1. /\ daemon' = "exited"
        /\ UNCHANGED <<clients, pending, allocations, reader, orch, request_id, owner, backlog,
                       closed, inbox, outbox, requests, responses, link, client_of, granted, lost>>
    BY <1>7 DEF LoseOrchestrator, socketVars, vsockVars, historyVars
  <2> QED
    BY <2>1, <1>1, OrchKept
<1> QED
  BY <1>3, <1>4, <1>5, <1>6, <1>7 DEF OrchestratorThread

-----------------------------------------------------------------------------
(* The orchestrator. *)

(***************************************************************************)
(* A request is one of those that were forwarded.                          *)
(***************************************************************************)
LEMMA RequestTaken ==
  ASSUME NEW S, requests \in Seq(S), requests # <<>>
  PROVE  Head(requests) \in S /\ Tail(requests) \in Seq(S)
OBVIOUS

(***************************************************************************)
(* The orchestrator takes a request, answers it, or is lost.               *)
(***************************************************************************)
LEMMA OrchestratorKept ==
  ASSUME GuestKept, Orchestrator \/ LinkFails PROVE GuestKept'
<1>1. DaemonTypes /\ SocketTypes /\ VsockTypes /\ AppTypes /\ TypesKept /\ HandsKept
      /\ ConnectionsKept /\ StaysRegistered /\ RequestsKept
  BY DEF GuestKept, TypesKept
<1>2. UNCHANGED <<clients, pending, allocations, reader, orch, request_id, daemon, owner, backlog,
                  closed, inbox, outbox, client_of, app, asks>>
  BY DEF Orchestrator, LinkFails, OrchestratorTakes, OrchestratorAnswers, daemonVars, socketVars,
         historyVars
<1>3. VsockTypes' /\ lost' \subseteq Ids /\ granted' \subseteq Ids \X Offsets
  <2>1. /\ requests \in Seq([id : Ids, size : Nat]) /\ responses \in Seq(Responses)
        /\ granting \in Pending /\ (granting = NoRequest \/ granting.id \in Ids)
        /\ link \in {"up", "down"} /\ lost \subseteq Ids /\ granted \subseteq Ids \X Offsets
    BY <1>1 DEF VsockTypes, DaemonTypes
  <2>2. CASE OrchestratorTakes
    <3>1. /\ requests # <<>> /\ requests' = Tail(requests)
          /\ granting' = [NoRequest EXCEPT !.id = Head(requests).id, !.requested = Head(requests).size]
          /\ UNCHANGED <<responses, link, granted, lost>>
      BY <2>2 DEF OrchestratorTakes, historyVars
    <3>2. Head(requests) \in [id : Ids, size : Nat] /\ Tail(requests) \in Seq([id : Ids, size : Nat])
      BY <2>1, <3>1, RequestTaken
    <3>3. Head(requests).id \in Ids /\ Head(requests).size \in Nat
      BY <3>2
    <3>4. granting' \in Pending /\ granting'.id \in Ids
      BY <3>1, <3>3, Numbers DEF NoRequest, Pending
    <3> QED
      BY <3>1, <3>2, <3>4, <2>1 DEF VsockTypes
  <2>3. CASE OrchestratorAnswers
    <3>1. granting # NoRequest /\ granting' = NoRequest /\ UNCHANGED <<requests, link>>
      BY <2>3 DEF OrchestratorAnswers
    <3>0. PICK k \in 0..(granting.requested \div Granularity) : \E at \in [1..k -> Offsets] :
            /\ responses' = responses \o Parts(k, at)
            /\ granted' = granted \cup { <<granting.id, at[i]>> : i \in 1..k }
            /\ lost' = IF k = 0 THEN lost \cup {granting.id} ELSE lost
      BY <2>3 DEF OrchestratorAnswers
    <3>2. PICK at \in [1..k -> Offsets] :
            /\ responses' = responses \o Parts(k, at)
            /\ granted' = granted \cup { <<granting.id, at[i]>> : i \in 1..k }
            /\ lost' = IF k = 0 THEN lost \cup {granting.id} ELSE lost
      BY <3>0
    <3>3. granting.id \in Ids
      BY <2>1, <3>1
    <3>4. k \in Nat
      BY <3>0
    <3>5. Parts(k, at) \in Seq(Responses)
      <4>1. \A i \in 1..k : [id |-> granting.id, size |-> Granularity, offset |-> at[i],
                             more |-> i < k] \in Responses
        BY <3>2, <3>3 DEF Responses
      <4>2. Parts(k, at) \in [1..k -> Responses]
        BY <4>1 DEF Parts
      <4> QED
        BY <4>2, <3>4
    <3>6. responses' \in Seq(Responses)
      BY <3>2, <3>5, <2>1
    <3>7. granted' \subseteq Ids \X Offsets
      BY <3>2, <3>3, <2>1
    <3> QED
      BY <3>1, <3>2, <3>3, <3>6, <3>7, <2>1, Numbers DEF VsockTypes
  <2>4. CASE LinkFails
    BY <2>1, <2>4 DEF LinkFails, VsockTypes, historyVars
  <2> QED
    BY <2>2, <2>3, <2>4 DEF Orchestrator
<1>4. DaemonTypes' /\ SocketTypes' /\ AppTypes'
  BY <1>1, <1>2, <1>3 DEF DaemonTypes, SocketTypes, AppTypes
<1>5. NoConnection
  BY <1>2 DEF NoConnection
<1> QED
  BY <1>1, <1>2, <1>3, <1>4, <1>5, HandsSame, RequestsSame, ConnectionsSame DEF GuestKept, TypesKept

-----------------------------------------------------------------------------
(* The processes. *)

(***************************************************************************)
(* What a step of a process that keeps its connection leaves as it is.     *)
(***************************************************************************)
LEMMA ProcessKept ==
  ASSUME GuestKept, NEW p \in Pids, NEW x \in Processes, x.conn = app[p].conn,
         x.at # "idle" => x.conn # 0, x.at = "drained" => x.amount > 0,
         app' = [app EXCEPT ![p] = x],
         UNCHANGED <<clients, pending, allocations, reader, orch, request_id, daemon, owner, backlog,
                     closed, requests, responses, link, client_of, granted, lost, granting>>,
         asks' \in 0..MaxAsks, RequestsKept',
         inbox' \in [Conns -> Seq(Written)], outbox' \in [Conns -> Seq(Answers)]
  PROVE  GuestKept'
<1>1. DaemonTypes /\ SocketTypes /\ VsockTypes /\ AppTypes /\ TypesKept /\ HandsKept
      /\ ConnectionsKept /\ StaysRegistered
  BY DEF GuestKept, TypesKept
<1>2. app' \in [Pids -> Processes] /\ app'[p] = x /\ \A q \in Pids : q # p => app'[q] = app[q]
  BY <1>1 DEF AppTypes
<1>3. DaemonTypes' /\ SocketTypes' /\ VsockTypes' /\ AppTypes'
  BY <1>1, <1>2 DEF DaemonTypes, SocketTypes, VsockTypes, AppTypes
<1>4. HandsKept'
  BY <1>1, <1>2 DEF HandsKept
<1>5. NoConnection
  BY <1>2 DEF NoConnection
<1> QED
  BY <1>1, <1>3, <1>4, <1>5, ConnectionsSame DEF GuestKept, TypesKept

(***************************************************************************)
(* libephmem_reserve asks for a whole number of granules, and for at least *)
(* one of them if the amount is not zero.                                  *)
(***************************************************************************)
LEMMA RoundedPositive ==
  \A n \in Amounts : n # 0 /\ ~Overflows(n) => Rounded(n) \in Nat \ {0}
<1> SUFFICES ASSUME NEW n \in Amounts, n # 0, ~Overflows(n) PROVE Rounded(n) \in Nat \ {0}
  OBVIOUS
<1>1. PICK g \in Nat : g = Granularity /\ g > 0
  BY Numbers
<1>2. PICK z \in Nat : z = SizeMax /\ z > g
  BY <1>1, GuestAssumption
<1>3. n \in Nat /\ n > 0 /\ n + g - 1 <= z
  BY <1>1, <1>2, GuestAssumption DEF Overflows
<1>4. PICK k \in Nat : k = n + g - 1 /\ k >= g /\ k <= z
  BY <1>1, <1>3
<1>5. k % (z + 1) = k
  BY <1>2, <1>4
<1>6. k \div g \in Nat /\ k \div g >= 1
  <2>1. k \div g \in Nat
    BY <1>1
  <2>2. k \div g # 0
    BY <1>1, <1>4
  <2> QED
    BY <2>1, <2>2
<1>7. PICK d \in Nat : d = k \div g /\ d >= 1
  BY <1>6
<1>8. d * g \in Nat /\ d * g >= g
  BY <1>1, <1>7
<1>9. Rounded(n) = d * g
  BY <1>1, <1>2, <1>4, <1>5, <1>7 DEF Rounded
<1> QED
  BY <1>1, <1>8, <1>9

(***************************************************************************)
(* A socket that is drained.                                               *)
(***************************************************************************)
LEMMA Drained ==
  ASSUME NEW c \in Conns, outbox \in [Conns -> Seq(Answers)],
         outbox' = [outbox EXCEPT ![c] = <<>>]
  PROVE  outbox' \in [Conns -> Seq(Answers)]
<1>1. <<>> \in Seq(Answers)
  OBVIOUS
<1> QED
  BY <1>1

(***************************************************************************)
(* A process drains its socket, takes an answer, or gives up waiting.      *)
(***************************************************************************)
LEMMA ReserveKept ==
  ASSUME GuestKept, NEW p \in Pids, Receive(p) \/ TimeOut(p) \/ \E n \in Amounts : Drain(p, n)
  PROVE  GuestKept'
<1>1. /\ UNCHANGED <<clients, pending, allocations, reader, orch, request_id, daemon, owner, backlog,
                     closed, requests, responses, link, client_of, granted, lost, granting>>
      /\ UNCHANGED <<inbox, asks>>
  BY DEF Receive, TimeOut, Drain, daemonVars, socketVars, vsockVars, historyVars
<1>2. /\ app \in [Pids -> Processes] /\ asks \in 0..MaxAsks /\ inbox \in [Conns -> Seq(Written)]
      /\ outbox \in [Conns -> Seq(Answers)] /\ RequestsKept'
      /\ app[p].at # "idle" => app[p].conn # 0
  BY <1>1, RequestsSame DEF GuestKept, TypesKept, AppTypes, SocketTypes, HandsKept
<1>3. PICK a \in Processes : a = app[p]
  BY <1>2
<1>4. CASE Receive(p)
  <2>1. PICK c \in Conns : c = a.conn
    BY <1>2, <1>3, <1>4 DEF Receive, Processes
  <2>2. PICK s \in Seq(Answers) : s = outbox[c] /\ s # <<>>
    BY <1>2, <1>3, <1>4, <2>1 DEF Receive
  <2>3. Head(s) \in Answers
    BY <2>2
  <2>4. PICK n : n = Min({Head(s).size, a.amount})
    OBVIOUS
  <2>5. n \in Nat
    <3>1. Head(s).size \in Nat /\ a.amount \in Nat
      BY <2>3, <1>3 DEF Answers, Processes
    <3>2. \A u, v \in Nat : Min({u, v}) \in Nat
      <4> SUFFICES ASSUME NEW u \in Nat, NEW v \in Nat PROVE Min({u, v}) \in Nat
        OBVIOUS
      <4>1. \E w \in {u, v} : \A y \in {u, v} : w <= y
        OBVIOUS
      <4>2. Min({u, v}) \in {u, v}
        BY <4>1 DEF Min
      <4> QED
        BY <4>2
    <3> QED
      BY <3>1, <3>2, <2>4
  <2>6. PICK x : x = [a EXCEPT !.at = "idle", !.got = a.got + n]
    OBVIOUS
  <2>7. /\ app' = [app EXCEPT ![p] = x]
        /\ outbox' = [outbox EXCEPT ![c] = <<>>]
    BY <1>2, <1>3, <1>4, <2>1, <2>2, <2>4, <2>6 DEF Receive, Processes
  <2>10. a.got + n \in Nat
    BY <2>5 DEF Processes
  <2>8. x \in Processes /\ x.conn = a.conn /\ x.at = "idle"
    BY <2>6, <2>10 DEF Processes
  <2>9. outbox' \in [Conns -> Seq(Answers)]
    BY <2>7, <1>2, Drained
  <2> QED
    BY <2>7, <2>8, <2>9, <1>1, <1>2, <1>3, ProcessKept
<1>5. CASE TimeOut(p)
  <2>1. PICK x : x = [a EXCEPT !.at = "idle", !.late = TRUE]
    OBVIOUS
  <2>2. app' = [app EXCEPT ![p] = x] /\ outbox' = outbox
    BY <1>2, <1>3, <1>5, <2>1 DEF TimeOut, Processes, socketVars
  <2>3. x \in Processes /\ x.conn = a.conn /\ x.at = "idle"
    BY <2>1 DEF Processes
  <2> QED
    BY <2>2, <2>3, <1>1, <1>2, <1>3, ProcessKept
<1>6. ASSUME NEW n \in Amounts, Drain(p, n) PROVE GuestKept'
  <2>1. PICK c \in Conns : c = a.conn
    BY <1>2, <1>3, <1>6 DEF Drain, Processes
  <2>2. outbox' = [outbox EXCEPT ![c] = <<>>] /\ n # 0 /\ ~Overflows(n)
    BY <1>3, <1>6, <2>1 DEF Drain
  <2>3. outbox' \in [Conns -> Seq(Answers)]
    BY <2>2, <1>2, Drained
  <2>4. CASE app' = [app EXCEPT ![p].at = "idle"]
    <3>1. PICK x : x = [a EXCEPT !.at = "idle"]
      OBVIOUS
    <3>2. app' = [app EXCEPT ![p] = x]
      BY <1>2, <1>3, <2>4, <3>1 DEF Processes
    <3>3. x \in Processes /\ x.conn = a.conn /\ x.at = "idle"
      BY <3>1 DEF Processes
    <3> QED
      BY <3>2, <3>3, <2>3, <1>1, <1>2, <1>3, ProcessKept
  <2>5. CASE app' = [app EXCEPT ![p].at = "drained", ![p].amount = Rounded(n)]
    <3>1. PICK r : r = Rounded(n)
      OBVIOUS
    <3>2. r \in Nat /\ r > 0
      BY <3>1, <2>2, RoundedPositive
    <3>3. PICK x : x = [a EXCEPT !.at = "drained", !.amount = r]
      OBVIOUS
    <3>4. app' = [app EXCEPT ![p] = x]
      BY <1>2, <1>3, <2>5, <3>1, <3>3 DEF Processes
    <3>5. x \in Processes /\ x.conn = a.conn /\ x.at = "drained" /\ x.amount > 0 /\ x.conn # 0
      BY <3>2, <3>3, <2>1, Numbers DEF Processes
    <3> QED
      BY <3>4, <3>5, <2>3, <1>1, <1>2, <1>3, ProcessKept
  <2> QED
    BY <2>4, <2>5, <1>6 DEF Drain, ReturnZero
<1> QED
  BY <1>4, <1>5, <1>6

(***************************************************************************)
(* A process writes a request, with a number that no other one has.        *)
(***************************************************************************)
LEMMA RequestWritten ==
  ASSUME GuestKept, NEW c \in Conns, NEW n \in Nat \ {0}, asks < MaxAsks, asks' = asks + 1,
         inbox' = [inbox EXCEPT ![c] = Append(@, [size |-> n, ask |-> asks + 1])],
         request_id' = request_id
  PROVE  inbox' \in [Conns -> Seq(Written)] /\ asks' \in 0..MaxAsks /\ RequestsKept'
<1>1. /\ inbox \in [Conns -> Seq(Written)] /\ request_id \in Nat /\ asks \in Nat /\ MaxAsks \in Nat
  BY Numbers DEF GuestKept, TypesKept, SocketTypes, DaemonTypes, AppTypes
<1>2. /\ \A d, e \in Conns : \A i \in DOMAIN inbox[d], j \in DOMAIN inbox[e] :
           inbox[d][i].ask = inbox[e][j].ask => d = e /\ i = j
      /\ \A d \in Conns : \A i \in DOMAIN inbox[d] : inbox[d][i].ask <= asks
      /\ request_id + Cardinality(Unread) <= asks
  BY DEF GuestKept, RequestsKept
<1>3. PICK a \in Nat : a = asks + 1 /\ a \in Asks /\ asks' = a
  BY <1>1 DEF Asks
<1>4. PICK m \in Written : m = [size |-> n, ask |-> a]
  BY <1>3 DEF Written
<1>5. PICK s \in Seq(Written) : s = inbox[c]
  BY <1>1
<1>6. PICK k \in Nat : k = Len(s) + 1
  BY <1>5
<1>7. /\ Append(s, m) \in Seq(Written) /\ DOMAIN Append(s, m) = DOMAIN s \cup {k}
      /\ k \notin DOMAIN s /\ Append(s, m)[k] = m
      /\ \A i \in DOMAIN s : Append(s, m)[i] = s[i]
  BY <1>5, <1>6
<1>8. inbox' = [inbox EXCEPT ![c] = Append(s, m)]
  BY <1>1, <1>3, <1>4, <1>5
<1>9. /\ inbox' \in [Conns -> Seq(Written)] /\ inbox'[c] = Append(s, m)
      /\ \A d \in Conns : d # c => inbox'[d] = inbox[d]
  BY <1>1, <1>7, <1>8
<1>10. \A d \in Conns : \A i \in DOMAIN inbox'[d] :
         \/ i \in DOMAIN inbox[d] /\ inbox'[d][i] = inbox[d][i]
         \/ d = c /\ i = k /\ inbox'[d][i].ask = a
  BY <1>4, <1>5, <1>7, <1>9
<1>11. \A d \in Conns : \A i \in DOMAIN inbox[d] : inbox[d][i].ask \in Nat
  <2> SUFFICES ASSUME NEW d \in Conns, NEW i \in DOMAIN inbox[d] PROVE inbox[d][i].ask \in Nat
    OBVIOUS
  <2>1. inbox[d] \in Seq(Written)
    BY <1>1
  <2>2. inbox[d][i] \in Written
    BY <2>1
  <2> QED
    BY <2>2, Numbers DEF Written
<1>12. \A d \in Conns : \A i \in DOMAIN inbox[d] : inbox[d][i].ask <= a /\ inbox[d][i].ask # a
  BY <1>1, <1>2, <1>3, <1>11
<1>13. \A d \in Conns : \A i \in DOMAIN inbox'[d] : inbox'[d][i].ask <= asks'
  <2>1. a <= a
    BY <1>3
  <2> QED
    BY <2>1, <1>3, <1>10, <1>12
<1>14. \A d, e \in Conns : \A i \in DOMAIN inbox'[d], j \in DOMAIN inbox'[e] :
         inbox'[d][i].ask = inbox'[e][j].ask => d = e /\ i = j
  BY <1>2, <1>10, <1>12
<1>15. Unread' = Unread \cup {a} /\ a \notin Unread
  <2>1. a \notin Unread
    BY <1>12 DEF Unread
  <2>2. a \in Unread'
    <3>1. k \in DOMAIN inbox'[c] /\ inbox'[c][k].ask = a
      BY <1>4, <1>7, <1>9
    <3> QED
      BY <3>1, <1>3 DEF Unread
  <2>3. \A d \in Conns : \A i \in DOMAIN inbox[d] : i \in DOMAIN inbox'[d] /\ inbox'[d][i] = inbox[d][i]
    BY <1>5, <1>7, <1>9
  <2>4. Unread \subseteq Unread'
    BY <2>3 DEF Unread
  <2>5. Unread' \subseteq Unread \cup {a}
    BY <1>10 DEF Unread
  <2> QED
    BY <2>1, <2>2, <2>4, <2>5
<1>16. IsFiniteSet(Unread) /\ Cardinality(Unread) \in Nat
  <2>1. IsFiniteSet(Asks)
    BY FS_Interval, <1>1 DEF Asks
  <2>2. Unread \subseteq Asks
    BY DEF Unread
  <2> QED
    BY <2>1, <2>2, FS_Subset, FS_CardinalityType
<1>17. Cardinality(Unread') = Cardinality(Unread) + 1
  BY <1>15, <1>16, FS_AddElement
<1>18. request_id' + Cardinality(Unread') <= asks'
  BY <1>1, <1>2, <1>3, <1>16, <1>17
<1> QED
  BY <1>3, <1>1, <1>9, <1>13, <1>14, <1>18 DEF RequestsKept

(***************************************************************************)
(* A process writes its request, or sees that the connection is closed.    *)
(***************************************************************************)
LEMMA WriteKept ==
  ASSUME GuestKept, NEW p \in Pids, Write(p) PROVE GuestKept'
<1>1. /\ UNCHANGED <<clients, pending, allocations, reader, orch, request_id, daemon, owner, backlog,
                     closed, requests, responses, link, client_of, granted, lost, granting>>
      /\ outbox' = outbox
  BY DEF Write, daemonVars, socketVars, vsockVars, historyVars
<1>2. /\ app \in [Pids -> Processes] /\ asks \in 0..MaxAsks /\ inbox \in [Conns -> Seq(Written)]
      /\ outbox \in [Conns -> Seq(Answers)]
      /\ app[p].at # "idle" => app[p].conn # 0
      /\ app[p].at = "drained" => app[p].amount > 0
  BY DEF GuestKept, TypesKept, AppTypes, SocketTypes, HandsKept
<1>3. PICK a \in Processes : a = app[p]
  BY <1>2
<1>4. PICK c \in Conns : c = a.conn
  BY <1>2, <1>3 DEF Write, Processes
<1>5. CASE app' = [app EXCEPT ![p].at = "idle"] /\ UNCHANGED <<inbox, asks>>
  <2>1. PICK x : x = [a EXCEPT !.at = "idle"]
    OBVIOUS
  <2>2. app' = [app EXCEPT ![p] = x]
    BY <1>2, <1>3, <1>5, <2>1 DEF Processes
  <2>3. x \in Processes /\ x.conn = a.conn /\ x.at = "idle"
    BY <2>1 DEF Processes
  <2>4. RequestsKept'
    BY <1>1, <1>5, RequestsSame DEF GuestKept
  <2> QED
    BY <2>2, <2>3, <2>4, <1>1, <1>2, <1>3, <1>5, ProcessKept
<1>6. CASE /\ asks' = asks + 1
           /\ inbox' = [inbox EXCEPT ![c] = Append(@, [size |-> a.amount, ask |-> asks + 1])]
           /\ app' = [app EXCEPT ![p].at = "waiting", ![p].ask = asks + 1]
  <2>1. PICK n \in Nat \ {0} : n = a.amount
    BY <1>2, <1>3 DEF Write, Processes
  <2>2. /\ inbox' \in [Conns -> Seq(Written)] /\ asks' \in 0..MaxAsks /\ RequestsKept'
    BY <2>1, <1>1, <1>6, RequestWritten DEF Write
  <2>3. PICK x : x = [a EXCEPT !.at = "waiting", !.ask = asks + 1]
    OBVIOUS
  <2>4. app' = [app EXCEPT ![p] = x]
    BY <1>2, <1>3, <1>6, <2>3 DEF Processes
  <2>5. asks + 1 \in Asks
    BY <1>2, Numbers DEF Write, Asks
  <2>6. x \in Processes /\ x.conn = a.conn /\ x.at = "waiting" /\ x.conn # 0
    BY <2>3, <2>5, <1>4, Numbers DEF Processes
  <2> QED
    BY <2>2, <2>4, <2>6, <1>1, <1>2, <1>3, ProcessKept
<1> QED
  BY <1>3, <1>4, <1>5, <1>6 DEF Write, ReturnZero

(***************************************************************************)
(* A process connects: its connection is later than all others.            *)
(***************************************************************************)
LEMMA ConnectKept ==
  ASSUME GuestKept, NEW p \in Pids, Connect(p) PROVE GuestKept'
<1>1. DaemonTypes /\ SocketTypes /\ VsockTypes /\ AppTypes /\ HandsKept
      /\ ConnectionsKept /\ StaysRegistered /\ RequestsKept
  BY DEF GuestKept, TypesKept
<1>2. PICK c \in Conns :
        /\ owner[c] = 0 /\ \A d \in Conns : d < c => owner[d] # 0
        /\ owner' = [owner EXCEPT ![c] = p] /\ backlog' = Append(backlog, c)
        /\ app' = [app EXCEPT ![p].conn = c]
  BY DEF Connect
<1>3. /\ UNCHANGED <<clients, pending, allocations, reader, orch, request_id, daemon, closed, inbox,
                     outbox, requests, responses, link, client_of, granted, lost, asks, granting>>
      /\ app[p].conn = 0
  BY DEF Connect, daemonVars, vsockVars, historyVars
<1>4. /\ owner' \in [Conns -> Pids \cup {0}] /\ owner'[c] = p
      /\ \A d \in Conns : d # c => owner'[d] = owner[d]
  BY <1>1, <1>2 DEF SocketTypes
<1>5. /\ app' \in [Pids -> Processes] /\ app'[p].conn = c /\ app'[p].at = app[p].at
      /\ app'[p].amount = app[p].amount /\ \A q \in Pids : q # p => app'[q] = app[q]
  BY <1>1, <1>2, ZenonT(30) DEF AppTypes, Processes
<1>6. PICK k \in Nat : k = Len(backlog) + 1
  BY <1>1 DEF SocketTypes
<1>7. /\ backlog' \in Seq(Conns) /\ DOMAIN backlog' = DOMAIN backlog \cup {k} /\ backlog'[k] = c
      /\ \A i \in DOMAIN backlog : i < k /\ ~(k < i) /\ backlog'[i] = backlog[i] /\ backlog[i] \in Conns
      /\ ~(k < k)
  BY <1>1, <1>2, <1>6, SMTT(30) DEF SocketTypes
<1>8. TypesKept'
  <2>1. DaemonTypes' /\ VsockTypes'
    BY <1>1, <1>3 DEF DaemonTypes, VsockTypes
  <2>2. SocketTypes' /\ AppTypes'
    BY <1>1, <1>3, <1>4, <1>5, <1>7 DEF SocketTypes, AppTypes
  <2> QED
    BY <2>1, <2>2 DEF TypesKept
<1>9. HandsKept'
  BY <1>1, <1>3, <1>5 DEF HandsKept
<1>10. RequestsKept'
  BY <1>1, <1>3, RequestsSame
<1>11. \A d \in Conns : owner[d] # 0 => d < c
  <2> SUFFICES ASSUME NEW d \in Conns, owner[d] # 0 PROVE d < c
    OBVIOUS
  <2>1. d # c /\ ~(c < d)
    BY <1>1, <1>2 DEF ConnectionsKept
  <2>2. d \in Nat /\ c \in Nat
    BY Numbers
  <2> QED
    BY <2>1, <2>2
<1>12. p # 0 /\ c # 0 /\ c \in Nat /\ \A d \in Conns : d < c => d <= c
  BY Numbers
<1>13. reader[c].at = "none" /\ c \notin closed
  BY <1>1, <1>2 DEF ConnectionsKept
<1>14. ConnectionsKept'
  <2>1. \A i, j \in DOMAIN backlog' : i < j => backlog'[i] < backlog'[j]
    BY <1>1, <1>7, <1>11 DEF ConnectionsKept
  <2>2. \A d \in Conns, i \in DOMAIN backlog' : reader'[d].at # "none" => d < backlog'[i]
    BY <1>1, <1>3, <1>7, <1>11 DEF ConnectionsKept
  <2>3. \A d \in Conns : owner[d] # 0 => owner'[d] # 0
    BY <1>4, <1>12
  <2>4. /\ \A i \in DOMAIN backlog' : owner'[backlog'[i]] # 0
        /\ \A d \in Conns : reader'[d].at # "none" => owner'[d] # 0
        /\ \A d \in closed' : owner'[d] # 0
    <3>1. \A i \in DOMAIN backlog : owner[backlog[i]] # 0
      BY <1>1 DEF ConnectionsKept
    <3>2. \A i \in DOMAIN backlog' : owner'[backlog'[i]] # 0
      BY <3>1, <2>3, <1>4, <1>7, <1>12
    <3>3. \A d \in closed : d \in Conns /\ owner[d] # 0
      BY <1>1 DEF ConnectionsKept, SocketTypes
    <3>4. \A d \in Conns : reader[d].at # "none" => owner[d] # 0
      BY <1>1 DEF ConnectionsKept
    <3> QED
      BY <3>2, <3>3, <3>4, <2>3, <1>3
  <2>5. \A d, e \in Conns : owner'[d] # 0 /\ e < d => owner'[e] # 0
    BY <2>3, <1>1, <1>2, <1>4 DEF ConnectionsKept
  <2>6. \A q \in Pids : app'[q].conn # 0 =>
          /\ owner'[app'[q].conn] = q /\ app'[q].conn \notin closed'
          /\ \A d \in Conns : owner'[d] = q => d <= app'[q].conn
    <3>1. \A d \in Conns : owner'[d] = p => d <= c
      <4>1. c <= c
        BY <1>12
      <4> QED
        BY <4>1, <1>4, <1>11, <1>12
    <3>2. ASSUME NEW q \in Pids, q # p, app'[q].conn # 0
          PROVE  /\ owner'[app'[q].conn] = q /\ app'[q].conn \notin closed'
                 /\ \A d \in Conns : owner'[d] = q => d <= app'[q].conn
      <4>1. app'[q] = app[q] /\ app[q].conn \in Conns /\ owner[app[q].conn] = q /\ q # 0
            /\ app[q].conn \notin closed /\ \A d \in Conns : owner[d] = q => d <= app[q].conn
        <5>1. app'[q] = app[q] /\ app[q].conn # 0 /\ q # 0
          BY <3>2, <1>5, Numbers
        <5>2. app[q].conn \in Conns
          BY <5>1, <1>1 DEF AppTypes, Processes
        <5> QED
          BY <5>1, <5>2, <1>1 DEF ConnectionsKept
      <4>2. app[q].conn # c
        BY <4>1, <1>2
      <4> QED
        BY <4>1, <4>2, <3>2, <1>3, <1>4
    <3> QED
      BY <3>1, <3>2, <1>3, <1>4, <1>5, <1>13
  <2>7. \A q \in Pids : clients'[q] # 0 => owner'[clients'[q]] = q /\ reader'[clients'[q]].at # "none"
    BY <1>1, <1>2, <1>3, <1>4, Numbers DEF ConnectionsKept, DaemonTypes
  <2> QED
    BY <2>1, <2>2, <2>4, <2>5, <2>6, <2>7 DEF ConnectionsKept
<1>15. StaysRegistered'
  BY <1>1, <1>3, <1>5, <1>13 DEF StaysRegistered
<1> QED
  BY <1>8, <1>9, <1>10, <1>14, <1>15 DEF GuestKept

(***************************************************************************)
(* A process ends: its connection is closed and its pid has none.          *)
(***************************************************************************)
LEMMA ProcessEndsKept ==
  ASSUME GuestKept, NEW p \in Pids, ProcessEnds(p) PROVE GuestKept'
<1>1. DaemonTypes /\ SocketTypes /\ VsockTypes /\ AppTypes /\ HandsKept
      /\ ConnectionsKept /\ StaysRegistered /\ RequestsKept
  BY DEF GuestKept, TypesKept
<1>2. /\ UNCHANGED <<clients, pending, allocations, reader, orch, request_id, daemon, owner, backlog,
                     inbox, requests, responses, link, client_of, granted, lost, asks, granting>>
      /\ app[p].conn # 0 /\ app' = [app EXCEPT ![p] = NewProcess]
      /\ closed' = closed \cup {app[p].conn}
      /\ outbox' = [outbox EXCEPT ![app[p].conn] = <<>>]
  BY DEF ProcessEnds, daemonVars, vsockVars, historyVars
<1>3. PICK c \in Conns : c = app[p].conn
  BY <1>1, <1>2 DEF AppTypes, Processes
<1>4. /\ app' \in [Pids -> Processes] /\ app'[p].conn = 0 /\ app'[p].at = "idle"
      /\ \A q \in Pids : q # p => app'[q] = app[q]
  BY <1>1, <1>2, Numbers DEF AppTypes, Processes, NewProcess
<1>5. outbox' \in [Conns -> Seq(Answers)]
  BY <1>1, <1>2, <1>3, Drained DEF SocketTypes
<1>6. TypesKept'
  <2>1. DaemonTypes' /\ VsockTypes'
    BY <1>1, <1>2 DEF DaemonTypes, VsockTypes
  <2>2. SocketTypes' /\ AppTypes'
    BY <1>1, <1>2, <1>3, <1>4, <1>5 DEF SocketTypes, AppTypes
  <2> QED
    BY <2>1, <2>2 DEF TypesKept
<1>7. HandsKept'
  BY <1>1, <1>2, <1>4 DEF HandsKept
<1>8. RequestsKept'
  BY <1>1, <1>2, RequestsSame
<1>9. ConnectionsKept'
  <2>1. owner[c] = p /\ p # 0
    BY <1>1, <1>2, <1>3, Numbers DEF ConnectionsKept
  <2>2. \A d \in closed' : owner'[d] # 0
    BY <2>1, <1>1, <1>2, <1>3 DEF ConnectionsKept
  <2>3. \A q \in Pids : app'[q].conn # 0 =>
          /\ owner'[app'[q].conn] = q /\ app'[q].conn \notin closed'
          /\ \A d \in Conns : owner'[d] = q => d <= app'[q].conn
    <3> SUFFICES ASSUME NEW q \in Pids, app'[q].conn # 0
                 PROVE  /\ owner[app[q].conn] = q /\ app[q].conn \notin closed' /\ app'[q] = app[q]
                        /\ \A d \in Conns : owner[d] = q => d <= app[q].conn
      BY <1>2
    <3>1. q # p /\ app'[q] = app[q]
      BY <1>4
    <3>2. owner[app[q].conn] = q /\ app[q].conn \notin closed
          /\ \A d \in Conns : owner[d] = q => d <= app[q].conn
      BY <3>1, <1>1 DEF ConnectionsKept
    <3>3. app[q].conn # c
      BY <3>1, <3>2, <2>1
    <3> QED
      BY <3>1, <3>2, <3>3, <1>2, <1>3
  <2> QED
    BY <2>2, <2>3, <1>1, <1>2 DEF ConnectionsKept
<1>10. StaysRegistered'
  BY <1>1, <1>2, <1>4 DEF StaysRegistered
<1> QED
  BY <1>6, <1>7, <1>8, <1>9, <1>10 DEF GuestKept

-----------------------------------------------------------------------------
(* The theorems. *)

(***************************************************************************)
(* Every step keeps the invariant.                                         *)
(***************************************************************************)
LEMMA NextGuest ==
  ASSUME GuestKept, [Next]_vars PROVE GuestKept'
<1>1. CASE Daemon
  <2>1. UNCHANGED <<app, asks, granting>>
    BY <1>1 DEF Daemon
  <2>2. ASSUME NEW c \in Conns, ReaderThread(c) PROVE GuestKept'
    BY <2>1, <2>2, ReadKept, HandleKept, CloseKept DEF ReaderThread
  <2> QED
    BY <1>1, <2>1, <2>2, AcceptKept, OrchestratorThreadKept DEF Daemon
<1>2. CASE Orchestrator \/ LinkFails
  BY <1>2, OrchestratorKept
<1>3. ASSUME NEW p \in Pids, Process(p) PROVE GuestKept'
  BY <1>3, ConnectKept, ProcessEndsKept, WriteKept, ReserveKept DEF Process
<1>4. CASE UNCHANGED vars
  <2>1. UNCHANGED <<clients, pending, allocations, reader, orch, request_id, daemon, owner, backlog,
                    closed, inbox, outbox, requests, responses, link, client_of, granted, lost, app, asks,
                    granting>>
    BY <1>4 DEF vars, daemonVars, socketVars, vsockVars, historyVars
  <2>2. DaemonTypes /\ SocketTypes /\ VsockTypes /\ AppTypes /\ TypesKept /\ HandsKept
        /\ ConnectionsKept /\ StaysRegistered /\ RequestsKept
    BY DEF GuestKept, TypesKept
  <2>3. DaemonTypes' /\ SocketTypes' /\ VsockTypes' /\ AppTypes'
    BY <2>1, <2>2 DEF DaemonTypes, SocketTypes, VsockTypes, AppTypes
  <2>4. NoConnection
    BY <2>1 DEF NoConnection
  <2> QED
    BY <2>1, <2>2, <2>3, <2>4, HandsSame, RequestsSame, ConnectionsSame DEF GuestKept, TypesKept
<1> QED
  BY <1>1, <1>2, <1>3, <1>4 DEF Next

(***************************************************************************)
(* The invariant gives the types: what is in the sockets has a size, and   *)
(* REQUEST_ID_COUNTER never passes the requests written.                   *)
(***************************************************************************)
LEMMA GuestTypes == GuestKept => TypeOK
<1> SUFFICES ASSUME GuestKept PROVE TypeOK
  OBVIOUS
<1>1. DaemonTypes /\ SocketTypes /\ VsockTypes /\ AppTypes
  BY DEF GuestKept, TypesKept
<1>2. request_id \in 0..MaxAsks
  <2>1. request_id \in Nat /\ asks \in Nat /\ MaxAsks \in Nat /\ asks <= MaxAsks
    BY <1>1, Numbers DEF DaemonTypes, AppTypes
  <2>2. IsFiniteSet(Asks)
    BY FS_Interval, Numbers DEF Asks
  <2>3. Cardinality(Unread) \in Nat
    <3>1. Unread \subseteq Asks
      BY DEF Unread
    <3> QED
      BY <3>1, <2>2, FS_Subset, FS_CardinalityType
  <2>4. request_id + Cardinality(Unread) <= asks
    BY DEF GuestKept, RequestsKept
  <2> QED
    BY <2>1, <2>3, <2>4
<1>3. \A c \in Conns : /\ \A i \in DOMAIN outbox[c] : outbox[c][i].size \in Nat
                       /\ \A i \in DOMAIN inbox[c] : inbox[c][i].size \in Nat \ {0}
  <2> SUFFICES ASSUME NEW c \in Conns
               PROVE  /\ \A i \in DOMAIN outbox[c] : outbox[c][i].size \in Nat
                      /\ \A i \in DOMAIN inbox[c] : inbox[c][i].size \in Nat \ {0}
    OBVIOUS
  <2>1. outbox[c] \in Seq(Answers) /\ inbox[c] \in Seq(Written)
    BY <1>1 DEF SocketTypes
  <2>2. \A i \in DOMAIN outbox[c] : outbox[c][i] \in Answers
    BY <2>1
  <2>3. \A i \in DOMAIN inbox[c] : inbox[c][i] \in Written
    BY <2>1
  <2> QED
    BY <2>2, <2>3 DEF Answers, Written
<1>4. reader \in [Conns -> [at : {"none", "reading", "check", "forward", "deny", "send", "done"},
                            msg : Messages]]
  <2>1. {"none", "reading", "done"} \cup Busy
          = {"none", "reading", "check", "forward", "deny", "send", "done"}
    BY DEF Busy
  <2> QED
    BY <2>1, <1>1 DEF DaemonTypes, Readers
<1> QED
  BY <1>1, <1>2, <1>3, <1>4 DEF TypeOK, DaemonTypes, SocketTypes, VsockTypes, AppTypes, Pending,
     Processes

(***************************************************************************)
(* GuestKept holds in every reachable state.                               *)
(***************************************************************************)
THEOREM GuestKeptAlways == Spec => []GuestKept
<1>1. Init => GuestKept
  BY InitGuest
<1>2. GuestKept /\ [Next]_vars => GuestKept'
  BY NextGuest
<1> QED
  BY <1>1, <1>2, PTL DEF Spec

(***************************************************************************)
(* The state of ephemerald and of the processes has its types: a reader    *)
(* never takes a request of size zero from a socket of libephmem_reserve,  *)
(* and request ids stay below the number of requests.                      *)
(***************************************************************************)
THEOREM GuestTypesAlways == Spec => []TypeOK
BY GuestKeptAlways, GuestTypes, PTL

(***************************************************************************)
(* A connected process stays registered, whatever the close handler of an  *)
(* earlier process with its pid does.                                      *)
(***************************************************************************)
THEOREM StaysRegisteredAlways == Spec => []StaysRegistered
<1>1. GuestKept => StaysRegistered
  BY DEF GuestKept
<1> QED
  BY <1>1, GuestKeptAlways, PTL

-----------------------------------------------------------------------------
(* The way of a request: a reader has it, it is in the vsock, the          *)
(* orchestrator works on it, responses to it are in flight.                *)

Working == {"check", "forward", "deny"}

WithReader(i) == \E c \in Conns : reader[c].at \in Working /\ reader[c].msg.id = i
WithVsock(i) == \E k \in DOMAIN requests : requests[k].id = i
WithOrchestrator(i) == granting.id = i
Flying(i) == \/ \E k \in DOMAIN responses : responses[k].id = i
             \/ orch.at = "found" /\ orch.msg.id = i

(* It is in one place at a time, and ids are not used again. *)
InOnePlace(i) ==
  /\ WithReader(i) => ~WithVsock(i) /\ ~WithOrchestrator(i) /\ ~Flying(i)
  /\ WithVsock(i) => ~WithOrchestrator(i) /\ ~Flying(i)
  /\ WithOrchestrator(i) => ~Flying(i)
  /\ WithReader(i) \/ WithVsock(i) \/ WithOrchestrator(i) \/ Flying(i) => i < request_id

OnePlace ==
  /\ \A c, d \in Conns :
       reader[c].at \in Working /\ reader[d].at \in Working
         /\ reader[c].msg.id = reader[d].msg.id => c = d
  /\ \A j, k \in DOMAIN requests : requests[j].id = requests[k].id => j = k
  /\ \A i \in Ids : InOnePlace(i)

(* Request i of n bytes is pending, and no response to it was delivered. *)
Fresh(i, n) ==
  /\ client_of[i] \in Conns
  /\ pending[client_of[i]].id = i
  /\ pending[client_of[i]].requested = n /\ pending[client_of[i]].received = 0

Claims ==
  /\ \A c \in Conns : pending[c].id # -1 => client_of[pending[c].id] = c
  /\ \A i \in Ids : i >= request_id => client_of[i] = 0
  /\ \A c \in Conns :
       /\ reader[c].at = "check" => client_of[reader[c].msg.id] = 0
       /\ reader[c].at \in {"forward", "deny"} =>
            /\ Fresh(reader[c].msg.id, reader[c].msg.size)
            /\ client_of[reader[c].msg.id] = reader[c].msg.client
  /\ \A k \in DOMAIN requests : Fresh(requests[k].id, requests[k].size)
  /\ granting # NoRequest => Fresh(granting.id, granting.requested)

(* Request i waits for all of its responses in flight, and has room for them. *)
Awaited(i) ==
  /\ client_of[i] \in Conns
  /\ pending[client_of[i]].id = i
  /\ pending[client_of[i]].received + InFlight(i) <= pending[client_of[i]].requested

Flights ==
  /\ \A i \in Ids : Flying(i) => Awaited(i)
  /\ \A j, k \in DOMAIN responses :
       j < k /\ responses[j].id = responses[k].id => responses[j].more
  /\ orch.at = "found" =>
       /\ orch.msg.client = client_of[orch.msg.id] /\ orch.msg.size = Granularity
       /\ orch.msg.more \/ \A k \in DOMAIN responses : responses[k].id # orch.msg.id

RouteKept == OnePlace /\ Claims /\ Flights

(***************************************************************************)
(* A step that moves no request on, though a reader may drop the one it    *)
(* has.                                                                    *)
(***************************************************************************)
LEMMA RouteSame ==
  ASSUME TypesKept, RouteKept, UNCHANGED <<pending, client_of, requests, responses, granting>>,
         request_id' \in {request_id, request_id + 1},
         orch' = orch \/ (orch'.at # "found" /\ orch.at # "found"),
         \A c \in Conns : reader'[c].at \in Working => reader'[c] = reader[c]
  PROVE  RouteKept'
<1>1. request_id \in Nat /\ Ids \subseteq Nat
  BY Numbers DEF TypesKept, DaemonTypes
<1>2. \A i \in Ids : /\ i < request_id => i < request_id'
                     /\ i >= request_id' => i >= request_id
  BY <1>1
<1>3. \A i \in Ids : /\ WithReader(i)' => WithReader(i)
                     /\ WithVsock(i)' <=> WithVsock(i)
                     /\ WithOrchestrator(i)' <=> WithOrchestrator(i)
                     /\ Flying(i)' <=> Flying(i)
  BY DEF WithReader, WithVsock, WithOrchestrator, Flying
<1>4. \A i \in Ids : InOnePlace(i)'
  BY <1>2, <1>3 DEF RouteKept, OnePlace, InOnePlace
<1>5. OnePlace'
  BY <1>4 DEF RouteKept, OnePlace
<1>6. Claims'
  <2>1. Claims
    BY DEF RouteKept
  <2>2. \A c \in Conns :
       /\ reader'[c].at = "check" => reader'[c] = reader[c]
       /\ reader'[c].at \in {"forward", "deny"} => reader'[c] = reader[c]
    BY DEF Working
  <2> QED
    BY <2>1, <2>2, <1>2 DEF Claims, Fresh
<1>7. \A i \in Ids : InFlight(i)' = InFlight(i)
  BY DEF InFlight
<1>8. Flights'
  <2>1. \A i \in Ids : Flying(i)' => Awaited(i)'
    BY <1>3, <1>7 DEF RouteKept, Flights, Awaited
  <2> QED
    BY <2>1 DEF RouteKept, Flights
<1> QED
  BY <1>5, <1>6, <1>8 DEF RouteKept

(***************************************************************************)
(* A reader draws an id for the request it has read.                       *)
(***************************************************************************)
LEMMA RouteRead ==
  ASSUME TypesKept, RouteKept, NEW c \in Conns, request_id \in Ids, reader[c].at \notin Working,
         UNCHANGED <<pending, client_of, requests, responses, granting, orch>>,
         request_id' = request_id + 1, reader'[c].at = "check", reader'[c].msg.id = request_id,
         \A d \in Conns : d # c => reader'[d] = reader[d]
  PROVE  RouteKept'
<1>1. request_id \in Nat /\ Ids \subseteq Nat
  BY Numbers DEF TypesKept, DaemonTypes
<1>2. \A i \in Ids : /\ i < request_id => i < request_id' /\ i # request_id
                     /\ i >= request_id' => i >= request_id
                     /\ i = request_id => i < request_id' /\ ~(i < request_id) /\ i >= request_id
  BY <1>1
<1>3. \A i \in Ids : /\ WithReader(i)' => WithReader(i) \/ i = request_id
                     /\ WithVsock(i)' <=> WithVsock(i)
                     /\ WithOrchestrator(i)' <=> WithOrchestrator(i)
                     /\ Flying(i)' <=> Flying(i)
  BY DEF WithReader, WithVsock, WithOrchestrator, Flying
<1>4. \A i \in Ids : InOnePlace(i)'
  BY <1>2, <1>3 DEF RouteKept, OnePlace, InOnePlace
<1>5. OnePlace'
  <2>1. \A d \in Conns : reader[d].at \in Working => reader[d].msg.id # request_id
    <3> SUFFICES ASSUME NEW d \in Conns, reader[d].at \in Working, reader[d].msg.id = request_id
                 PROVE  FALSE
      OBVIOUS
    <3>1. WithReader(request_id)
      BY DEF WithReader
    <3> QED
      BY <3>1, <1>2 DEF RouteKept, OnePlace, InOnePlace
  <2>2. \A d, e \in Conns :
          reader'[d].at \in Working /\ reader'[e].at \in Working
            /\ reader'[d].msg.id = reader'[e].msg.id => d = e
    BY <2>1 DEF RouteKept, OnePlace
  <2> QED
    BY <2>2, <1>4 DEF RouteKept, OnePlace
<1>6. Claims'
  <2>1. Claims /\ client_of[request_id] = 0
    BY <1>2 DEF RouteKept, Claims
  <2> QED
    BY <2>1, <1>2 DEF Claims, Fresh
<1>7. \A i \in Ids : InFlight(i)' = InFlight(i)
  BY DEF InFlight
<1>8. Flights'
  <2>1. \A i \in Ids : Flying(i)' => Awaited(i)'
    BY <1>3, <1>7 DEF RouteKept, Flights, Awaited
  <2> QED
    BY <2>1 DEF RouteKept, Flights
<1> QED
  BY <1>5, <1>6, <1>8 DEF RouteKept

(* What is pending for request i stays so. *)
PendsSame(i) ==
  client_of'[i] = client_of[i] /\ pending'[client_of[i]] = pending[client_of[i]]

(***************************************************************************)
(* The requests other than i, when only that one changes.                  *)
(***************************************************************************)
LEMMA OthersAwaited ==
  ASSUME HandsKept, Flights, NEW i \in Ids, ~Flying(i), UNCHANGED <<responses, orch>>,
         \A j \in Ids : j # i /\ client_of[j] \in Conns /\ pending[client_of[j]].id = j => PendsSame(j)
  PROVE  Flights'
<1>1. \A j \in Ids : Flying(j)' <=> Flying(j)
  BY DEF Flying
<1>2. \A j \in Ids : InFlight(j)' = InFlight(j)
  BY DEF InFlight
<1>3. \A j \in Ids : Flying(j) => j # i /\ PendsSame(j)
  BY DEF Flights, Awaited
<1>4. \A j \in Ids : Flying(j)' => Awaited(j)'
  BY <1>1, <1>2, <1>3 DEF Flights, Awaited, PendsSame
<1>5. orch.at = "found" => client_of'[orch.msg.id] = client_of[orch.msg.id]
  BY <1>3 DEF Flying, PendsSame, HandsKept
<1> QED
  BY <1>4, <1>5 DEF Flights

(***************************************************************************)
(* The elements of a queue of requests.                                    *)
(***************************************************************************)
LEMMA RequestsIn ==
  ASSUME NEW S, requests \in Seq(S) PROVE \A k \in DOMAIN requests : requests[k] \in S
OBVIOUS

(***************************************************************************)
(* What the steps below use of the types.                                  *)
(***************************************************************************)
LEMMA RouteTypes ==
  ASSUME TypesKept, RouteKept
  PROVE  /\ pending \in [Conns -> Pending] /\ client_of \in [Ids -> Conns \cup {0}]
         /\ reader \in [Conns -> Readers] /\ 0 \notin Conns /\ -1 \notin Ids
         /\ OnePlace /\ Claims /\ Flights
         /\ \A k \in DOMAIN requests : requests[k].id \in Ids
         /\ granting # NoRequest => granting.id \in Ids
<1>1. -1 \notin Nat
  OBVIOUS
<1>2. 0 \notin Conns /\ -1 \notin Ids
  BY <1>1, Numbers
<1>3. \A k \in DOMAIN requests : requests[k] \in [id : Ids, size : Nat]
  BY RequestsIn DEF TypesKept, VsockTypes
<1>4. \A k \in DOMAIN requests : requests[k].id \in Ids
  BY <1>3
<1> QED
  BY <1>2, <1>4 DEF TypesKept, DaemonTypes, VsockTypes, RouteKept

(***************************************************************************)
(* A request becomes the pending one of its client.                        *)
(***************************************************************************)
LEMMA RouteChecked ==
  ASSUME TypesKept, HandsKept, RouteKept, NEW c \in Conns, NEW m \in Messages, NEW d \in Conns,
         NEW i \in Ids, reader[c] = At("check", m), m.client = d, m.id = i, pending[d] = NoRequest,
         UNCHANGED <<requests, responses, granting, orch, request_id>>,
         pending' = [pending EXCEPT ![d] =
                       [id |-> i, requested |-> m.size, received |-> 0, allocations |-> {},
                ask |-> m.ask]],
         client_of' = [client_of EXCEPT ![i] = d], reader' = [reader EXCEPT ![c] = At("forward", m)]
  PROVE  RouteKept'
<1>1. /\ pending \in [Conns -> Pending] /\ client_of \in [Ids -> Conns \cup {0}]
      /\ reader \in [Conns -> Readers] /\ 0 \notin Conns /\ -1 \notin Ids
      /\ OnePlace /\ Claims /\ Flights
      /\ \A k \in DOMAIN requests : requests[k].id \in Ids
      /\ granting # NoRequest => granting.id \in Ids
  BY RouteTypes
<1>2. /\ reader[c].at = "check" /\ reader[c].msg = m
      /\ reader'[c].at = "forward" /\ reader'[c].msg = m
      /\ \A e \in Conns : e # c => reader'[e] = reader[e]
  BY <1>1 DEF At
<1>3. /\ pending[d].id = -1
      /\ pending'[d].id = i /\ pending'[d].requested = m.size /\ pending'[d].received = 0
      /\ \A e \in Conns : e # d => pending'[e] = pending[e]
      /\ client_of'[i] = d /\ \A j \in Ids : j # i => client_of'[j] = client_of[j]
      /\ client_of[i] = 0
  BY <1>1, <1>2 DEF NoRequest, Claims
<1>4. \A j \in Ids : /\ WithReader(j)' <=> WithReader(j)
                     /\ WithVsock(j)' <=> WithVsock(j)
                     /\ WithOrchestrator(j)' <=> WithOrchestrator(j)
                     /\ Flying(j)' <=> Flying(j)
  BY <1>2 DEF WithReader, WithVsock, WithOrchestrator, Flying, Working
<1>5. OnePlace'
  <2>1. \A j \in Ids : InOnePlace(j)'
    BY <1>1, <1>4 DEF OnePlace, InOnePlace
  <2> QED
    BY <2>1, <1>1, <1>2 DEF OnePlace, Working
<1>6. WithReader(i) /\ ~WithVsock(i) /\ ~WithOrchestrator(i) /\ ~Flying(i) /\ i < request_id
  <2>1. WithReader(i)
    BY <1>2 DEF WithReader, Working
  <2> QED
    BY <2>1, <1>1 DEF OnePlace, InOnePlace
<1>7. \A j \in Ids : j # i /\ client_of[j] \in Conns /\ pending[client_of[j]].id = j => PendsSame(j)
  BY <1>1, <1>3 DEF PendsSame
<1>8. Flights'
  BY <1>1, <1>6, <1>7, OthersAwaited
<1>9. Claims'
  <2>1. \A e \in Conns : pending'[e].id # -1 => client_of'[pending'[e].id] = e
    <3> SUFFICES ASSUME NEW e \in Conns, e # d, pending[e].id # -1
                 PROVE  client_of'[pending[e].id] = e
      BY <1>3
    <3>1. pending[e].id \in Ids /\ client_of[pending[e].id] = e
      BY <1>1 DEF Claims, Pending
    <3> QED
      BY <3>1, <1>1, <1>3
  <2>2. \A j \in Ids : j >= request_id' => client_of'[j] = 0
    <3>1. ~(i >= request_id)
      BY <1>6, Numbers DEF TypesKept, DaemonTypes
    <3> QED
      BY <3>1, <1>1, <1>3 DEF Claims
  <2>3. \A e \in Conns : e # c /\ reader[e].at \in Working => reader[e].msg.id \in Ids /\ reader[e].msg.id # i
    BY <1>1, <1>2 DEF OnePlace, Working, HandsKept, Busy
  <2>4. \A e \in Conns : reader'[e].at = "check" => client_of'[reader'[e].msg.id] = 0
    BY <2>3, <1>1, <1>2, <1>3 DEF Claims, Working
  <2>5. \A e \in Conns : reader'[e].at \in {"forward", "deny"} =>
            /\ Fresh(reader[e].msg.id, reader[e].msg.size)'
            /\ client_of'[reader'[e].msg.id] = reader'[e].msg.client
    <3> SUFFICES ASSUME NEW e \in Conns, e # c, reader[e].at \in {"forward", "deny"}
                 PROVE  /\ Fresh(reader[e].msg.id, reader[e].msg.size)'
                        /\ client_of'[reader'[e].msg.id] = reader'[e].msg.client
      BY <1>2, <1>3 DEF Fresh
    <3>1. /\ Fresh(reader[e].msg.id, reader[e].msg.size) /\ reader[e].msg.id \in Ids
          /\ client_of[reader[e].msg.id] = reader[e].msg.client /\ reader[e].msg.id # i
      BY <2>3, <1>1 DEF Claims, Working
    <3> QED
      BY <3>1, <1>2, <1>7 DEF Fresh, PendsSame
  <2>6. \A k \in DOMAIN requests : requests[k].id # i
    BY <1>6 DEF WithVsock
  <2>7. \A k \in DOMAIN requests' : Fresh(requests[k].id, requests[k].size)'
    BY <2>6, <1>1, <1>7 DEF Claims, Fresh, PendsSame
  <2>8. granting' # NoRequest => Fresh(granting.id, granting.requested)'
    BY <1>1, <1>6, <1>7 DEF Claims, Fresh, PendsSame, WithOrchestrator
  <2> QED
    BY <2>1, <2>2, <2>4, <2>5, <2>7, <2>8 DEF Claims
<1> QED
  BY <1>5, <1>8, <1>9 DEF RouteKept

(***************************************************************************)
(* A request is written to the vsock.                                      *)
(***************************************************************************)
LEMMA RouteForwarded ==
  ASSUME TypesKept, HandsKept, RouteKept, NEW c \in Conns, NEW m \in Messages, NEW i \in Ids,
         reader[c] = At("forward", m), m.id = i, reader' = [reader EXCEPT ![c] = At("reading", NoMessage)],
         requests' = Append(requests, [id |-> i, size |-> m.size]),
         UNCHANGED <<pending, client_of, responses, granting, orch, request_id>>
  PROVE  RouteKept'
<1>1. /\ reader \in [Conns -> Readers] /\ OnePlace /\ Claims /\ Flights
  BY RouteTypes
<1>2. /\ reader[c].at = "forward" /\ reader[c].msg = m /\ reader'[c].at = "reading"
      /\ \A e \in Conns : e # c => reader'[e] = reader[e]
  BY <1>1 DEF At
<1>3. PICK k \in Nat : k = Len(requests) + 1
  BY DEF TypesKept, VsockTypes
<1>4. /\ DOMAIN requests' = DOMAIN requests \cup {k} /\ k \notin DOMAIN requests
      /\ requests'[k] = [id |-> i, size |-> m.size]
      /\ \A j \in DOMAIN requests : requests'[j] = requests[j]
  <2>1. requests \in Seq([id : Ids, size : Nat])
    BY DEF TypesKept, VsockTypes
  <2> QED
    BY <2>1, <1>3
<1>5. WithReader(i) /\ ~WithVsock(i) /\ ~WithOrchestrator(i) /\ ~Flying(i) /\ i < request_id
  <2>1. WithReader(i)
    BY <1>2 DEF WithReader, Working
  <2> QED
    BY <2>1, <1>1 DEF OnePlace, InOnePlace
<1>6. \A j \in Ids : /\ WithReader(j)' => WithReader(j) /\ j # i
                     /\ WithVsock(j)' => WithVsock(j) \/ j = i
                     /\ WithOrchestrator(j)' <=> WithOrchestrator(j)
                     /\ Flying(j)' <=> Flying(j)
  <2>1. \A e \in Conns : reader'[e].at \in Working => e # c /\ reader'[e] = reader[e]
    BY <1>2 DEF Working
  <2>2. \A e \in Conns : reader'[e].at \in Working => reader[e].msg.id # i
    BY <2>1, <1>1, <1>2 DEF OnePlace, Working
  <2>3. \A j \in Ids : WithReader(j)' => WithReader(j) /\ j # i
    BY <2>1, <2>2 DEF WithReader
  <2>4. \A j \in Ids : WithVsock(j)' => WithVsock(j) \/ j = i
    BY <1>4 DEF WithVsock
  <2> QED
    BY <2>3, <2>4 DEF WithOrchestrator, Flying
<1>7. OnePlace'
  <2>1. \A j \in Ids : InOnePlace(j)'
    BY <1>1, <1>5, <1>6 DEF OnePlace, InOnePlace
  <2>2. \A j, l \in DOMAIN requests' : requests'[j].id = requests'[l].id => j = l
    BY <1>1, <1>4, <1>5 DEF OnePlace, WithVsock
  <2>3. \A e \in Conns : reader'[e].at \in Working => reader'[e] = reader[e]
    BY <1>2 DEF Working
  <2> QED
    BY <2>1, <2>2, <2>3, <1>1 DEF OnePlace
<1>8. Claims'
  <2>1. \A j \in DOMAIN requests' : Fresh(requests[j].id, requests[j].size)'
    BY <1>1, <1>2, <1>4 DEF Claims, Fresh
  <2> QED
    BY <2>1, <1>1, <1>2, SMTT(30) DEF Claims, Fresh
<1>9. Flights'
  BY <1>1, <1>5, OthersAwaited DEF PendsSame
<1> QED
  BY <1>7, <1>8, <1>9 DEF RouteKept

(***************************************************************************)
(* The vsock is closed, and the reader will deny the request.              *)
(***************************************************************************)
LEMMA RouteDown ==
  ASSUME TypesKept, HandsKept, RouteKept, NEW c \in Conns, reader[c].at = "forward",
         reader' = [reader EXCEPT ![c].at = "deny"],
         UNCHANGED <<pending, client_of, requests, responses, granting, orch, request_id>>
  PROVE  RouteKept'
<1>1. /\ reader \in [Conns -> Readers] /\ OnePlace /\ Claims /\ Flights
  BY RouteTypes
<1>2. /\ reader'[c].at = "deny" /\ \A e \in Conns : reader'[e].msg = reader[e].msg
      /\ \A e \in Conns : e # c => reader'[e] = reader[e]
  BY <1>1 DEF Readers
<1>3. \A j \in Ids : /\ WithReader(j)' <=> WithReader(j)
                     /\ WithVsock(j)' <=> WithVsock(j)
                     /\ WithOrchestrator(j)' <=> WithOrchestrator(j)
                     /\ Flying(j)' <=> Flying(j)
  BY <1>2 DEF WithReader, WithVsock, WithOrchestrator, Flying, Working
<1>4. OnePlace'
  <2>1. \A j \in Ids : InOnePlace(j)'
    BY <1>1, <1>3 DEF OnePlace, InOnePlace
  <2> QED
    BY <2>1, <1>1, <1>2 DEF OnePlace, Working
<1>5. Claims'
  BY <1>1, <1>2 DEF Claims, Fresh
<1>6. Flights'
  <2>1. \A i \in Ids : InFlight(i)' = InFlight(i)
    BY DEF InFlight
  <2>2. \A i \in Ids : Flying(i)' => Awaited(i)'
    BY <2>1, <1>1, <1>3 DEF Flights, Awaited
  <2> QED
    BY <2>2, <1>1 DEF Flights
<1> QED
  BY <1>4, <1>5, <1>6 DEF RouteKept

(***************************************************************************)
(* The reader denies a request: it is not pending any more.                *)
(***************************************************************************)
LEMMA RouteDenied ==
  ASSUME TypesKept, HandsKept, RouteKept, NEW c \in Conns, NEW d \in Conns, NEW i \in Ids,
         reader[c].at = "deny", reader[c].msg.client = d, reader[c].msg.id = i, pending[d].id = i,
         pending' = [pending EXCEPT ![d] = NoRequest], reader'[c].at = "send",
         \A e \in Conns : e # c => reader'[e] = reader[e],
         UNCHANGED <<client_of, requests, responses, granting, orch, request_id>>
  PROVE  RouteKept'
<1>1. /\ pending \in [Conns -> Pending] /\ client_of \in [Ids -> Conns \cup {0}]
      /\ reader \in [Conns -> Readers] /\ 0 \notin Conns /\ -1 \notin Ids
      /\ OnePlace /\ Claims /\ Flights
      /\ \A k \in DOMAIN requests : requests[k].id \in Ids
      /\ granting # NoRequest => granting.id \in Ids
  BY RouteTypes
<1>2. /\ pending'[d].id = -1 /\ \A e \in Conns : e # d => pending'[e] = pending[e]
  BY <1>1 DEF NoRequest
<1>3. WithReader(i) /\ ~WithVsock(i) /\ ~WithOrchestrator(i) /\ ~Flying(i)
  <2>1. WithReader(i)
    BY DEF WithReader, Working
  <2> QED
    BY <2>1, <1>1 DEF OnePlace, InOnePlace
<1>4. \A e \in Conns : reader'[e].at \in Working => e # c /\ reader'[e] = reader[e]
  BY DEF Working
<1>5. \A j \in Ids : /\ WithReader(j)' => WithReader(j)
                     /\ WithVsock(j)' <=> WithVsock(j)
                     /\ WithOrchestrator(j)' <=> WithOrchestrator(j)
                     /\ Flying(j)' <=> Flying(j)
  BY <1>4 DEF WithReader, WithVsock, WithOrchestrator, Flying
<1>6. OnePlace'
  <2>1. \A j \in Ids : InOnePlace(j)'
    BY <1>1, <1>5 DEF OnePlace, InOnePlace
  <2> QED
    BY <2>1, <1>1, <1>4 DEF OnePlace
<1>7. \A j \in Ids : j # i /\ client_of[j] \in Conns /\ pending[client_of[j]].id = j => PendsSame(j)
  BY <1>1, <1>2 DEF PendsSame
<1>8. Flights'
  BY <1>1, <1>3, <1>7, OthersAwaited
<1>9. Claims'
  <2>1. \A e \in Conns : pending'[e].id # -1 => client_of'[pending'[e].id] = e
    BY <1>1, <1>2 DEF Claims
  <2>2. \A e \in Conns : e # c /\ reader[e].at \in Working => reader[e].msg.id \in Ids /\ reader[e].msg.id # i
    BY <1>1 DEF OnePlace, Working, HandsKept, Busy
  <2>3. \A e \in Conns : reader'[e].at = "check" => client_of'[reader'[e].msg.id] = 0
    BY <1>1, <1>4 DEF Claims, Working
  <2>4. \A e \in Conns : reader'[e].at \in {"forward", "deny"} =>
            /\ Fresh(reader[e].msg.id, reader[e].msg.size)'
            /\ client_of'[reader'[e].msg.id] = reader'[e].msg.client
    <3> SUFFICES ASSUME NEW e \in Conns, e # c, reader[e].at \in {"forward", "deny"}
                 PROVE  /\ Fresh(reader[e].msg.id, reader[e].msg.size)'
                        /\ client_of'[reader'[e].msg.id] = reader'[e].msg.client
      BY <1>4 DEF Working
    <3>1. /\ Fresh(reader[e].msg.id, reader[e].msg.size) /\ reader[e].msg.id \in Ids
          /\ client_of[reader[e].msg.id] = reader[e].msg.client /\ reader[e].msg.id # i
          /\ reader'[e] = reader[e]
      BY <2>2, <1>1 DEF Claims, Working
    <3> QED
      BY <3>1, <1>7 DEF Fresh, PendsSame
  <2>5. \A k \in DOMAIN requests : requests[k].id # i
    BY <1>3 DEF WithVsock
  <2>6. \A k \in DOMAIN requests' : Fresh(requests[k].id, requests[k].size)'
    BY <2>5, <1>1, <1>7 DEF Claims, Fresh, PendsSame
  <2>7. granting' # NoRequest => Fresh(granting.id, granting.requested)'
    BY <1>1, <1>3, <1>7 DEF Claims, Fresh, PendsSame, WithOrchestrator
  <2>8. \A j \in Ids : j >= request_id' => client_of'[j] = 0
    BY <1>1 DEF Claims
  <2> QED
    BY <2>1, <2>3, <2>4, <2>6, <2>7, <2>8 DEF Claims
<1> QED
  BY <1>6, <1>8, <1>9 DEF RouteKept

(***************************************************************************)
(* The orchestrator takes the next request.                                *)
(***************************************************************************)
LEMMA RouteTaken ==
  ASSUME TypesKept, HandsKept, RouteKept, OrchestratorTakes PROVE RouteKept'
<1>1. /\ reader \in [Conns -> Readers] /\ OnePlace /\ Claims /\ Flights /\ -1 \notin Ids
      /\ \A k \in DOMAIN requests : requests[k].id \in Ids
  BY RouteTypes
<1>2. /\ granting = NoRequest /\ requests # <<>> /\ requests' = Tail(requests)
      /\ UNCHANGED <<pending, client_of, responses, orch, request_id, reader>>
      /\ granting' = [NoRequest EXCEPT !.id = Head(requests).id, !.requested = Head(requests).size]
  BY DEF OrchestratorTakes, daemonVars, historyVars
<1>3. PICK S : S = [id : Ids, size : Nat]
  OBVIOUS
<1>4. requests \in Seq(S)
  BY <1>3 DEF TypesKept, VsockTypes
<1>5. /\ Head(requests) = requests[1] /\ 1 \in DOMAIN requests
      /\ \A k \in DOMAIN requests' :
           /\ k + 1 \in DOMAIN requests /\ k + 1 # 1 /\ requests'[k] = requests[k + 1] /\ k \in Nat
  BY <1>2, <1>4
<1>6. PICK i \in Ids, n \in Nat : i = requests[1].id /\ n = requests[1].size
  <2>1. requests[1] \in [id : Ids, size : Nat]
    BY <1>3, <1>4, <1>5, RequestsIn
  <2> QED
    BY <2>1
<1>7. granting'.id = i /\ granting'.requested = n
  BY <1>2, <1>5, <1>6 DEF NoRequest
<1>8. WithVsock(i) /\ ~WithReader(i) /\ ~Flying(i) /\ i < request_id
  <2>1. WithVsock(i)
    BY <1>5, <1>6 DEF WithVsock
  <2> QED
    BY <2>1, <1>1 DEF OnePlace, InOnePlace
<1>9. \A k \in DOMAIN requests' : requests'[k].id # i
  BY <1>1, <1>5, <1>6 DEF OnePlace
<1>10. \A j \in Ids : /\ WithReader(j)' <=> WithReader(j)
                      /\ WithVsock(j)' => WithVsock(j) /\ j # i
                      /\ WithOrchestrator(j)' <=> j = i
                      /\ Flying(j)' <=> Flying(j)
  BY <1>2, <1>5, <1>7, <1>9 DEF WithReader, WithVsock, WithOrchestrator, Flying
<1>11. OnePlace'
  <2>1. \A j \in Ids : InOnePlace(j)'
    BY <1>1, <1>2, <1>8, <1>10 DEF OnePlace, InOnePlace
  <2>2. \A j, k \in DOMAIN requests' : requests'[j].id = requests'[k].id => j = k
    BY <1>1, <1>5 DEF OnePlace
  <2> QED
    BY <2>1, <2>2, <1>1, <1>2 DEF OnePlace
<1>12. Claims'
  <2>1. Fresh(i, n)
    BY <1>1, <1>5, <1>6 DEF Claims
  <2>2. Fresh(granting.id, granting.requested)'
    BY <2>1, <1>2, <1>7 DEF Fresh
  <2>3. \A k \in DOMAIN requests' : Fresh(requests[k].id, requests[k].size)'
    BY <1>1, <1>2, <1>5 DEF Claims, Fresh
  <2> QED
    BY <2>2, <2>3, <1>1, <1>2, ZenonT(30) DEF Claims, Fresh
<1>13. Flights'
  BY <1>1, <1>2, <1>8, OthersAwaited DEF PendsSame
<1> QED
  BY <1>11, <1>12, <1>13 DEF RouteKept

(* The responses to request i in a queue of them. *)
Count(s, i) == Cardinality({ k \in DOMAIN s : s[k].id = i })

Found(i) == IF orch.at = "found" /\ orch.msg.id = i THEN 1 ELSE 0

(***************************************************************************)
(* One response less in the queue.                                         *)
(***************************************************************************)
LEMMA CountNat ==
  ASSUME NEW s \in Seq(Responses), NEW i
  PROVE  Count(s, i) \in Nat /\ (Count(s, i) = 0 <=> \A k \in DOMAIN s : s[k].id # i)
<1>1. PICK T : T = { k \in DOMAIN s : s[k].id = i }
  OBVIOUS
<1>2. IsFiniteSet(DOMAIN s)
  BY FS_Interval
<1>3. IsFiniteSet(T)
  BY <1>1, <1>2, FS_Subset
<1> QED
  BY <1>1, <1>3, FS_CardinalityType, FS_EmptySet DEF Count

LEMMA CountTail ==
  ASSUME NEW s \in Seq(Responses), s # <<>>, NEW i
  PROVE  Count(s, i) = Count(Tail(s), i) + IF s[1].id = i THEN 1 ELSE 0
<1>1. PICK T : T = { k \in DOMAIN s : s[k].id = i }
  OBVIOUS
<1>2. PICK U : U = { k \in DOMAIN Tail(s) : Tail(s)[k].id = i }
  OBVIOUS
<1>3. /\ DOMAIN s = 1..Len(s) /\ Len(s) \in Nat /\ Len(s) > 0
      /\ DOMAIN Tail(s) = 1..(Len(s) - 1) /\ \A k \in DOMAIN Tail(s) : Tail(s)[k] = s[k + 1]
  OBVIOUS
<1>4. PICK f : f = [k \in U |-> k + 1]
  OBVIOUS
<1>5. f \in Bijection(U, T \ {1})
  <2>1. \A k \in U : k + 1 \in T \ {1} /\ k \in Nat
    BY <1>1, <1>2, <1>3
  <2>2. \A k \in T \ {1} : k - 1 \in U /\ (k - 1) + 1 = k
    BY <1>1, <1>2, <1>3
  <2>3. f \in [U -> T \ {1}] /\ \A k, l \in U : f[k] = f[l] => k = l
    BY <2>1, <1>4
  <2>4. \A k \in T \ {1} : \E l \in U : f[l] = k
    BY <2>2, <1>4
  <2> QED
    BY <2>3, <2>4 DEF Bijection, Injection, Surjection, IsInjective
<1>6. IsFiniteSet(T) /\ IsFiniteSet(U)
  <2>1. IsFiniteSet(DOMAIN s) /\ IsFiniteSet(DOMAIN Tail(s))
    BY <1>3, FS_Interval
  <2> QED
    BY <2>1, <1>1, <1>2, FS_Subset
<1>7. Cardinality(T \ {1}) = Cardinality(U)
  BY <1>5, <1>6, FS_Bijection DEF ExistsBijection
<1>8. Cardinality(T \ {1}) = IF 1 \in T THEN Cardinality(T) - 1 ELSE Cardinality(T)
  BY <1>6, FS_RemoveElement
<1>9. 1 \in T <=> s[1].id = i
  BY <1>1, <1>3
<1>10. Cardinality(T) \in Nat /\ Cardinality(U) \in Nat
  BY <1>6, FS_CardinalityType
<1>11. Count(s, i) = Cardinality(T) /\ Count(Tail(s), i) = Cardinality(U)
  BY <1>1, <1>2 DEF Count
<1> QED
  BY <1>7, <1>8, <1>9, <1>10, <1>11

(***************************************************************************)
(* The bytes in flight, by the number of responses.                        *)
(***************************************************************************)
LEMMA InFlightIs ==
  ASSUME NEW i PROVE InFlight(i) = Granularity * (Count(responses, i) + Found(i))
BY DEF InFlight, Count, Found

LEMMA InFlightNext ==
  ASSUME NEW i
  PROVE  InFlight(i)' = Granularity * (Count(responses', i) + Found(i)')
BY DEF InFlight, Count, Found

LEMMA Granules ==
  /\ \A a, b \in Nat : a <= b => Granularity * a <= Granularity * b
  /\ \A a \in Nat : Granularity * a \in Nat /\ Granularity * (a + 1) = Granularity * a + Granularity
  /\ \A n, k \in Nat : k <= n \div Granularity => Granularity * k <= n
<1>1. PICK g \in Nat : g = Granularity /\ g > 0
  BY Numbers
<1>2. \A a, b \in Nat : a <= b => g * a <= g * b
  BY <1>1
<1>3. \A a \in Nat : g * a \in Nat /\ g * (a + 1) = g * a + g
  BY <1>1
<1>4. \A n \in Nat : n \div g \in Nat /\ g * (n \div g) <= n
  BY <1>1
<1>5. ASSUME NEW n \in Nat, NEW k \in Nat, k <= n \div g PROVE g * k <= n
  <2>1. PICK q \in Nat : q = n \div g /\ g * q <= n /\ k <= q
    BY <1>4, <1>5
  <2>2. g * k <= g * q /\ g * k \in Nat /\ g * q \in Nat
    BY <2>1, <1>2, <1>3
  <2> QED
    BY <2>1, <2>2
<1> QED
  BY <1>1, <1>2, <1>3, <1>5

(***************************************************************************)
(* The orchestrator answers with k responses.                              *)
(***************************************************************************)
LEMMA RouteAnswered ==
  ASSUME TypesKept, HandsKept, RouteKept, OrchestratorAnswers PROVE RouteKept'
<1>1. /\ pending \in [Conns -> Pending] /\ OnePlace /\ Claims /\ Flights /\ -1 \notin Ids
      /\ granting # NoRequest => granting.id \in Ids
  BY RouteTypes
<1>2. /\ granting # NoRequest /\ granting' = NoRequest
      /\ UNCHANGED <<pending, client_of, requests, orch, request_id, reader>>
  BY DEF OrchestratorAnswers, daemonVars
<1>3. PICK i \in Ids : i = granting.id
  BY <1>1, <1>2
<1>4. PICK r \in Nat : r = granting.requested
  BY DEF TypesKept, VsockTypes, Pending
<1>5. PICK k \in 0..(r \div Granularity) :
        \E at \in [1..k -> Offsets] : responses' = responses \o Parts(k, at)
  BY <1>4 DEF OrchestratorAnswers
<1>5a. PICK at \in [1..k -> Offsets] : responses' = responses \o Parts(k, at)
  BY <1>5
<1>6. k \in Nat /\ Granularity * k <= r /\ r \div Granularity \in Nat
  <2>1. r \div Granularity \in Nat
    BY <1>4, Numbers
  <2>2. k \in Nat /\ k <= r \div Granularity
    BY <1>5, <2>1
  <2> QED
    BY <2>1, <2>2, Granules
<1>7. PICK s \in Seq(Responses) : s = responses
  BY DEF TypesKept, VsockTypes
<1>8. PICK t : t = Parts(k, at)
  OBVIOUS
<1>9. /\ t \in Seq(Responses) /\ DOMAIN t = 1..k /\ Len(t) = k
      /\ \A l \in 1..k : t[l].id = i /\ (l < k => t[l].more)
  <2>1. \A l \in 1..k : [id |-> granting.id, size |-> Granularity, offset |-> at[l],
                         more |-> l < k] \in Responses
    BY <1>3, <1>5a DEF Responses
  <2>2. t \in [1..k -> Responses]
    BY <2>1, <1>8 DEF Parts
  <2>3. t \in Seq(Responses) /\ DOMAIN t = 1..k /\ Len(t) = k
    BY <2>2, <1>6
  <2>4. ASSUME NEW l \in 1..k PROVE t[l].id = i /\ (l < k => t[l].more)
    <3>1. PICK b : b = (l < k)
      BY Zenon
    <3>2. t[l] = [id |-> i, size |-> Granularity, offset |-> at[l], more |-> b]
      BY <3>1, <1>3, <1>8 DEF Parts
    <3>3. t[l].id = i /\ t[l].more = b
      BY <3>2
    <3> QED
      BY <3>1, <3>3
  <2> QED
    BY <2>3, <2>4
<1>10. PICK n \in Nat : n = Len(s)
  BY <1>7
<1>11. /\ DOMAIN s = 1..n /\ DOMAIN (s \o t) = 1..(n + k)
       /\ \A l \in 1..n : (s \o t)[l] = s[l]
       /\ \A l \in (n + 1)..(n + k) : (s \o t)[l] = t[l - n] /\ l - n \in 1..k
  <2>1. t \in Seq(Responses) /\ Len(t) = k /\ k \in Nat
    BY <1>6, <1>9
  <2> QED
    BY <2>1, <1>7, <1>10
<1>12. PICK u : u = s \o t
  OBVIOUS
<1>13. /\ responses' = u /\ responses = s /\ DOMAIN u = 1..(n + k)
       /\ \A l \in 1..n : u[l] = s[l]
       /\ \A l \in (n + 1)..(n + k) : u[l].id = i /\ u[l] = t[l - n]
  BY <1>5a, <1>7, <1>8, <1>9, <1>11, <1>12
<1>14. WithOrchestrator(i) /\ ~WithReader(i) /\ ~WithVsock(i) /\ ~Flying(i) /\ i < request_id
  <2>1. WithOrchestrator(i)
    BY <1>3 DEF WithOrchestrator
  <2> QED
    BY <2>1, <1>1 DEF OnePlace, InOnePlace
<1>15. \A l \in 1..n : s[l].id # i
  BY <1>11, <1>13, <1>14 DEF Flying
<1>16. \A l \in 1..(n + k) : l \in 1..n \/ l \in (n + 1)..(n + k)
  BY <1>6
<1>17. \A j \in Ids : /\ WithReader(j)' <=> WithReader(j)
                      /\ WithVsock(j)' <=> WithVsock(j)
                      /\ ~WithOrchestrator(j)'
                      /\ Flying(j)' => Flying(j) \/ j = i
  <2>1. \A j \in Ids : ~WithOrchestrator(j)'
    BY <1>1, <1>2 DEF WithOrchestrator, NoRequest
  <2>2. \A j \in Ids : Flying(j)' => Flying(j) \/ j = i
    BY <1>2, <1>11, <1>13, <1>16 DEF Flying
  <2> QED
    BY <2>1, <2>2, <1>2 DEF WithReader, WithVsock
<1>18. OnePlace'
  <2>1. \A j \in Ids : InOnePlace(j)'
    BY <1>1, <1>2, <1>14, <1>17 DEF OnePlace, InOnePlace
  <2> QED
    BY <2>1, <1>1, <1>2 DEF OnePlace
<1>19. Claims'
  BY <1>1, <1>2 DEF Claims, Fresh
<1>20. Flights'
  <2>1. ASSUME NEW j \in Ids, j # i PROVE InFlight(j)' = InFlight(j)
    <3>1. { l \in DOMAIN u : u[l].id = j } = { l \in DOMAIN s : s[l].id = j }
      <4>1. DOMAIN s \subseteq DOMAIN u
        BY <1>6, <1>11, <1>13
      <4> QED
        BY <4>1, <2>1, <1>11, <1>13, <1>16
    <3>2. Count(u, j) = Count(s, j)
      BY <3>1 DEF Count
    <3>3. Found(j)' = Found(j)
      BY <1>2 DEF Found
    <3> QED
      BY <3>2, <3>3, <1>13, InFlightIs, InFlightNext
  <2>2. InFlight(i)' = Granularity * k
    <3>1. { l \in DOMAIN u : u[l].id = i } = (n + 1)..(n + k)
      <4>1. (n + 1)..(n + k) \subseteq DOMAIN u
        BY <1>6, <1>13
      <4> QED
        BY <4>1, <1>13, <1>15, <1>16
    <3>2. Cardinality((n + 1)..(n + k)) = k
      <4>1. n + 1 \in Int /\ n + k \in Int
        BY <1>6
      <4>2. Cardinality((n + 1)..(n + k)) = IF n + 1 > n + k THEN 0 ELSE (n + k) - (n + 1) + 1
        BY <4>1, FS_Interval
      <4>3. (IF n + 1 > n + k THEN 0 ELSE (n + k) - (n + 1) + 1) = k
        BY <1>6
      <4> QED
        BY <4>2, <4>3
    <3>3. Count(u, i) = k
      BY <3>1, <3>2 DEF Count
    <3>4. Found(i)' = 0
      BY <1>2, <1>14 DEF Found, Flying
    <3>5. Count(u, i) + Found(i)' = k
      BY <3>3, <3>4, <1>6
    <3> QED
      BY <3>5, <1>13, InFlightNext
  <2>3. Fresh(i, r)
    BY <1>1, <1>2, <1>3, <1>4 DEF Claims
  <2>4. \A j \in Ids : Flying(j)' => Awaited(j)'
    <3> SUFFICES ASSUME NEW j \in Ids, Flying(j)' PROVE Awaited(j)'
      OBVIOUS
    <3>1. CASE j = i
      <4>1. 0 + InFlight(i)' <= r
        BY <2>2, <1>4, <1>6, Granules
      <4> QED
        BY <4>1, <2>3, <3>1, <1>2 DEF Awaited, Fresh
    <3>2. CASE j # i
      <4>1. Awaited(j) /\ InFlight(j)' = InFlight(j)
        BY <2>1, <3>2, <1>1, <1>17 DEF Flights
      <4> QED
        BY <4>1, <1>2 DEF Awaited
    <3> QED
      BY <3>1, <3>2
  <2>5. \A j, l \in DOMAIN u : j < l /\ u[j].id = u[l].id => u[j].more
    <3> SUFFICES ASSUME NEW j \in DOMAIN u, NEW l \in DOMAIN u, j < l, u[j].id = u[l].id
                 PROVE  u[j].more
      OBVIOUS
    <3>1. CASE l \in 1..n
      <4>1. j \in 1..n
        BY <3>1, <1>13
      <4> QED
        BY <4>1, <3>1, <1>1, <1>11, <1>13 DEF Flights
    <3>2. CASE l \in (n + 1)..(n + k)
      <4>1. j \in (n + 1)..(n + k)
        BY <3>2, <1>13, <1>15, <1>16
      <4>2. j - n \in 1..k /\ j - n < k
        BY <4>1, <3>2, <1>6
      <4> QED
        BY <4>1, <4>2, <1>9, <1>13
    <3> QED
      BY <3>1, <3>2, <1>13, <1>16
  <2>6. orch.at = "found" => orch.msg.id # i
    BY <1>14 DEF Flying
  <2>7. orch.at = "found" /\ ~orch.msg.more => \A l \in DOMAIN u : u[l].id # orch.msg.id
    BY <2>6, <1>1, <1>11, <1>13, <1>16 DEF Flights
  <2> QED
    BY <2>4, <2>5, <2>7, <1>1, <1>2, <1>13 DEF Flights
<1> QED
  BY <1>18, <1>19, <1>20 DEF RouteKept

(***************************************************************************)
(* The responses after the first one.                                      *)
(***************************************************************************)
LEMMA ResponsesLeft ==
  ASSUME TypesKept, Flights, responses # <<>>, responses' = Tail(responses)
  PROVE  /\ 1 \in DOMAIN responses /\ Head(responses) = responses[1] /\ responses[1] \in Responses
         /\ \A k \in DOMAIN responses' :
              k \in Nat /\ k + 1 \in DOMAIN responses /\ responses'[k] = responses[k + 1] /\ 1 < k + 1
         /\ \A j, k \in DOMAIN responses' :
              j < k /\ responses'[j].id = responses'[k].id => responses'[j].more
         /\ \A j \in Ids : /\ Count(responses', j) \in Nat
                           /\ Count(responses, j)
                                = Count(responses', j) + IF responses[1].id = j THEN 1 ELSE 0
<1>1. PICK s \in Seq(Responses) : s = responses
  BY DEF TypesKept, VsockTypes
<1>2. /\ 1 \in DOMAIN s /\ Head(s) = s[1] /\ s[1] \in Responses /\ Tail(s) \in Seq(Responses)
      /\ \A k \in DOMAIN Tail(s) :
           k \in Nat /\ k + 1 \in DOMAIN s /\ Tail(s)[k] = s[k + 1] /\ 1 < k + 1
  BY <1>1
<1>3. \A j, k \in DOMAIN Tail(s) : j < k => j + 1 < k + 1
  BY <1>2
<1>4. \A j, k \in DOMAIN s : j < k /\ s[j].id = s[k].id => s[j].more
  BY <1>1 DEF Flights
<1>5. \A j, k \in DOMAIN Tail(s) : j < k /\ Tail(s)[j].id = Tail(s)[k].id => Tail(s)[j].more
  <2> SUFFICES ASSUME NEW j \in DOMAIN Tail(s), NEW k \in DOMAIN Tail(s), j < k,
                      Tail(s)[j].id = Tail(s)[k].id
               PROVE  Tail(s)[j].more
    OBVIOUS
  <2>1. s[j + 1].more
    BY <1>2, <1>3, <1>4
  <2> QED
    BY <2>1, <1>2
<1>6. \A j \in Ids : /\ Count(Tail(s), j) \in Nat
                     /\ Count(s, j) = Count(Tail(s), j) + IF s[1].id = j THEN 1 ELSE 0
  BY <1>1, <1>2, CountNat, CountTail, ZenonT(30)
<1> QED
  BY <1>1, <1>2, <1>5, <1>6

(***************************************************************************)
(* A response is dropped.                                                  *)
(***************************************************************************)
LEMMA RouteDropped ==
  ASSUME TypesKept, HandsKept, RouteKept, TakeResponse,
         UNCHANGED <<pending, client_of, requests, granting, orch, request_id, reader>>
  PROVE  RouteKept'
<1>1. /\ pending \in [Conns -> Pending] /\ client_of \in [Ids -> Conns \cup {0}]
      /\ OnePlace /\ Claims /\ Flights
  BY RouteTypes
<1>2. responses # <<>> /\ responses' = Tail(responses) /\ orch.at = "reading"
  BY DEF TakeResponse
<1>3. /\ \A k \in DOMAIN responses' : k + 1 \in DOMAIN responses /\ responses'[k] = responses[k + 1]
      /\ \A j, k \in DOMAIN responses' :
           j < k /\ responses'[j].id = responses'[k].id => responses'[j].more
      /\ \A j \in Ids : /\ Count(responses', j) \in Nat
                        /\ Count(responses, j)
                             = Count(responses', j) + IF responses[1].id = j THEN 1 ELSE 0
  BY <1>1, <1>2, ResponsesLeft
<1>4. \A j \in Ids : /\ WithReader(j)' <=> WithReader(j)
                     /\ WithVsock(j)' <=> WithVsock(j)
                     /\ WithOrchestrator(j)' <=> WithOrchestrator(j)
                     /\ Flying(j)' => Flying(j)
  BY <1>2, <1>3 DEF WithReader, WithVsock, WithOrchestrator, Flying
<1>5. OnePlace'
  <2>1. \A j \in Ids : InOnePlace(j)'
    BY <1>1, <1>4 DEF OnePlace, InOnePlace
  <2> QED
    BY <2>1, <1>1 DEF OnePlace
<1>6. Claims'
  BY <1>1 DEF Claims, Fresh
<1>7. \A j \in Ids : InFlight(j)' \in Nat /\ InFlight(j) \in Nat /\ InFlight(j)' <= InFlight(j)
  <2> SUFFICES ASSUME NEW j \in Ids
               PROVE  InFlight(j)' \in Nat /\ InFlight(j) \in Nat /\ InFlight(j)' <= InFlight(j)
    OBVIOUS
  <2>1. Found(j) = 0 /\ Found(j)' = 0
    BY <1>2 DEF Found
  <2>2. PICK a \in Nat : a = Count(responses', j)
    BY <1>3
  <2>3. PICK b \in Nat : b = Count(responses, j) /\ a <= b
    BY <2>2, <1>3
  <2>4. InFlight(j) = Granularity * b
    BY <2>1, <2>3, InFlightIs
  <2>5. InFlight(j)' = Granularity * a
    BY <2>1, <2>2, InFlightNext
  <2> QED
    BY <2>3, <2>4, <2>5, Granules
<1>8. \A j \in Ids : Flying(j)' => Awaited(j)'
  <2> SUFFICES ASSUME NEW j \in Ids, Flying(j)' PROVE Awaited(j)'
    OBVIOUS
  <2>1. Awaited(j)
    BY <1>1, <1>4 DEF Flights
  <2>2. PICK d \in Conns : d = client_of[j]
    BY <2>1 DEF Awaited
  <2>3. pending[d].received \in Nat /\ pending[d].requested \in Nat
    BY <1>1 DEF Pending
  <2>4. pending[d].received + InFlight(j)' <= pending[d].requested
    BY <2>1, <2>2, <2>3, <1>7 DEF Awaited
  <2> QED
    BY <2>1, <2>2, <2>4 DEF Awaited
<1> QED
  BY <1>2, <1>3, <1>5, <1>6, <1>8 DEF RouteKept, Flights

(***************************************************************************)
(* A response has found its client.                                        *)
(***************************************************************************)
LEMMA RouteFound ==
  ASSUME TypesKept, HandsKept, RouteKept, TakeResponse, NEW d \in Conns, NEW m \in Responses,
         m = Head(responses), pending[d].id = m.id, orch'.at = "found", orch'.msg.client = d,
         orch'.msg.id = m.id, orch'.msg.size = m.size, orch'.msg.more = m.more,
         UNCHANGED <<pending, client_of, requests, granting, request_id, reader>>
  PROVE  RouteKept'
<1>1. /\ pending \in [Conns -> Pending] /\ client_of \in [Ids -> Conns \cup {0}]
      /\ OnePlace /\ Claims /\ Flights /\ -1 \notin Ids
  BY RouteTypes
<1>2. responses # <<>> /\ responses' = Tail(responses) /\ orch.at = "reading"
  BY DEF TakeResponse
<1>3. /\ 1 \in DOMAIN responses /\ m = responses[1]
      /\ \A k \in DOMAIN responses' :
           k \in Nat /\ k + 1 \in DOMAIN responses /\ responses'[k] = responses[k + 1] /\ 1 < k + 1
      /\ \A j, k \in DOMAIN responses' :
           j < k /\ responses'[j].id = responses'[k].id => responses'[j].more
      /\ \A j \in Ids : /\ Count(responses', j) \in Nat
                        /\ Count(responses, j)
                             = Count(responses', j) + IF responses[1].id = j THEN 1 ELSE 0
  BY <1>1, <1>2, ResponsesLeft
<1>4. PICK i \in Ids : i = m.id
  BY DEF Responses
<1>5. \A j \in Ids : /\ WithReader(j)' <=> WithReader(j)
                     /\ WithVsock(j)' <=> WithVsock(j)
                     /\ WithOrchestrator(j)' <=> WithOrchestrator(j)
                     /\ Flying(j)' => Flying(j)
  BY <1>2, <1>3 DEF WithReader, WithVsock, WithOrchestrator, Flying
<1>6. OnePlace'
  <2>1. \A j \in Ids : InOnePlace(j)'
    BY <1>1, <1>5 DEF OnePlace, InOnePlace
  <2> QED
    BY <2>1, <1>1 DEF OnePlace
<1>7. Claims'
  BY <1>1 DEF Claims, Fresh
<1>8. \A j \in Ids : InFlight(j)' = InFlight(j)
  <2> SUFFICES ASSUME NEW j \in Ids PROVE InFlight(j)' = InFlight(j)
    OBVIOUS
  <2>1. Found(j) = 0 /\ Found(j)' = IF responses[1].id = j THEN 1 ELSE 0
    BY <1>2, <1>3 DEF Found
  <2>2. Count(responses, j) + Found(j) = Count(responses', j) + Found(j)'
    BY <2>1, <1>3
  <2> QED
    BY <2>2, InFlightIs, InFlightNext
<1>9. \A j \in Ids : Flying(j)' => Awaited(j)'
  BY <1>1, <1>5, <1>8 DEF Flights, Awaited
<1>10. client_of[i] = d /\ m.size = Granularity
  BY <1>1, <1>4 DEF Claims, Responses
<1>11. ~m.more => \A k \in DOMAIN responses' : responses'[k].id # m.id
  BY <1>1, <1>3 DEF Flights
<1> QED
  BY <1>3, <1>4, <1>6, <1>7, <1>9, <1>10, <1>11 DEF RouteKept, Flights

(***************************************************************************)
(* A response is delivered: there is room for it, and if it is the last    *)
(* one, no other is in flight.                                             *)
(***************************************************************************)
LEMMA RouteDelivered ==
  ASSUME TypesKept, HandsKept, RouteKept, Deliver, granting' = granting PROVE RouteKept'
<1>1. /\ pending \in [Conns -> Pending] /\ client_of \in [Ids -> Conns \cup {0}]
      /\ OnePlace /\ Claims /\ Flights /\ -1 \notin Ids
      /\ \A k \in DOMAIN requests : requests[k].id \in Ids
      /\ granting # NoRequest => granting.id \in Ids
  BY RouteTypes
<1>2. orch.at = "found" /\ UNCHANGED <<client_of, requests, responses, granting, request_id, reader>>
  BY DEF Deliver, vsockVars, historyVars
<1>3. PICK i \in Ids, d \in Conns : i = orch.msg.id /\ d = orch.msg.client
  BY <1>2 DEF HandsKept
<1>4. /\ Flying(i) /\ ~WithReader(i) /\ ~WithVsock(i) /\ ~WithOrchestrator(i)
      /\ client_of[i] = d /\ orch.msg.size = Granularity /\ Awaited(i)
      /\ orch.msg.more \/ \A k \in DOMAIN responses : responses[k].id # i
  <2>1. Flying(i)
    BY <1>2, <1>3 DEF Flying
  <2> QED
    BY <2>1, <1>1, <1>2, <1>3 DEF OnePlace, InOnePlace, Flights
<1>5. PICK q \in Pending : q = pending[d] /\ q.id = i /\ q.received + InFlight(i) <= q.requested
  BY <1>1, <1>4 DEF Awaited
<1>6. PICK a \in Nat : a = Count(responses, i)
  <2>1. PICK s \in Seq(Responses) : s = responses
    BY DEF TypesKept, VsockTypes
  <2> QED
    BY <2>1, CountNat
<1>7. InFlight(i) = Granularity * a + Granularity /\ Granularity * a \in Nat /\ Granularity \in Nat
  <2>1. Found(i) = 1
    BY <1>2, <1>3 DEF Found
  <2>2. InFlight(i) = Granularity * (a + 1)
    BY <2>1, <1>6, InFlightIs
  <2> QED
    BY <2>2, Granules, Numbers
<1>8. /\ q.received \in Nat /\ q.requested \in Nat /\ Granularity <= q.requested - q.received
      /\ (q.received + Granularity) + Granularity * a <= q.requested
  <2>1. q.received \in Nat /\ q.requested \in Nat
    BY <1>5 DEF Pending
  <2>2. \A x, y, g, n \in Nat : x + (n + g) <= y => g <= y - x /\ (x + g) + n <= y
    OBVIOUS
  <2> QED
    BY <2>1, <2>2, <1>5, <1>7
<1>9. Fits(orch.msg)
  BY <1>3, <1>4, <1>5, <1>8 DEF Fits
<1>10. orch'.at # "found"
  BY DEF Deliver, At
<1>11. \A j \in Ids : /\ WithReader(j)' <=> WithReader(j)
                      /\ WithVsock(j)' <=> WithVsock(j)
                      /\ WithOrchestrator(j)' <=> WithOrchestrator(j)
                      /\ Flying(j)' => Flying(j)
  BY <1>2, <1>10 DEF WithReader, WithVsock, WithOrchestrator, Flying
<1>12. OnePlace'
  <2>1. \A j \in Ids : InOnePlace(j)'
    BY <1>1, <1>2, <1>11 DEF OnePlace, InOnePlace
  <2> QED
    BY <2>1, <1>1, <1>2 DEF OnePlace
<1>13. PICK x \in Pending :
         /\ pending' = [pending EXCEPT ![d] = x]
         /\ \/ x.id = i /\ x.received = q.received + Granularity /\ x.requested = q.requested
            \/ x.id = -1 /\ ~orch.msg.more
  <2>1. CASE AwaitsMore(orch.msg)
    <3>1. PICK n \in Nat : n = q.received + Granularity
      BY <1>7, <1>8
    <3>2. PICK S : S = q.allocations \cup {orch.msg.offset}
      OBVIOUS
    <3>2a. pending' = [pending EXCEPT ![d] = [q EXCEPT !.received = n, !.allocations = S]]
      BY <2>1, <3>1, <3>2, <1>3, <1>4, <1>5, <1>9, ZenonT(30) DEF Deliver
    <3>3. PICK x : x = [q EXCEPT !.received = n, !.allocations = S]
      OBVIOUS
    <3>3a. S \in SUBSET Offsets
      BY <3>2, <1>5 DEF Pending, TypesKept, DaemonTypes, Messages
    <3>4. x \in Pending /\ x.id = i /\ x.received = n /\ x.requested = q.requested
      BY <3>3, <3>3a, <1>5 DEF Pending
    <3> QED
      BY <3>1, <3>2a, <3>3, <3>4
  <2>2. CASE ~AwaitsMore(orch.msg)
    <3>1. pending' = [pending EXCEPT ![d] = NoRequest] /\ ~orch.msg.more
      BY <2>2, <1>3, <1>9 DEF Deliver, Complete, AwaitsMore
    <3>2. NoRequest \in Pending /\ NoRequest.id = -1
      BY Numbers DEF NoRequest
    <3> QED
      BY <3>1, <3>2
  <2> QED
    BY <2>1, <2>2
<1>14. pending'[d] = x /\ \A e \in Conns : e # d => pending'[e] = pending[e]
  BY <1>1, <1>13
<1>15. \A j \in Ids : j # i /\ client_of[j] \in Conns /\ pending[client_of[j]].id = j => PendsSame(j)
  BY <1>2, <1>5, <1>14 DEF PendsSame
<1>16. Claims'
  <2>1. \A e \in Conns : pending'[e].id # -1 => client_of'[pending'[e].id] = e
    BY <1>1, <1>2, <1>4, <1>13, <1>14 DEF Claims
  <2>2. \A e \in Conns : reader[e].at \in Working => reader[e].msg.id \in Ids /\ reader[e].msg.id # i
    BY <1>4 DEF WithReader, Working, HandsKept, Busy
  <2>3. \A e \in Conns : reader[e].at \in {"forward", "deny"} =>
          Fresh(reader[e].msg.id, reader[e].msg.size)'
    <3> SUFFICES ASSUME NEW e \in Conns, reader[e].at \in {"forward", "deny"}
                 PROVE  Fresh(reader[e].msg.id, reader[e].msg.size)'
      OBVIOUS
    <3>1. Fresh(reader[e].msg.id, reader[e].msg.size) /\ reader[e].msg.id \in Ids
          /\ reader[e].msg.id # i
      BY <2>2, <1>1 DEF Claims, Working
    <3> QED
      BY <3>1, <1>2, <1>15 DEF Fresh, PendsSame
  <2>4. \A k \in DOMAIN requests : requests[k].id # i
    BY <1>4 DEF WithVsock
  <2>5. \A k \in DOMAIN requests' : Fresh(requests[k].id, requests[k].size)'
    BY <2>4, <1>1, <1>2, <1>15 DEF Claims, Fresh, PendsSame
  <2>6. granting' # NoRequest => Fresh(granting.id, granting.requested)'
    BY <1>1, <1>2, <1>4, <1>15 DEF Claims, Fresh, PendsSame, WithOrchestrator
  <2> QED
    BY <2>1, <2>3, <2>5, <2>6, <1>1, <1>2 DEF Claims
<1>17. \A j \in Ids : j # i => InFlight(j)' = InFlight(j)
  <2> SUFFICES ASSUME NEW j \in Ids, j # i PROVE InFlight(j)' = InFlight(j)
    OBVIOUS
  <2>1. Found(j) = 0 /\ Found(j)' = 0
    BY <1>3, <1>10 DEF Found
  <2> QED
    BY <2>1, <1>2, InFlightIs, InFlightNext
<1>18. InFlight(i)' = Granularity * a
  <2>1. Found(i)' = 0
    BY <1>10 DEF Found
  <2>2. a + Found(i)' = a
    BY <2>1
  <2> QED
    BY <2>2, <1>2, <1>6, InFlightNext
<1>19. \A j \in Ids : Flying(j)' => Awaited(j)'
  <2> SUFFICES ASSUME NEW j \in Ids, Flying(j)' PROVE Awaited(j)'
    OBVIOUS
  <2>1. CASE j # i
    <3>1. Awaited(j) /\ InFlight(j)' = InFlight(j)
      BY <2>1, <1>1, <1>11, <1>17 DEF Flights
    <3>2. PendsSame(j)
      BY <3>1, <2>1, <1>15 DEF Awaited
    <3> QED
      BY <3>1, <3>2 DEF Awaited, PendsSame
  <2>2. CASE j = i
    <3>1. \E k \in DOMAIN responses : responses[k].id = i
      BY <2>2, <1>2, <1>10 DEF Flying
    <3>2. x.id = i /\ x.received = q.received + Granularity /\ x.requested = q.requested
      BY <3>1, <1>4, <1>13
    <3>3. x.received + InFlight(i)' <= x.requested
      BY <3>2, <1>8, <1>18
    <3> QED
      BY <3>2, <3>3, <2>2, <1>2, <1>4, <1>14 DEF Awaited
  <2> QED
    BY <2>1, <2>2
<1> QED
  BY <1>1, <1>2, <1>10, <1>12, <1>16, <1>19 DEF RouteKept, Flights

(***************************************************************************)
(* There is no request at first.                                           *)
(***************************************************************************)
LEMMA InitRoute ==
  ASSUME Init PROVE RouteKept
<1>1. /\ DOMAIN requests = {} /\ DOMAIN responses = {} /\ granting = NoRequest
      /\ orch.at = "reading" /\ \A c \in Conns : reader[c].at = "none" /\ pending[c].id = -1
      /\ \A i \in Ids : client_of[i] = 0
  BY DEF Init, EphemeraldInit, At, NoRequest
<1>2. granting.id = -1 /\ -1 \notin Nat
  BY <1>1 DEF NoRequest
<1>3. \A i \in Ids : ~WithReader(i) /\ ~WithVsock(i) /\ ~WithOrchestrator(i) /\ ~Flying(i)
  BY <1>1, <1>2, Numbers DEF WithReader, WithVsock, WithOrchestrator, Flying, Working
<1>4. OnePlace
  BY <1>1, <1>3 DEF OnePlace, InOnePlace, Working
<1>5. Claims
  BY <1>1 DEF Claims
<1>6. Flights
  BY <1>1, <1>3 DEF Flights
<1> QED
  BY <1>4, <1>5, <1>6 DEF RouteKept

(***************************************************************************)
(* The readers' steps move the requests they have.                         *)
(***************************************************************************)
LEMMA ReaderRoute ==
  ASSUME GuestKept, RouteKept, NEW c \in Conns, ReaderThread(c), UNCHANGED <<app, asks, granting>>
  PROVE  RouteKept'
<1>1. /\ TypesKept /\ HandsKept /\ reader \in [Conns -> Readers] /\ pending \in [Conns -> Pending]
  BY DEF GuestKept, TypesKept, DaemonTypes
<1>2. orch' = orch /\ responses' = responses /\ \A d \in Conns : d # c => reader'[d] = reader[d]
  BY <1>1 DEF ReaderThread, ReadRequest, CheckPending, Forward, Deny, SendDenial, Close, vsockVars
<1>3. PICK m \in Messages : m = reader[c].msg
  BY <1>1 DEF Readers
<1>4. CASE ReadRequest(c)
  <2>1. /\ UNCHANGED <<pending, client_of, requests, asks>> /\ reader[c].at = "reading"
        /\ inbox[c] # <<>> /\ inbox' = [inbox EXCEPT ![c] = Tail(inbox[c])]
        /\ request_id' \in {request_id, request_id + 1}
    BY <1>4 DEF ReadRequest, Reading, vsockVars, historyVars
  <2>2. CASE reader' = reader
    BY <2>1, <2>2, <1>1, <1>2, RouteSame
  <2>3. CASE reader' # reader
    <3>1. request_id' = request_id + 1 /\ reader'[c].at = "check" /\ reader'[c].msg.id = request_id
      BY <2>3, <1>1, <1>4 DEF ReadRequest, At
    <3>2. request_id \in Ids
      BY <2>1, RequestRead
    <3>3. reader[c].at \notin Working
      BY <2>1 DEF Working
    <3> QED
      BY <3>1, <3>2, <3>3, <2>1, <1>1, <1>2, RouteRead
  <2> QED
    BY <2>2, <2>3
<1>5. CASE CheckPending(c)
  <2>1. UNCHANGED <<requests, request_id>> /\ reader[c].at = "check"
    BY <1>5 DEF CheckPending, vsockVars
  <2>2. PICK d \in Conns, i \in Ids : d = m.client /\ i = m.id
    BY <2>1, <1>1, <1>3 DEF HandsKept, Busy
  <2>3. CASE HasPending(d)
    <3>1. UNCHANGED <<pending, client_of>> /\ reader'[c].at = "reading"
      BY <2>2, <2>3, <1>1, <1>3, <1>5 DEF CheckPending, At
    <3>2. \A e \in Conns : reader'[e].at \in Working => reader'[e] = reader[e]
      BY <3>1, <1>2 DEF Working
    <3> QED
      BY <3>1, <3>2, <2>1, <1>1, <1>2, RouteSame
  <2>4. CASE ~HasPending(d)
    <3>1. /\ pending[d] = NoRequest
          /\ pending' = [pending EXCEPT ![d] =
                           [id |-> i, requested |-> m.size, received |-> 0, allocations |-> {},
                ask |-> m.ask]]
          /\ client_of' = [client_of EXCEPT ![i] = d] /\ reader' = [reader EXCEPT ![c].at = "forward"]
      BY <2>2, <2>4, <1>3, <1>5 DEF CheckPending, HasPending
    <3>2. reader[c] = At("check", m) /\ reader' = [reader EXCEPT ![c] = At("forward", m)]
      <4>1. PICK x \in Readers : x = reader[c]
        BY <1>1
      <4>2. x = At("check", m)
        BY <4>1, <2>1, <1>3 DEF At, Readers
      <4>3. [x EXCEPT !.at = "forward"] = At("forward", m)
        BY <4>2 DEF At
      <4> QED
        BY <4>1, <4>2, <4>3, <3>1
    <3> QED
      BY <3>1, <3>2, <2>1, <2>2, <1>1, <1>2, RouteChecked
  <2> QED
    BY <2>3, <2>4
<1>6. CASE Forward(c)
  <2>1. UNCHANGED <<pending, client_of, request_id>> /\ reader[c].at = "forward"
    BY <1>6 DEF Forward, historyVars
  <2>2. PICK i \in Ids : i = m.id
    BY <2>1, <1>1, <1>3 DEF HandsKept, Busy
  <2>3. CASE /\ requests' = Append(requests, [id |-> i, size |-> m.size])
             /\ reader' = [reader EXCEPT ![c] = At("reading", NoMessage)]
    <3>1. reader[c] = At("forward", m)
      BY <2>1, <1>1, <1>3 DEF At, Readers
    <3> QED
      BY <3>1, <2>1, <2>2, <2>3, <1>1, <1>2, RouteForwarded
  <2>4. CASE reader' = [reader EXCEPT ![c].at = "deny"] /\ requests' = requests
    BY <2>1, <2>4, <1>1, <1>2, RouteDown
  <2> QED
    BY <2>2, <2>3, <2>4, <1>3, <1>6 DEF Forward
<1>7. CASE Deny(c)
  <2>1. UNCHANGED <<client_of, requests, request_id>> /\ reader[c].at = "deny"
    BY <1>7 DEF Deny, vsockVars, historyVars
  <2>2. PICK d \in Conns, i \in Ids : d = m.client /\ i = m.id
    BY <2>1, <1>1, <1>3 DEF HandsKept, Busy
  <2>3. CASE pending[d].id # i
    <3>1. pending' = pending /\ reader'[c].at = "reading"
      BY <2>2, <2>3, <1>1, <1>3, <1>7 DEF Deny, At
    <3>2. \A e \in Conns : reader'[e].at \in Working => reader'[e] = reader[e]
      BY <3>1, <1>2 DEF Working
    <3> QED
      BY <3>1, <3>2, <2>1, <1>1, <1>2, RouteSame
  <2>4. CASE pending[d].id = i
    <3>1. pending' = [pending EXCEPT ![d] = NoRequest] /\ reader'[c].at = "send"
      BY <2>2, <2>4, <1>1, <1>3, <1>7 DEF Deny, Complete, At
    <3> QED
      BY <3>1, <2>1, <2>2, <2>4, <1>1, <1>2, <1>3, RouteDenied
  <2> QED
    BY <2>3, <2>4
<1>8. CASE SendDenial(c) \/ Close(c)
  <2>1. UNCHANGED <<pending, client_of, requests, request_id>>
    BY <1>8 DEF SendDenial, Close, vsockVars, historyVars
  <2>2. reader'[c].at \in {"reading", "done"}
    BY <1>1, <1>8 DEF SendDenial, Close, At, Readers
  <2>3. \A e \in Conns : reader'[e].at \in Working => reader'[e] = reader[e]
    BY <2>2, <1>2 DEF Working
  <2> QED
    BY <2>1, <2>3, <1>1, <1>2, RouteSame
<1> QED
  BY <1>4, <1>5, <1>6, <1>7, <1>8 DEF ReaderThread

(***************************************************************************)
(* Every step keeps the way of each request.                               *)
(***************************************************************************)
LEMMA NextRoute ==
  ASSUME GuestKept, RouteKept, [Next]_vars PROVE RouteKept'
<1>1. TypesKept /\ HandsKept /\ reader \in [Conns -> Readers]
  BY DEF GuestKept, TypesKept, DaemonTypes
<1>2. ASSUME UNCHANGED <<reader, orch, pending, client_of, requests, responses, granting, request_id>>
      PROVE  RouteKept'
  BY <1>1, <1>2, RouteSame
<1>3. CASE Daemon /\ Listener
  <2>1. PICK c \in Conns : c = Head(backlog)
    BY <1>3, Oldest DEF GuestKept, TypesKept, Listener, Register, Refuse, Accept
  <2>2. UNCHANGED <<orch, pending, client_of, requests, responses, granting, request_id>>
    BY <1>3 DEF Daemon, Listener, Register, Refuse, vsockVars, historyVars
  <2>3. reader'[c].at \notin Working /\ \A d \in Conns : d # c => reader'[d] = reader[d]
    BY <2>1, <1>1, <1>3 DEF Listener, Register, Refuse, Readers, Working
  <2> QED
    BY <2>2, <2>3, <1>1, RouteSame
<1>4. CASE Daemon /\ OrchestratorThread
  <2>1. UNCHANGED <<client_of, requests, granting, request_id, reader>>
    BY <1>4 DEF Daemon, OrchestratorThread, DaxFails, FindClient, Deliver, SendGrant,
       LoseOrchestrator, daemonVars, vsockVars, historyVars
  <2>2. CASE DaxFails
    BY <2>1, <2>2, <1>1, RouteDropped DEF DaxFails, daemonVars
  <2>3. CASE FindClient
    <3>1. TakeResponse /\ pending' = pending
      BY <2>3 DEF FindClient
    <3>2. CASE orch' = orch
      BY <3>1, <3>2, <2>1, <1>1, RouteDropped
    <3>3. PICK m \in Responses : m = Head(responses)
      BY <3>1, <1>1, ResponseTaken DEF TakeResponse, TypesKept, VsockTypes
    <3>4. ASSUME NEW d \in Conns, Waiting(d, m.id),
                 orch' = At("found", [client |-> d, id |-> m.id, size |-> m.size,
                                      offset |-> m.offset, more |-> m.more, ask |-> 0])
          PROVE  RouteKept'
      <4>1. /\ orch'.at = "found" /\ orch'.msg.client = d /\ orch'.msg.id = m.id
            /\ orch'.msg.size = m.size /\ orch'.msg.more = m.more
        BY <3>4 DEF At
      <4>2. pending[d].id = m.id
        BY <3>4 DEF Waiting
      <4> QED
        BY <4>1, <4>2, <3>1, <3>3, <2>1, <1>1, RouteFound
    <3> QED
      BY <2>3, <3>2, <3>3, <3>4 DEF FindClient
  <2>4. CASE Deliver
    BY <2>1, <2>4, <1>1, RouteDelivered
  <2>5. CASE SendGrant
    <3>1. orch.at = "send" /\ orch'.at = "reading" /\ UNCHANGED <<pending, responses>>
      BY <2>5 DEF SendGrant, At, vsockVars
    <3> QED
      BY <3>1, <2>1, <1>1, RouteSame
  <2>6. CASE LoseOrchestrator
    BY <2>1, <2>6, <1>2 DEF LoseOrchestrator, vsockVars
  <2> QED
    BY <1>4, <2>2, <2>3, <2>4, <2>5, <2>6 DEF OrchestratorThread
<1>5. CASE Daemon /\ \E c \in Conns : ReaderThread(c)
  BY <1>5, ReaderRoute DEF Daemon
<1>6. CASE Orchestrator
  BY <1>1, <1>6, RouteTaken, RouteAnswered DEF Orchestrator
<1>7. CASE LinkFails \/ UNCHANGED vars
  BY <1>2, <1>7 DEF LinkFails, vars, daemonVars, vsockVars, historyVars
<1>8. CASE \E p \in Pids : Process(p)
  BY <1>2, <1>8 DEF Process, Connect, ProcessEnds, Write, Receive, TimeOut, Drain, daemonVars,
     vsockVars, historyVars
<1> QED
  BY <1>3, <1>4, <1>5, <1>6, <1>7, <1>8 DEF Next, Daemon

(***************************************************************************)
(* A response finds its request pending with room for all that are in      *)
(* flight: send_eph_mem_response never drops one as unexpected for a       *)
(* client that is registered.                                              *)
(***************************************************************************)
THEOREM ResponseFindsRequestAlways == Spec => []ResponseFindsRequest
<1>1. Init => RouteKept
  BY InitRoute
<1>2. GuestKept /\ RouteKept /\ [Next]_vars => RouteKept'
  BY NextRoute
<1>3. GuestKept /\ RouteKept => ResponseFindsRequest
  <2> SUFFICES ASSUME GuestKept, RouteKept, NEW i \in Ids, InFlight(i) > 0 PROVE Awaited(i)
    BY DEF ResponseFindsRequest, Awaited
  <2>1. PICK s \in Seq(Responses) : s = responses
    BY DEF GuestKept, TypesKept, VsockTypes
  <2>2. Flying(i)
    <3> SUFFICES ASSUME ~Flying(i) PROVE FALSE
      OBVIOUS
    <3>1. Count(s, i) = 0 /\ Found(i) = 0
      BY <2>1, CountNat DEF Flying, Found
    <3>2. Count(s, i) + Found(i) = 0
      BY <3>1
    <3>3. InFlight(i) = Granularity * 0
      BY <3>2, <2>1, InFlightIs
    <3> QED
      BY <3>3, Numbers
  <2> QED
    BY <2>2 DEF RouteKept, Flights
<1> QED
  BY <1>1, <1>2, <1>3, GuestKeptAlways, PTL DEF Spec

-----------------------------------------------------------------------------
(* Where recorded memory comes from: every response, and every offset kept *)
(* with a pending request, was granted to that request, and no offset of a *)
(* request comes twice.                                                    *)

(* The parts of c's request that were delivered, and those on their way. *)
Counted(c) ==
  /\ \A o \in pending[c].allocations : <<pending[c].id, o>> \in granted
  /\ \A k \in DOMAIN responses :
       responses[k].id = pending[c].id => responses[k].offset \notin pending[c].allocations
  /\ orch.at = "found" /\ orch.msg.id = pending[c].id =>
       orch.msg.offset \notin pending[c].allocations
  /\ pending[c].received = Granularity * Cardinality(pending[c].allocations)

OriginKept ==
  /\ \A g \in granted : client_of[g[1]] \in Conns
  /\ \A k \in DOMAIN responses : <<responses[k].id, responses[k].offset>> \in granted
  /\ \A j, k \in DOMAIN responses :
       responses[j].id = responses[k].id /\ responses[j].offset = responses[k].offset => j = k
  /\ orch.at = "found" =>
       /\ <<orch.msg.id, orch.msg.offset>> \in granted
       /\ \A k \in DOMAIN responses :
            responses[k].id = orch.msg.id => responses[k].offset # orch.msg.offset
  /\ \A c \in Conns : pending[c].id # -1 => Counted(c)

(***************************************************************************)
(* A step that delivers nothing: a pending request stays as it is, or is   *)
(* gone, or is a new one.                                                  *)
(***************************************************************************)
LEMMA OriginSame ==
  ASSUME OriginKept, UNCHANGED <<responses, granted>>,
         \A i \in Ids : client_of[i] \in Conns => client_of'[i] \in Conns,
         granted \subseteq Ids \X Offsets,
         orch' = orch \/ orch'.at # "found",
         \A c \in Conns : \/ pending'[c] = pending[c] \/ pending'[c].id = -1
                          \/ pending'[c].allocations = {} /\ pending'[c].received = 0
  PROVE  OriginKept'
<1>1. \A g \in granted : client_of'[g[1]] \in Conns
  BY DEF OriginKept
<1>2. Granularity * Cardinality({}) = 0
  BY FS_EmptySet, Numbers
<1>3. ASSUME NEW c \in Conns, pending'[c].id # -1 PROVE Counted(c)'
  <2>1. CASE pending'[c] = pending[c]
    <3>1. Counted(c)
      BY <2>1, <1>3 DEF OriginKept
    <3> QED
      BY <3>1, <2>1 DEF Counted
  <2>2. CASE pending'[c].allocations = {} /\ pending'[c].received = 0
    BY <2>2, <1>2 DEF Counted
  <2> QED
    BY <2>1, <2>2, <1>3
<1> QED
  BY <1>1, <1>3 DEF OriginKept

(***************************************************************************)
(* The responses of an answer are new, and the request has none yet.       *)
(***************************************************************************)
LEMMA OriginAnswered ==
  ASSUME TypesKept, RouteKept, OriginKept, OrchestratorAnswers PROVE OriginKept'
<1>1. /\ pending \in [Conns -> Pending] /\ granted \subseteq Ids \X Offsets
      /\ OnePlace /\ Claims /\ -1 \notin Ids
      /\ granting # NoRequest => granting.id \in Ids
  BY RouteTypes DEF TypesKept, DaemonTypes
<1>2. granting # NoRequest /\ UNCHANGED <<pending, client_of, orch>>
  BY DEF OrchestratorAnswers, daemonVars
<1>3. PICK i \in Ids : i = granting.id
  BY <1>1, <1>2
<1>4. PICK r \in Nat : r = granting.requested
  BY DEF TypesKept, VsockTypes, Pending
<1>5. PICK k \in 0..(r \div Granularity) : \E at \in [1..k -> Offsets] :
        /\ \A l, j \in 1..k : l < j => at[l] < at[j]
        /\ responses' = responses \o Parts(k, at)
        /\ granted' = granted \cup { <<i, at[l]>> : l \in 1..k }
  BY <1>3, <1>4, SMTT(30) DEF OrchestratorAnswers
<1>6. PICK at \in [1..k -> Offsets] :
        /\ \A l, j \in 1..k : l < j => at[l] < at[j]
        /\ responses' = responses \o Parts(k, at)
        /\ granted' = granted \cup { <<i, at[l]>> : l \in 1..k }
  BY <1>5
<1>7. k \in Nat
  <2>1. r \div Granularity \in Nat
    BY <1>4, Numbers
  <2> QED
    BY <2>1, <1>5
<1>8. \A l, j \in 1..k : at[l] = at[j] => l = j
  <2> SUFFICES ASSUME NEW l \in 1..k, NEW j \in 1..k, at[l] = at[j] PROVE l = j
    OBVIOUS
  <2>1. l \in Nat /\ j \in Nat /\ at[l] \in Nat /\ at[j] \in Nat
    <3>1. at[l] \in Offsets /\ at[j] \in Offsets
      BY <1>6
    <3>2. Offsets \subseteq Nat
      BY EphemeraldAssumption
    <3>3. \A o \in Offsets : o \in Nat
      BY <3>2
    <3>4. l \in Nat /\ j \in Nat
      BY <1>7
    <3> QED
      BY <3>1, <3>3, <3>4
  <2>2. ~(l < j) /\ ~(j < l)
    BY <2>1, <1>6
  <2> QED
    BY <2>1, <2>2
<1>9. PICK s \in Seq(Responses), n \in Nat : s = responses /\ n = Len(s)
  BY DEF TypesKept, VsockTypes
<1>10. PICK t : t = Parts(k, at)
  OBVIOUS
<1>11. t \in Seq(Responses) /\ Len(t) = k /\ \A l \in 1..k : t[l].id = i /\ t[l].offset = at[l]
  <2>1. \A l \in 1..k : [id |-> i, size |-> Granularity, offset |-> at[l], more |-> l < k] \in Responses
    BY <1>6 DEF Responses
  <2>2. t \in [1..k -> Responses]
    BY <2>1, <1>3, <1>10 DEF Parts
  <2>3. ASSUME NEW l \in 1..k PROVE t[l].id = i /\ t[l].offset = at[l]
    <3>1. PICK b : b = (l < k)
      BY Zenon
    <3>2. t[l] = [id |-> i, size |-> Granularity, offset |-> at[l], more |-> b]
      BY <3>1, <1>3, <1>10 DEF Parts
    <3> QED
      BY <3>2
  <2> QED
    BY <2>2, <2>3, <1>7
<1>12. PICK u : u = responses'
  OBVIOUS
<1>13. /\ DOMAIN s = 1..n /\ DOMAIN u = 1..(n + k)
       /\ \A l \in 1..n : u[l] = s[l]
       /\ \A l \in (n + 1)..(n + k) : u[l] = t[l - n] /\ l - n \in 1..k
       /\ \A l \in 1..(n + k) : l \in 1..n \/ l \in (n + 1)..(n + k)
  BY <1>6, <1>7, <1>9, <1>10, <1>11, <1>12
<1>14. \A l \in (n + 1)..(n + k) : u[l].id = i /\ u[l].offset = at[l - n] /\ l - n \in 1..k
  BY <1>11, <1>13
<1>15. (\A l \in 1..n : s[l].id # i) /\ (orch.at = "found" => orch.msg.id # i)
  <2>1. WithOrchestrator(i)
    BY <1>3 DEF WithOrchestrator
  <2>2. ~Flying(i)
    BY <2>1, <1>1 DEF OnePlace, InOnePlace
  <2> QED
    BY <2>2, <1>9, <1>13 DEF Flying
<1>16. Fresh(i, r)
  BY <1>1, <1>2, <1>3, <1>4 DEF Claims
<1>17. \A g \in granted' : client_of'[g[1]] \in Conns
  BY <1>2, <1>6, <1>16 DEF Fresh, OriginKept
<1>18. \A l \in DOMAIN u : <<u[l].id, u[l].offset>> \in granted'
  <2>1. ASSUME NEW l \in 1..n PROVE <<u[l].id, u[l].offset>> \in granted'
    BY <2>1, <1>6, <1>9, <1>13 DEF OriginKept
  <2>2. ASSUME NEW l \in (n + 1)..(n + k) PROVE <<u[l].id, u[l].offset>> \in granted'
    BY <2>2, <1>6, <1>14
  <2> QED
    BY <2>1, <2>2, <1>13
<1>19. \A j, l \in DOMAIN u : u[j].id = u[l].id /\ u[j].offset = u[l].offset => j = l
  <2> SUFFICES ASSUME NEW j \in DOMAIN u, NEW l \in DOMAIN u, u[j].id = u[l].id,
                      u[j].offset = u[l].offset
               PROVE  j = l
    OBVIOUS
  <2>1. CASE j \in 1..n
    <3>1. l \in 1..n
      BY <2>1, <1>13, <1>14, <1>15
    <3> QED
      BY <2>1, <3>1, <1>9, <1>13 DEF OriginKept
  <2>2. CASE j \in (n + 1)..(n + k)
    <3>1. l \in (n + 1)..(n + k)
      BY <2>2, <1>13, <1>14, <1>15
    <3>2. j - n = l - n
      BY <2>2, <3>1, <1>8, <1>14
    <3> QED
      BY <2>2, <3>1, <3>2, <1>7
  <2> QED
    BY <2>1, <2>2, <1>13
<1>20. orch.at = "found" =>
         /\ <<orch.msg.id, orch.msg.offset>> \in granted'
         /\ \A l \in DOMAIN u : u[l].id = orch.msg.id => u[l].offset # orch.msg.offset
  BY <1>6, <1>9, <1>13, <1>14, <1>15, SMTT(30) DEF OriginKept
<1>21. ASSUME NEW c \in Conns, pending[c].id # -1 PROVE Counted(c)'
  <2>1. Counted(c)
    BY <1>21 DEF OriginKept
  <2>2. pending[c].id = i => pending[c].allocations = {}
    <3> SUFFICES ASSUME pending[c].id = i PROVE pending[c].allocations = {}
      OBVIOUS
    <3>1. pending[c].received = 0
      BY <1>1, <1>16, <1>21 DEF Claims, Fresh
    <3>2. PICK S \in SUBSET Offsets : S = pending[c].allocations
      BY <1>1 DEF Pending
    <3>3. IsFiniteSet(S) /\ Cardinality(S) \in Nat
      BY EphemeraldAssumption, FS_Subset, FS_CardinalityType
    <3>4. Granularity * Cardinality(S) = 0
      BY <2>1, <3>1, <3>2 DEF Counted
    <3>5. \A a \in Nat : Granularity * a = 0 => a = 0
      BY Numbers
    <3> QED
      BY <3>2, <3>3, <3>4, <3>5, FS_EmptySet
  <2>3. \A l \in DOMAIN u : u[l].id = pending[c].id => u[l].offset \notin pending[c].allocations
    BY <2>1, <2>2, <1>9, <1>13, <1>14 DEF Counted
  <2> QED
    BY <2>1, <2>3, <1>2, <1>6, <1>12 DEF Counted
<1> QED
  BY <1>2, <1>12, <1>17, <1>18, <1>19, <1>20, <1>21 DEF OriginKept

(***************************************************************************)
(* A response is taken from the vsock: dropped, or found a client.         *)
(***************************************************************************)
LEMMA OriginTaken ==
  ASSUME TypesKept, OriginKept, TakeResponse, UNCHANGED <<pending, client_of, granted>>,
         \/ orch' = orch
         \/ orch'.msg.id = Head(responses).id /\ orch'.msg.offset = Head(responses).offset
  PROVE  OriginKept'
<1>1. PICK s \in Seq(Responses) : s = responses /\ s # <<>>
  BY DEF TypesKept, VsockTypes, TakeResponse
<1>2. PICK u : u = Tail(s)
  OBVIOUS
<1>3. /\ responses' = u /\ 1 \in DOMAIN s /\ Head(s) = s[1]
      /\ \A k \in DOMAIN u : k \in Nat /\ k + 1 \in DOMAIN s /\ u[k] = s[k + 1] /\ k + 1 # 1
  BY <1>1, <1>2 DEF TakeResponse
<1>4. orch.at # "found"
  BY DEF TakeResponse
<1>5. \A k \in DOMAIN u : <<u[k].id, u[k].offset>> \in granted
  BY <1>1, <1>3 DEF OriginKept
<1>6. \A j, k \in DOMAIN u : u[j].id = u[k].id /\ u[j].offset = u[k].offset => j = k
  <2> SUFFICES ASSUME NEW j \in DOMAIN u, NEW k \in DOMAIN u, u[j].id = u[k].id,
                      u[j].offset = u[k].offset
               PROVE  j = k
    OBVIOUS
  <2>1. j + 1 = k + 1
    BY <1>1, <1>3 DEF OriginKept
  <2> QED
    BY <2>1, <1>3
<1>7. orch'.at = "found" =>
        /\ <<orch'.msg.id, orch'.msg.offset>> \in granted
        /\ \A k \in DOMAIN u : u[k].id = orch'.msg.id => u[k].offset # orch'.msg.offset
  BY <1>1, <1>3, <1>4 DEF OriginKept
<1>8. ASSUME NEW c \in Conns, pending[c].id # -1 PROVE Counted(c)'
  <2>1. Counted(c)
    BY <1>8 DEF OriginKept
  <2>2. \A k \in DOMAIN s : s[k].id = pending[c].id => s[k].offset \notin pending[c].allocations
    BY <2>1, <1>1 DEF Counted
  <2>3. orch'.at = "found" /\ orch'.msg.id = pending[c].id =>
          orch'.msg.offset \notin pending[c].allocations
    BY <2>2, <1>1, <1>3, <1>4
  <2> QED
    BY <2>1, <2>2, <2>3, <1>3 DEF Counted
<1> QED
  BY <1>3, <1>5, <1>6, <1>7, <1>8 DEF OriginKept

(***************************************************************************)
(* A response is delivered: its offset is new to the request.              *)
(***************************************************************************)
LEMMA OriginDelivered ==
  ASSUME TypesKept, HandsKept, RouteKept, OriginKept, Deliver PROVE OriginKept'
<1>1. /\ pending \in [Conns -> Pending] /\ granted \subseteq Ids \X Offsets /\ orch.msg \in Messages
      /\ Flights
  BY DEF TypesKept, DaemonTypes, RouteKept
<1>2. orch.at = "found" /\ orch'.at # "found" /\ UNCHANGED <<responses, granted, client_of>>
  BY DEF Deliver, At, vsockVars, historyVars
<1>3. PICK m \in Messages, d \in Conns : m = orch.msg /\ d = orch.msg.client
  BY <1>1, <1>2 DEF HandsKept
<1>4. PICK q \in Pending : q = pending[d]
  BY <1>1
<1>5. CASE \A c \in Conns : pending'[c] = pending[c] \/ pending'[c].id = -1
  BY <1>1, <1>2, <1>5, OriginSame
<1>6. CASE Fits(m) /\ AwaitsMore(m)
  <2>1. q.id = m.id /\ q.id # -1 /\ m.size = Granularity /\ m.offset \in Offsets
    BY <1>1, <1>2, <1>3, <1>4, <1>6, Numbers DEF Fits, Flights, HandsKept, Messages
  <2>2. PICK S \in SUBSET Offsets : S = q.allocations /\ q.received = Granularity * Cardinality(S)
    BY <2>1, <1>4 DEF Pending, OriginKept, Counted
  <2>3. PICK T : T = S \cup {m.offset}
    OBVIOUS
  <2>4. PICK x : x = [q EXCEPT !.received = q.received + Granularity, !.allocations = T]
    OBVIOUS
  <2>5. pending' = [pending EXCEPT ![d] = x]
    BY <2>1, <2>2, <2>3, <2>4, <1>3, <1>4, <1>6, ZenonT(30) DEF Deliver
  <2>6. x.id = q.id /\ x.allocations = T /\ x.received = q.received + Granularity
    BY <2>4 DEF Pending
  <2>7. pending'[d] = x /\ \A c \in Conns : c # d => pending'[c] = pending[c]
    BY <2>5, <1>1
  <2>8. /\ m.offset \notin S /\ <<q.id, m.offset>> \in granted
        /\ \A o \in S : <<q.id, o>> \in granted
        /\ \A k \in DOMAIN responses : responses[k].id = q.id =>
             responses[k].offset \notin S /\ responses[k].offset # m.offset
    BY <2>1, <2>2, <1>2, <1>3, <1>4 DEF OriginKept, Counted
  <2>9. x.received = Granularity * Cardinality(T)
    <3>1. IsFiniteSet(S) /\ Cardinality(S) \in Nat
      BY EphemeraldAssumption, FS_Subset, FS_CardinalityType
    <3>2. Cardinality(T) = Cardinality(S) + 1
      BY <3>1, <2>3, <2>8, FS_AddElement
    <3> QED
      BY <3>1, <3>2, <2>2, <2>6, Granules
  <2>10. Counted(d)'
    BY <2>3, <2>6, <2>7, <2>8, <2>9, <1>2 DEF Counted
  <2>11. ASSUME NEW c \in Conns, c # d, pending[c].id # -1 PROVE Counted(c)'
    <3>1. Counted(c) /\ pending'[c] = pending[c]
      BY <2>7, <2>11 DEF OriginKept
    <3> QED
      BY <3>1, <1>2 DEF Counted
  <2> QED
    BY <2>7, <2>10, <2>11, <1>2 DEF OriginKept
<1>7. CASE ~(Fits(m) /\ AwaitsMore(m))
  <2>1. pending' = pending \/ pending' = [pending EXCEPT ![d] = NoRequest]
    BY <1>3, <1>7 DEF Deliver, Complete
  <2> QED
    BY <2>1, <1>1, <1>5 DEF NoRequest
<1> QED
  BY <1>6, <1>7

(***************************************************************************)
(* Every step keeps the origin of what is on its way.                      *)
(***************************************************************************)
LEMMA NextOrigin ==
  ASSUME GuestKept, RouteKept, OriginKept, [Next]_vars PROVE OriginKept'
<1>1. /\ TypesKept /\ HandsKept /\ pending \in [Conns -> Pending]
      /\ client_of \in [Ids -> Conns \cup {0}] /\ granted \subseteq Ids \X Offsets
  BY DEF GuestKept, TypesKept, DaemonTypes
<1>2. ASSUME UNCHANGED <<responses, granted, client_of, pending>>, orch' = orch \/ orch'.at # "found"
      PROVE  OriginKept'
  BY <1>1, <1>2, OriginSame
<1>3. CASE Daemon /\ Listener
  BY <1>2, <1>3 DEF Daemon, Listener, Register, Refuse, vsockVars, historyVars
<1>4. CASE Daemon /\ OrchestratorThread
  <2>1. CASE DaxFails
    BY <2>1, <1>1, OriginTaken DEF DaxFails, daemonVars
  <2>2. CASE FindClient
    <3>1. TakeResponse /\ UNCHANGED <<pending, client_of, granted>>
      BY <2>2 DEF FindClient, historyVars
    <3>2. orch' = orch \/ (orch'.msg.id = Head(responses).id /\ orch'.msg.offset = Head(responses).offset)
      BY <2>2 DEF FindClient, At
    <3> QED
      BY <3>1, <3>2, <1>1, OriginTaken
  <2>3. CASE Deliver
    BY <2>3, <1>1, OriginDelivered
  <2>4. CASE SendGrant \/ LoseOrchestrator
    BY <2>4, <1>2 DEF SendGrant, LoseOrchestrator, At, vsockVars, historyVars
  <2> QED
    BY <1>4, <2>1, <2>2, <2>3, <2>4 DEF OrchestratorThread
<1>5. ASSUME NEW c \in Conns, ReaderThread(c) PROVE OriginKept'
  <2>1. UNCHANGED <<responses, granted, orch>>
    BY <1>5 DEF ReaderThread, ReadRequest, CheckPending, Forward, Deny, SendDenial, Close, vsockVars,
       historyVars
  <2>2. CASE ~CheckPending(c) /\ ~Deny(c)
    BY <2>1, <2>2, <1>2, <1>5 DEF ReaderThread, ReadRequest, Forward, SendDenial, Close, historyVars
  <2>3. CASE CheckPending(c) \/ Deny(c)
    <3>1. PICK m \in Messages : m = reader[c].msg
      BY <1>1 DEF TypesKept, DaemonTypes, Readers
    <3>2. m.client \in Conns /\ m.id \in Ids
      BY <2>3, <3>1, <1>1 DEF CheckPending, Deny, HandsKept, Busy
    <3>3. \/ pending' = pending
          \/ pending' = [pending EXCEPT ![m.client] = NoRequest]
          \/ pending' = [pending EXCEPT ![m.client] =
               [id |-> m.id, requested |-> m.size, received |-> 0, allocations |-> {}, ask |-> m.ask]]
      BY <2>3, <3>1 DEF CheckPending, Deny, Complete
    <3>4. \A d \in Conns : \/ pending'[d] = pending[d] \/ pending'[d].id = -1
                           \/ pending'[d].allocations = {} /\ pending'[d].received = 0
      BY <3>2, <3>3, <1>1 DEF NoRequest
    <3>5. client_of' = client_of \/ client_of' = [client_of EXCEPT ![m.id] = m.client]
      BY <2>3, <3>1 DEF CheckPending, Deny, historyVars
    <3>6. \A i \in Ids : client_of[i] \in Conns => client_of'[i] \in Conns
      BY <3>2, <3>5, <1>1
    <3> QED
      BY <2>1, <3>4, <3>6, <1>1, OriginSame
  <2> QED
    BY <2>2, <2>3
<1>6. CASE Orchestrator
  BY <1>1, <1>2, <1>6, OriginAnswered DEF Orchestrator, OrchestratorTakes, daemonVars, historyVars
<1>7. CASE LinkFails \/ UNCHANGED vars
  BY <1>2, <1>7 DEF LinkFails, vars, daemonVars, vsockVars, historyVars
<1>8. CASE \E p \in Pids : Process(p)
  BY <1>2, <1>8 DEF Process, Connect, ProcessEnds, Write, Receive, TimeOut, Drain, daemonVars,
     vsockVars, historyVars
<1> QED
  BY <1>3, <1>4, <1>5, <1>6, <1>7, <1>8 DEF Next, Daemon

(***************************************************************************)
(* At first nothing was granted.                                           *)
(***************************************************************************)
LEMMA InitOrigin ==
  ASSUME Init PROVE OriginKept
<1>1. /\ granted = {} /\ DOMAIN responses = {} /\ orch.at = "reading"
      /\ \A c \in Conns : pending[c].id = -1
  BY DEF Init, EphemeraldInit, At, NoRequest
<1> QED
  BY <1>1 DEF OriginKept

-----------------------------------------------------------------------------
(* Memory on its way to a process: answers in its socket, and those that a *)
(* thread of the daemon is about to write.                                 *)

Threads == Conns \cup {0}

(* 0 stands for the reader of the orchestrator's connection. *)
Thread(r) == IF r = 0 THEN orch ELSE reader[r]

Owed(t, c) == IF t.at = "send" /\ t.msg.client = c THEN t.msg.size ELSE 0

OnWay(c) == [r \in Threads |-> Owed(Thread(r), c)]

Total(f) == Cardinality(Units(f))

Backing(c) == SumSizes(outbox[c]) + Total(OnWay(c))

Recorded(c) == Granularity * Cardinality(Backed(c))

(* All of it is recorded, and so is what the process has got already. *)
BackedKept ==
  /\ \A c \in Conns : Backing(c) <= Recorded(c)
  /\ \A p \in Pids, c \in Conns :
       app[p].conn = c => app[p].got + Backing(c) <= Recorded(c)
  /\ \A p \in Pids : app[p].conn = 0 => app[p].got = 0

(***************************************************************************)
(* The units of one term.                                                  *)
(***************************************************************************)
LEMMA UnitsOfOne ==
  ASSUME NEW k, NEW n \in Nat
  PROVE  IsFiniteSet({k} \X (1..n)) /\ Cardinality({k} \X (1..n)) = n
<1>1. PICK S : S = {k}
  OBVIOUS
<1>2. PICK T : T = 1..n
  OBVIOUS
<1>3. IsFiniteSet(S) /\ Cardinality(S) = 1
  BY <1>1, FS_Singleton
<1>4. IsFiniteSet(T) /\ Cardinality(T) = n
  BY <1>2, FS_Interval
<1>5. IsFiniteSet(S \X T) /\ Cardinality(S \X T) = Cardinality(S) * Cardinality(T)
  BY <1>3, <1>4, FS_Product
<1>6. Cardinality(S) * Cardinality(T) = n
  BY <1>3, <1>4
<1> QED
  BY <1>1, <1>2, <1>5, <1>6

(***************************************************************************)
(* A finite sum has a value.                                               *)
(***************************************************************************)
LEMMA UnitsFinite ==
  ASSUME NEW f, IsFiniteSet(DOMAIN f), \A k \in DOMAIN f : f[k] \in Nat
  PROVE  IsFiniteSet(Units(f)) /\ Total(f) \in Nat
<1> DEFINE U(k) == {k} \X (1..f[k])
           M == { U(k) : k \in DOMAIN f }
           g == [k \in DOMAIN f |-> U(k)]
<1>1. g \in Surjection(DOMAIN f, M)
  BY DEF Surjection
<1>2. IsFiniteSet(M)
  BY <1>1, FS_Surjection
<1>3. \A k \in DOMAIN f : IsFiniteSet(U(k))
  BY UnitsOfOne
<1>4. IsFiniteSet(UNION M)
  BY <1>2, <1>3, FS_UNION
<1> QED
  BY <1>4, FS_CardinalityType DEF Units, Total

(***************************************************************************)
(* A sum without one of its terms.                                         *)
(***************************************************************************)
LEMMA UnitsWithout ==
  ASSUME NEW f, NEW g, NEW k \in DOMAIN f, IsFiniteSet(DOMAIN f),
         \A j \in DOMAIN f : f[j] \in Nat,
         DOMAIN g \subseteq DOMAIN f, DOMAIN f \subseteq DOMAIN g \cup {k},
         \A j \in DOMAIN g : j # k => g[j] = f[j],
         k \in DOMAIN g => g[k] = 0
  PROVE  Total(f) \in Nat /\ Total(g) \in Nat /\ Total(f) = Total(g) + f[k]
<1>1. IsFiniteSet(DOMAIN g)
  BY FS_Subset
<1>2. \A j \in DOMAIN g : g[j] \in Nat
  OBVIOUS
<1>3. IsFiniteSet(Units(f)) /\ Total(f) \in Nat /\ IsFiniteSet(Units(g)) /\ Total(g) \in Nat
  BY <1>1, <1>2, UnitsFinite
<1> DEFINE V == {k} \X (1..f[k])
<1>4. IsFiniteSet(V) /\ Cardinality(V) = f[k]
  BY UnitsOfOne
<1>5. Units(f) = Units(g) \cup V
  <2>1. \A x : x \in Units(f) <=> \E j \in DOMAIN f : x \in {j} \X (1..f[j])
    BY DEF Units
  <2>2. \A x : x \in Units(g) <=> \E j \in DOMAIN g : x \in {j} \X (1..g[j])
    BY DEF Units
  <2>3. k \in DOMAIN g => 1..g[k] = {}
    OBVIOUS
  <2>4. \A x : x \in Units(g) => x \in Units(f)
    <3> SUFFICES ASSUME NEW x \in Units(g) PROVE x \in Units(f)
      OBVIOUS
    <3>1. PICK j \in DOMAIN g : x \in {j} \X (1..g[j])
      BY <2>2
    <3>2. j # k
      BY <3>1, <2>3
    <3> QED
      BY <3>1, <3>2, <2>1
  <2>5. \A x : x \in Units(f) => x \in Units(g) \cup V
    <3> SUFFICES ASSUME NEW x \in Units(f) PROVE x \in Units(g) \cup V
      OBVIOUS
    <3>1. PICK j \in DOMAIN f : x \in {j} \X (1..f[j])
      BY <2>1
    <3>2. CASE j = k
      BY <3>1, <3>2
    <3>3. CASE j # k
      BY <3>1, <3>3, <2>2
    <3> QED
      BY <3>2, <3>3
  <2>6. \A x \in V : x \in Units(f)
    BY <2>1
  <2> QED
    BY <2>4, <2>5, <2>6
<1>6. Units(g) \cap V = {}
  <2> SUFFICES ASSUME NEW x \in Units(g), x \in V PROVE FALSE
    OBVIOUS
  <2>1. PICK j \in DOMAIN g : x \in {j} \X (1..g[j])
    BY DEF Units
  <2>2. j = k
    BY <2>1
  <2>3. 1..g[k] = {}
    BY <2>2
  <2> QED
    BY <2>1, <2>2, <2>3
<1>7. Cardinality(Units(f)) = Cardinality(Units(g)) + Cardinality(V) - Cardinality(Units(g) \cap V)
  BY <1>3, <1>4, <1>5, FS_Union
<1>8. Cardinality(Units(g) \cap V) = 0
  BY <1>6, FS_EmptySet
<1> HIDE DEF V
<1> QED
  BY <1>3, <1>4, <1>7, <1>8 DEF Total

(***************************************************************************)
(* One term of a sum changes.                                              *)
(***************************************************************************)
LEMMA UnitsChange ==
  ASSUME NEW f, NEW h, NEW k \in DOMAIN f, IsFiniteSet(DOMAIN f), DOMAIN h = DOMAIN f,
         \A j \in DOMAIN f : f[j] \in Nat, \A j \in DOMAIN f : j # k => h[j] = f[j], h[k] \in Nat
  PROVE  Total(f) \in Nat /\ Total(h) \in Nat /\ Total(f) + h[k] = Total(h) + f[k]
<1>1. PICK g : g = [j \in DOMAIN f |-> IF j = k THEN 0 ELSE f[j]]
  OBVIOUS
<1>2. Total(f) \in Nat /\ Total(g) \in Nat /\ Total(f) = Total(g) + f[k]
  BY <1>1, UnitsWithout
<1>3. Total(h) \in Nat /\ Total(h) = Total(g) + h[k]
  <2>1. \A j \in DOMAIN h : h[j] \in Nat
    OBVIOUS
  <2> QED
    BY <1>1, <2>1, UnitsWithout
<1> QED
  BY <1>2, <1>3

(***************************************************************************)
(* The sizes of the answers in a socket: there are none at first, an       *)
(* answer is added to them, and they include that of the first answer.     *)
(***************************************************************************)
LEMMA SumEmpty == SumSizes(<<>>) = 0
<1>1. DOMAIN [k \in DOMAIN <<>> |-> <<>>[k].size] = {}
  OBVIOUS
<1>2. Units([k \in DOMAIN <<>> |-> <<>>[k].size]) = {}
  BY <1>1 DEF Units
<1> QED
  BY <1>2, FS_EmptySet DEF SumSizes

LEMMA SumNat ==
  ASSUME NEW s \in Seq(Answers)
  PROVE  /\ SumSizes(s) \in Nat
         /\ s # <<>> => Head(s).size <= SumSizes(s)
         /\ \A m \in Answers : SumSizes(Append(s, m)) = SumSizes(s) + m.size
<1>1. PICK f : f = [k \in DOMAIN s |-> s[k].size]
  OBVIOUS
<1>2. DOMAIN s = 1..Len(s) /\ Len(s) \in Nat
  OBVIOUS
<1>3. IsFiniteSet(DOMAIN f) /\ DOMAIN f = DOMAIN s
  BY <1>1, <1>2, FS_Interval
<1>4. \A k \in DOMAIN f : f[k] \in Nat
  <2>1. \A k \in DOMAIN s : s[k] \in Answers
    OBVIOUS
  <2> QED
    BY <2>1, <1>1 DEF Answers
<1>5. SumSizes(s) = Total(f)
  BY <1>1 DEF SumSizes, Total
<1>6. Total(f) \in Nat
  BY <1>3, <1>4, UnitsFinite
<1>7. ASSUME s # <<>> PROVE Head(s).size <= Total(f)
  <2>1. 1 \in DOMAIN f /\ f[1] = Head(s).size
    BY <1>1, <1>2, <1>3, <1>7
  <2>2. PICK g : g = [j \in DOMAIN f \ {1} |-> f[j]]
    OBVIOUS
  <2>3. Total(f) = Total(g) + f[1] /\ Total(g) \in Nat
    BY <1>3, <1>4, <2>1, <2>2, UnitsWithout
  <2>4. f[1] \in Nat
    BY <2>1, <1>4
  <2> QED
    BY <2>1, <2>3, <2>4
<1>8. ASSUME NEW m \in Answers PROVE SumSizes(Append(s, m)) = Total(f) + m.size
  <2>1. PICK k \in Nat : k = Len(s) + 1
    BY <1>2
  <2>2. PICK h : h = [j \in DOMAIN Append(s, m) |-> Append(s, m)[j].size]
    OBVIOUS
  <2>3. /\ DOMAIN Append(s, m) = DOMAIN s \cup {k} /\ k \notin DOMAIN s
        /\ Append(s, m)[k] = m /\ \A j \in DOMAIN s : Append(s, m)[j] = s[j]
    BY <1>2, <2>1
  <2>4. DOMAIN h = DOMAIN f \cup {k} /\ k \notin DOMAIN f /\ h[k] = m.size
        /\ \A j \in DOMAIN f : h[j] = f[j]
    BY <2>2, <2>3, <1>1, <1>3
  <2>5. m.size \in Nat
    BY DEF Answers
  <2>6. IsFiniteSet(DOMAIN h)
    BY <2>4, <1>3, FS_AddElement
  <2>7. \A j \in DOMAIN h : h[j] \in Nat
    BY <2>4, <2>5, <1>4
  <2>8. Total(h) = Total(f) + h[k]
    BY <2>4, <2>6, <2>7, UnitsWithout
  <2>9. SumSizes(Append(s, m)) = Total(h)
    BY <2>2 DEF SumSizes, Total
  <2> QED
    BY <2>4, <2>8, <2>9
<1> QED
  BY <1>5, <1>6, <1>7, <1>8

(***************************************************************************)
(* The answers on their way to c, before and after a step of thread r.     *)
(***************************************************************************)
LEMMA ThreadsFinite == IsFiniteSet(Threads) /\ 0 \in Threads /\ Conns \subseteq Threads
<1>1. IsFiniteSet(Conns)
  BY FS_Interval, Numbers DEF Conns
<1> QED
  BY <1>1, FS_AddElement DEF Threads

LEMMA TotalNat ==
  ASSUME NEW f \in [Threads -> Nat] PROVE Total(f) \in Nat
BY ThreadsFinite, UnitsFinite

LEMMA TotalChange ==
  ASSUME NEW f \in [Threads -> Nat], NEW h \in [Threads -> Nat], NEW r \in Threads,
         \A q \in Threads : q # r => h[q] = f[q]
  PROVE  Total(f) + h[r] = Total(h) + f[r]
BY ThreadsFinite, UnitsChange

LEMMA OnWayNat ==
  ASSUME TypesKept, NEW c PROVE OnWay(c) \in [Threads -> Nat]
<1>1. \A t : t.msg \in Messages => Owed(t, c) \in Nat
  BY DEF Owed, Messages
<1>2. \A r \in Threads : Thread(r).msg \in Messages
  BY DEF Thread, Threads, TypesKept, DaemonTypes, Readers
<1> QED
  BY <1>1, <1>2 DEF OnWay

LEMMA OnWayNatNext ==
  ASSUME TypesKept', NEW c PROVE OnWay(c)' \in [Threads -> Nat]
<1>1. \A t : t.msg \in Messages => Owed(t, c) \in Nat
  BY DEF Owed, Messages
<1>2. \A r \in Threads : Thread(r)'.msg \in Messages
  BY DEF Thread, Threads, TypesKept, DaemonTypes, Readers
<1> QED
  BY <1>1, <1>2 DEF OnWay

LEMMA BackingNat ==
  ASSUME TypesKept, NEW c \in Conns
  PROVE  SumSizes(outbox[c]) \in Nat /\ Total(OnWay(c)) \in Nat /\ Backing(c) \in Nat
<1>1. PICK f \in [Threads -> Nat] : f = OnWay(c)
  BY OnWayNat
<1>2. PICK s \in Seq(Answers) : s = outbox[c]
  BY DEF TypesKept, SocketTypes
<1>3. SumSizes(s) \in Nat /\ Total(f) \in Nat
  BY SumNat, TotalNat
<1> QED
  BY <1>1, <1>2, <1>3 DEF Backing

LEMMA BackingNatNext ==
  ASSUME TypesKept', NEW c \in Conns
  PROVE  SumSizes(outbox'[c]) \in Nat /\ Total(OnWay(c)') \in Nat /\ Backing(c)' \in Nat
         /\ Backing(c)' = SumSizes(outbox'[c]) + Total(OnWay(c)')
<1>1. PICK f \in [Threads -> Nat] : f = OnWay(c)'
  BY OnWayNatNext
<1>2. PICK s \in Seq(Answers) : s = outbox'[c]
  BY DEF TypesKept, SocketTypes
<1>3. SumSizes(s) \in Nat /\ Total(f) \in Nat
  BY SumNat, TotalNat
<1>4. Backing(c)' = SumSizes(outbox'[c]) + Total(OnWay(c)')
  BY DEF Backing, SumSizes, Units, Total
<1> QED
  BY <1>1, <1>2, <1>3, <1>4

LEMMA ThreadOwes ==
  ASSUME TypesKept, TypesKept', NEW c \in Conns, NEW r \in Threads,
         \A q \in Threads : q # r => Thread(q)' = Thread(q)
  PROVE  /\ Total(OnWay(c)) + Owed(Thread(r)', c) = Total(OnWay(c)') + Owed(Thread(r), c)
         /\ Owed(Thread(r)', c) \in Nat /\ Owed(Thread(r), c) \in Nat
<1>1. PICK f \in [Threads -> Nat] : f = OnWay(c)
  BY OnWayNat
<1>2. PICK h \in [Threads -> Nat] : h = OnWay(c)'
  BY OnWayNatNext
<1>3. \A q \in Threads : f[q] = Owed(Thread(q), c) /\ h[q] = Owed(Thread(q)', c)
  BY <1>1, <1>2 DEF OnWay, Owed
<1>4. \A q \in Threads : q # r => h[q] = f[q]
  BY <1>3 DEF Owed
<1>5. Total(f) + h[r] = Total(h) + f[r]
  BY <1>4, TotalChange
<1> QED
  BY <1>1, <1>2, <1>3, <1>5

(***************************************************************************)
(* The granules recorded for a client can be counted.                      *)
(***************************************************************************)
LEMMA GrantsFinite ==
  ASSUME NEW G \in SUBSET (Ids \X Offsets)
  PROVE  IsFiniteSet(G) /\ Cardinality(G) \in Nat /\ Granularity * Cardinality(G) \in Nat
<1>1. IsFiniteSet(Ids)
  BY FS_Interval, Numbers DEF Ids
<1>2. IsFiniteSet(Ids \X Offsets)
  BY <1>1, FS_Product, EphemeraldAssumption
<1>3. IsFiniteSet(G) /\ Cardinality(G) \in Nat
  BY <1>2, FS_Subset, FS_CardinalityType
<1> QED
  BY <1>3, Granules

LEMMA RecordedNat ==
  ASSUME TypesKept, NEW c PROVE Recorded(c) \in Nat
<1>1. Backed(c) \in SUBSET (Ids \X Offsets)
  BY DEF Backed, TypesKept, DaemonTypes
<1> QED
  BY <1>1, GrantsFinite DEF Recorded

LEMMA MoreGrants ==
  ASSUME NEW H \in SUBSET (Ids \X Offsets), NEW G \in SUBSET H
  PROVE  Granularity * Cardinality(G) <= Granularity * Cardinality(H)
<1>1. IsFiniteSet(H) /\ Cardinality(H) \in Nat /\ Cardinality(G) \in Nat
  BY GrantsFinite
<1>2. Cardinality(G) <= Cardinality(H)
  BY <1>1, FS_Subset
<1> QED
  BY <1>1, <1>2, Granules

(* What is recorded for a client never becomes less. *)
Growing ==
  \A c \in Conns : Recorded(c) \in Nat /\ Recorded(c)' \in Nat /\ Recorded(c) <= Recorded(c)'

(***************************************************************************)
(* No step takes a granule out of a client's allocations, or makes a       *)
(* request to which granules were granted a pending one again.             *)
(***************************************************************************)
LEMMA BackedStays ==
  ASSUME TypesKept, TypesKept', granted \subseteq granted',
         \A g \in granted : client_of'[g[1]] = client_of[g[1]],
         \A c \in Conns : allocations[c] \subseteq allocations'[c],
         \A c \in Conns : \A g \in granted : pending'[c].id = g[1] => pending[c].id = g[1]
  PROVE  Growing
<1> SUFFICES ASSUME NEW c \in Conns
             PROVE  Recorded(c) \in Nat /\ Recorded(c)' \in Nat /\ Recorded(c) <= Recorded(c)'
  BY DEF Growing
<1>1. PICK G : G = Backed(c)
  OBVIOUS
<1>2. PICK H : H = Backed(c)'
  OBVIOUS
<1>3. H \in SUBSET (Ids \X Offsets)
  BY <1>2 DEF Backed, TypesKept, DaemonTypes
<1>4. G \in SUBSET H
  BY <1>1, <1>2 DEF Backed
<1>5. G \in SUBSET (Ids \X Offsets)
  BY <1>3, <1>4
<1>6. Granularity * Cardinality(G) \in Nat /\ Granularity * Cardinality(H) \in Nat
  BY <1>3, <1>5, GrantsFinite
<1>7. Granularity * Cardinality(G) <= Granularity * Cardinality(H)
  BY <1>3, <1>4, MoreGrants
<1> QED
  BY <1>1, <1>2, <1>6, <1>7 DEF Recorded

LEMMA NextGrowing ==
  ASSUME GuestKept, TypesKept', RouteKept, OriginKept, [Next]_vars PROVE Growing
<1>1. /\ TypesKept /\ HandsKept /\ pending \in [Conns -> Pending]
      /\ allocations \in [Conns -> SUBSET Offsets]
      /\ client_of \in [Ids -> Conns \cup {0}] /\ granted \subseteq Ids \X Offsets
      /\ \A g \in granted : client_of[g[1]] \in Conns /\ g[1] \in Ids
      /\ 0 \notin Conns /\ -1 \notin Ids
  BY Numbers DEF GuestKept, TypesKept, DaemonTypes, OriginKept
<1>2. ASSUME UNCHANGED <<client_of, allocations, pending>>, granted \subseteq granted' PROVE Growing
  BY <1>1, <1>2, BackedStays
<1>3. ASSUME NEW d \in Conns, NEW S, Complete(d, S), UNCHANGED <<client_of, granted>> PROVE Growing
  <2>1. \A c \in Conns : allocations[c] \subseteq allocations'[c]
    BY <1>1, <1>3 DEF Complete
  <2>2. \A c \in Conns : pending'[c] = pending[c] \/ pending'[c].id = -1
    BY <1>1, <1>3 DEF Complete, NoRequest
  <2>3. \A c \in Conns : \A g \in granted : pending'[c].id = g[1] => pending[c].id = g[1]
    BY <2>2, <1>1
  <2> QED
    BY <2>1, <2>3, <1>1, <1>3, BackedStays
<1>4. CASE Daemon /\ Listener
  BY <1>2, <1>4 DEF Daemon, Listener, Register, Refuse, historyVars
<1>5. CASE Daemon /\ OrchestratorThread
  <2>1. CASE ~Deliver
    BY <2>1, <1>2, <1>5 DEF OrchestratorThread, DaxFails, FindClient, SendGrant, LoseOrchestrator,
       daemonVars, historyVars
  <2>2. CASE Deliver
    <3>1. PICK d \in Conns : d = orch.msg.client
      BY <2>2, <1>1 DEF HandsKept, Deliver
    <3>2. UNCHANGED <<client_of, granted>>
      BY <2>2 DEF Deliver, historyVars
    <3>3. CASE \E S : Complete(d, S)
      BY <3>2, <3>3, <1>3
    <3>4. CASE /\ allocations' = allocations
               /\ \E n, S : pending' = [pending EXCEPT ![d] = [pending[d] EXCEPT !.received = n,
                                                                               !.allocations = S]]
      <4>1. \A c \in Conns : pending'[c].id = pending[c].id
        BY <3>4, <1>1 DEF Pending
      <4> QED
        BY <4>1, <3>2, <3>4, <1>1, BackedStays
    <3>5. CASE UNCHANGED <<pending, allocations>>
      BY <3>2, <3>5, <1>2
    <3>6. CASE Fits(orch.msg) /\ AwaitsMore(orch.msg)
      <4>1. PICK q : q = pending[d]
        OBVIOUS
      <4>2. /\ allocations' = allocations
            /\ pending' = [pending EXCEPT ![d] =
                 [q EXCEPT !.received = q.received + orch.msg.size,
                           !.allocations = q.allocations \cup {orch.msg.offset}]]
        BY <4>1, <2>2, <3>1, <3>6 DEF Deliver
      <4> QED
        BY <4>1, <4>2, <3>4
    <3>7. CASE Fits(orch.msg) /\ ~AwaitsMore(orch.msg)
      BY <2>2, <3>1, <3>3, <3>7 DEF Deliver
    <3>8. CASE ~Fits(orch.msg)
      BY <2>2, <3>5, <3>8 DEF Deliver
    <3> QED
      BY <3>6, <3>7, <3>8
  <2> QED
    BY <2>1, <2>2
<1>6. ASSUME NEW c \in Conns, ReaderThread(c) PROVE Growing
  <2>1. CASE ~CheckPending(c) /\ ~Deny(c)
    BY <2>1, <1>2, <1>6 DEF ReaderThread, ReadRequest, Forward, SendDenial, Close, historyVars
  <2>2. CASE Deny(c)
    <3>1. PICK d \in Conns : d = reader[c].msg.client
      BY <2>2, <1>1 DEF HandsKept, Deny, Busy
    <3>2. UNCHANGED <<client_of, granted>>
      BY <2>2 DEF Deny, historyVars
    <3>3. CASE \E S : Complete(d, S)
      BY <3>2, <3>3, <1>3
    <3>4. CASE UNCHANGED <<pending, allocations>>
      BY <3>2, <3>4, <1>2
    <3> QED
      BY <2>2, <3>1, <3>3, <3>4 DEF Deny
  <2>3. CASE CheckPending(c)
    <3>1. PICK m : m = reader[c].msg
      OBVIOUS
    <3>2. m.client \in Conns /\ m.id \in Ids /\ client_of[m.id] = 0
      BY <2>3, <3>1, <1>1 DEF CheckPending, HandsKept, Busy, RouteKept, Claims
    <3>3. \A g \in granted : g[1] # m.id
      BY <3>2, <1>1
    <3>4. UNCHANGED <<granted, allocations>>
      BY <2>3 DEF CheckPending
    <3>5. CASE UNCHANGED <<pending, client_of>>
      BY <3>4, <3>5, <1>2
    <3>6. CASE /\ pending' = [pending EXCEPT ![m.client] =
                   [id |-> m.id, requested |-> m.size, received |-> 0, allocations |-> {},
                    ask |-> m.ask]]
               /\ client_of' = [client_of EXCEPT ![m.id] = m.client]
      <4>1. \A d \in Conns : pending'[d] = pending[d] \/ pending'[d].id = m.id
        BY <3>2, <3>6, <1>1
      <4>2. \A d \in Conns : \A g \in granted : pending'[d].id = g[1] => pending[d].id = g[1]
        BY <4>1, <3>3
      <4>3. \A g \in granted : client_of'[g[1]] = client_of[g[1]]
        BY <3>3, <3>6, <1>1
      <4> QED
        BY <4>2, <4>3, <3>4, <1>1, BackedStays
    <3> QED
      BY <2>3, <3>1, <3>5, <3>6 DEF CheckPending
  <2> QED
    BY <2>1, <2>2, <2>3
<1>7. CASE Orchestrator
  BY <1>2, <1>7 DEF Orchestrator, OrchestratorTakes, OrchestratorAnswers, daemonVars, historyVars
<1>8. CASE LinkFails \/ UNCHANGED vars
  BY <1>2, <1>8 DEF LinkFails, vars, daemonVars, historyVars
<1>9. CASE \E p \in Pids : Process(p)
  BY <1>2, <1>9 DEF Process, Connect, ProcessEnds, Write, Receive, TimeOut, Drain, daemonVars,
     historyVars
<1> QED
  BY <1>4, <1>5, <1>6, <1>7, <1>8, <1>9 DEF Next, Daemon

(***************************************************************************)
(* A request completed with the offsets S backs one granule for each of    *)
(* them, whether or not an offset was recorded before: the request's       *)
(* grants did not count as long as it was pending.                         *)
(***************************************************************************)
LEMMA RecordedMore ==
  ASSUME TypesKept, TypesKept', RouteKept, OriginKept, NEW d \in Conns, NEW i \in Ids,
         NEW S \in SUBSET Offsets, pending[d].id = i, Complete(d, S), UNCHANGED <<client_of, granted>>,
         \A o \in S : <<i, o>> \in granted
  PROVE  Recorded(d) + Granularity * Cardinality(S) <= Recorded(d)'
<1>1. /\ pending \in [Conns -> Pending] /\ allocations \in [Conns -> SUBSET Offsets]
      /\ granted \subseteq Ids \X Offsets /\ -1 \notin Ids
  BY Numbers DEF TypesKept, DaemonTypes
<1>2. client_of[i] = d
  BY <1>1 DEF RouteKept, Claims
<1>3. pending'[d].id = -1 /\ allocations'[d] = allocations[d] \cup S
  BY <1>1 DEF Complete, NoRequest
<1>4. PICK G : G = Backed(d)
  OBVIOUS
<1>5. PICK H : H = Backed(d)'
  OBVIOUS
<1>6. PICK N : N = {i} \X S
  OBVIOUS
<1>7. G \cup N \subseteq H /\ H \in SUBSET (Ids \X Offsets)
  <2>1. H = { g \in granted : /\ client_of[g[1]] = d /\ g[1] # -1
                             /\ g[2] \in allocations[d] \cup S }
    BY <1>3, <1>5 DEF Backed
  <2>2. G \subseteq H
    BY <2>1, <1>1, <1>4 DEF Backed
  <2>3. N \subseteq H
    BY <2>1, <1>1, <1>2, <1>6
  <2> QED
    BY <2>1, <2>2, <2>3, <1>1
<1>8. G \cap N = {}
  BY <1>4, <1>6 DEF Backed
<1>9. /\ IsFiniteSet(G) /\ IsFiniteSet(N) /\ IsFiniteSet(S)
      /\ Cardinality(G) \in Nat /\ Cardinality(N) \in Nat /\ Cardinality(S) \in Nat
  <2>1. G \in SUBSET (Ids \X Offsets) /\ N \in SUBSET (Ids \X Offsets)
    BY <1>7
  <2> QED
    BY <2>1, GrantsFinite, EphemeraldAssumption, FS_Subset, FS_CardinalityType
<1>10. Cardinality(N) = Cardinality(S)
  <2>1. PICK O : O = {i}
    OBVIOUS
  <2>2. IsFiniteSet(O) /\ Cardinality(O) = 1
    BY <2>1, FS_Singleton
  <2>3. Cardinality(N) = Cardinality(O) * Cardinality(S)
    BY <2>1, <2>2, <1>6, <1>9, FS_Product
  <2> QED
    BY <2>2, <2>3, <1>9
<1>11. Cardinality(G \cup N) = Cardinality(G) + Cardinality(S)
  <2>1. Cardinality(G \cup N) = Cardinality(G) + Cardinality(N) - Cardinality(G \cap N)
    BY <1>9, FS_Union
  <2>2. Cardinality(G \cap N) = 0
    BY <1>8, FS_EmptySet
  <2>3. \A a, b, e \in Nat : e = 0 => a + b - e = a + b
    OBVIOUS
  <2> QED
    BY <2>1, <2>2, <2>3, <1>9, <1>10
<1>12. Granularity * Cardinality(G \cup N) <= Granularity * Cardinality(H)
  BY <1>7, MoreGrants
<1>13. \A a, b \in Nat : Granularity * (a + b) = Granularity * a + Granularity * b
  BY Numbers
<1> QED
  BY <1>4, <1>5, <1>9, <1>11, <1>12, <1>13 DEF Recorded

(***************************************************************************)
(* A step of the daemon that puts no more on the way to a client than it   *)
(* records for it.                                                         *)
(***************************************************************************)
LEMMA BackedGrows ==
  ASSUME TypesKept, TypesKept', BackedKept,
         \A p \in Pids : app'[p].conn = app[p].conn /\ app'[p].got = app[p].got,
         \A c \in Conns : Backing(c)' + Recorded(c) <= Backing(c) + Recorded(c)', Growing
  PROVE  BackedKept'
<1>1. \A c \in Conns : Recorded(c) \in Nat /\ Recorded(c)' \in Nat
  BY DEF Growing
<1>2. \A c \in Conns : Backing(c) \in Nat
  BY BackingNat
<1>3. \A c \in Conns : Backing(c)' \in Nat
  BY BackingNatNext
<1>4. \A b, d, u, v, g \in Nat : d + u <= b + v /\ g + b <= u => g + d <= v
  OBVIOUS
<1>5. \A c \in Conns : Backing(c)' <= Recorded(c)'
  <2> SUFFICES ASSUME NEW c \in Conns PROVE Backing(c)' <= Recorded(c)'
    OBVIOUS
  <2>1. 0 + Backing(c) <= Recorded(c)
    BY <1>1, <1>2 DEF BackedKept
  <2>2. 0 + Backing(c)' <= Recorded(c)'
    BY <2>1, <1>1, <1>2, <1>3, <1>4
  <2> QED
    BY <2>2, <1>1, <1>3
<1>6. \A p \in Pids, c \in Conns : app'[p].conn = c => app'[p].got + Backing(c)' <= Recorded(c)'
  <2> SUFFICES ASSUME NEW p \in Pids, NEW c \in Conns, app[p].conn = c
               PROVE  app[p].got + Backing(c)' <= Recorded(c)'
    OBVIOUS
  <2>1. app[p].got \in Nat
    BY DEF TypesKept, AppTypes, Processes
  <2>2. app[p].got + Backing(c) <= Recorded(c)
    BY DEF BackedKept
  <2> QED
    BY <2>1, <2>2, <1>1, <1>2, <1>3, <1>4
<1>7. \A p \in Pids : app'[p].conn = 0 => app'[p].got = 0
  BY DEF BackedKept
<1> QED
  BY <1>5, <1>6, <1>7 DEF BackedKept

(* All threads but r stay as they are, and so do the processes. *)
OnlyThread(r) ==
  /\ \A q \in Threads : q # r => Thread(q)' = Thread(q)
  /\ \A p \in Pids : app'[p].conn = app[p].conn /\ app'[p].got = app[p].got

(***************************************************************************)
(* A thread that neither was about to answer nor is now.                   *)
(***************************************************************************)
LEMMA BackedQuiet ==
  ASSUME TypesKept, TypesKept', BackedKept, NEW r \in Threads, OnlyThread(r),
         outbox' = outbox, Growing,
         Thread(r)' = Thread(r) \/ (Thread(r).at # "send" /\ Thread(r)'.at # "send")
  PROVE  BackedKept'
<1>1. \A c \in Conns : OnWay(c)' = OnWay(c)
  <2> SUFFICES ASSUME NEW c \in Conns PROVE OnWay(c)' = OnWay(c)
    OBVIOUS
  <2>1. \A q \in Threads : Owed(Thread(q)', c) = Owed(Thread(q), c)
    BY DEF OnlyThread, Owed
  <2> QED
    BY <2>1 DEF OnWay, Owed
<1>2. \A c \in Conns : Backing(c)' = Backing(c)
  BY <1>1 DEF Backing, Total, Units, SumSizes
<1>3. \A c \in Conns : Backing(c) \in Nat /\ Recorded(c) \in Nat /\ Recorded(c)' \in Nat
                       /\ Recorded(c) <= Recorded(c)'
  BY BackingNat DEF Growing
<1>4. \A b, u, v \in Nat : u <= v => b + u <= b + v
  OBVIOUS
<1>5. \A c \in Conns : Backing(c)' + Recorded(c) <= Backing(c) + Recorded(c)'
  BY <1>2, <1>3, <1>4
<1> QED
  BY <1>5, BackedGrows DEF OnlyThread

(***************************************************************************)
(* A thread records n bytes for d, and is about to tell it so.             *)
(***************************************************************************)
LEMMA BackedComplete ==
  ASSUME TypesKept, TypesKept', BackedKept, NEW r \in Threads, OnlyThread(r), outbox' = outbox,
         NEW d \in Conns, NEW n \in Nat, Growing, Recorded(d) + n <= Recorded(d)',
         Thread(r).at # "send", Thread(r)'.at = "send", Thread(r)'.msg.client = d,
         Thread(r)'.msg.size = n
  PROVE  BackedKept'
<1>1. \A c \in Conns : Backing(c)' + Recorded(c) <= Backing(c) + Recorded(c)'
  <2> SUFFICES ASSUME NEW c \in Conns
               PROVE  Backing(c)' + Recorded(c) <= Backing(c) + Recorded(c)'
    OBVIOUS
  <2>1. Owed(Thread(r), c) = 0 /\ Owed(Thread(r)', c) = IF c = d THEN n ELSE 0
    BY DEF Owed
  <2>2. Total(OnWay(c)) + Owed(Thread(r)', c) = Total(OnWay(c)') + Owed(Thread(r), c)
    BY ThreadOwes DEF OnlyThread
  <2>3. SumSizes(outbox[c]) \in Nat /\ Total(OnWay(c)) \in Nat
        /\ Backing(c) = SumSizes(outbox[c]) + Total(OnWay(c))
    BY BackingNat DEF Backing
  <2>4. Total(OnWay(c)') \in Nat /\ Backing(c)' = SumSizes(outbox[c]) + Total(OnWay(c)')
    BY BackingNatNext
  <2>5. /\ Recorded(c) \in Nat /\ Recorded(c)' \in Nat
        /\ Recorded(c) + (IF c = d THEN n ELSE 0) <= Recorded(c)'
    BY DEF Growing
  <2>6. \A s, t, u, a, b, k \in Nat : t + k = u + 0 /\ a + k <= b => (s + u) + a <= (s + t) + b
    OBVIOUS
  <2>7. (IF c = d THEN n ELSE 0) \in Nat
    OBVIOUS
  <2> QED
    BY <2>1, <2>2, <2>3, <2>4, <2>5, <2>6, <2>7
<1> QED
  BY <1>1, BackedGrows DEF OnlyThread

(***************************************************************************)
(* A thread writes the answer it was about to write, or its socket is      *)
(* closed.                                                                 *)
(***************************************************************************)
LEMMA BackedSent ==
  ASSUME TypesKept, TypesKept', BackedKept, NEW r \in Threads, OnlyThread(r),
         Growing,
         NEW d \in Conns, NEW n \in Nat, NEW a \in Asks \cup {0}, SendTo(d, n, a),
         Thread(r)'.at # "send", Thread(r).at = "send", Thread(r).msg.client = d,
         Thread(r).msg.size = n
  PROVE  BackedKept'
<1>1. \A c \in Conns : Backing(c)' + Recorded(c) <= Backing(c) + Recorded(c)'
  <2> SUFFICES ASSUME NEW c \in Conns
               PROVE  Backing(c)' + Recorded(c) <= Backing(c) + Recorded(c)'
    OBVIOUS
  <2>1. Owed(Thread(r)', c) = 0 /\ Owed(Thread(r), c) = IF c = d THEN n ELSE 0
    BY DEF Owed
  <2>2. Total(OnWay(c)) + Owed(Thread(r)', c) = Total(OnWay(c)') + Owed(Thread(r), c)
    BY ThreadOwes DEF OnlyThread
  <2>3. PICK s \in Seq(Answers) : s = outbox[c]
    BY DEF TypesKept, SocketTypes
  <2>4. SumSizes(s) \in Nat /\ Total(OnWay(c)) \in Nat
        /\ Backing(c) = SumSizes(s) + Total(OnWay(c))
    BY <2>3, BackingNat DEF Backing
  <2>5. PICK m \in Answers : m = [size |-> n, ask |-> a]
    BY DEF Answers
  <2>6. outbox'[c] = s \/ (c = d /\ outbox'[c] = Append(s, m))
    BY <2>3, <2>5 DEF SendTo, TypesKept, SocketTypes
  <2>7. SumSizes(Append(s, m)) = SumSizes(s) + n
    BY <2>5, SumNat
  <2>8. PICK k \in Nat : k = SumSizes(outbox'[c]) /\ k <= SumSizes(s) + IF c = d THEN n ELSE 0
    <3>1. CASE outbox'[c] = s
      BY <3>1, <2>4
    <3>2. CASE c = d /\ outbox'[c] = Append(s, m)
      BY <3>2, <2>4, <2>7
    <3> QED
      BY <3>1, <3>2, <2>6
  <2>9. Total(OnWay(c)') \in Nat /\ Backing(c)' = k + Total(OnWay(c)')
    BY <2>8, BackingNatNext
  <2>10. Recorded(c) \in Nat /\ Recorded(c)' \in Nat /\ Recorded(c) <= Recorded(c)'
    BY DEF Growing
  <2>11. \A x, y, t, u, v, b, i \in Nat :
           t + 0 = u + i /\ y <= x + i /\ v <= b => (y + u) + v <= (x + t) + b
    OBVIOUS
  <2>12. (IF c = d THEN n ELSE 0) \in Nat
    OBVIOUS
  <2> QED
    BY <2>1, <2>2, <2>4, <2>8, <2>9, <2>10, <2>11, <2>12
<1> QED
  BY <1>1, BackedGrows DEF OnlyThread

(***************************************************************************)
(* A step of process p, of whose connection d at least g is recorded       *)
(* besides what is on the way to it.                                       *)
(***************************************************************************)
LEMMA BackedProcess ==
  ASSUME TypesKept, TypesKept', BackedKept, UNCHANGED <<reader, orch>>, Growing,
         NEW p \in Pids, NEW d \in Conns, NEW g \in Nat, g + Backing(d) <= Recorded(d),
         \A q \in Pids : q # p => app'[q] = app[q],
         \A c \in Conns : SumSizes(outbox'[c]) <= SumSizes(outbox[c]),
         \/ app'[p].conn = 0 /\ app'[p].got = 0
         \/ /\ app'[p].conn = d
            /\ app'[p].got + SumSizes(outbox'[d]) <= g + SumSizes(outbox[d])
  PROVE  BackedKept'
<1>1. \A c \in Conns : OnWay(c)' = OnWay(c)
  BY DEF OnWay, Thread, Owed
<1>2. \A c \in Conns : /\ Backing(c) \in Nat /\ SumSizes(outbox[c]) \in Nat
                       /\ Total(OnWay(c)) \in Nat
                       /\ Recorded(c) \in Nat /\ Recorded(c)' \in Nat /\ Recorded(c) <= Recorded(c)'
                       /\ Backing(c) = SumSizes(outbox[c]) + Total(OnWay(c))
  BY BackingNat DEF Growing, Backing
<1>3. \A c \in Conns : /\ Backing(c)' \in Nat /\ SumSizes(outbox'[c]) \in Nat
                       /\ Backing(c)' = SumSizes(outbox'[c]) + Total(OnWay(c))
  <2>1. \A c \in Conns : Total(OnWay(c)') = Total(OnWay(c))
    BY <1>1
  <2> QED
    BY <2>1, BackingNatNext
<1>4. \A x, y, t, u, v, a, b \in Nat :
        u + y <= v + x /\ v + (x + t) <= a /\ a <= b => u + (y + t) <= b
  OBVIOUS
<1>5. ASSUME NEW c \in Conns, NEW v \in Nat, v + Backing(c) <= Recorded(c)
      PROVE  v + Backing(c)' <= Recorded(c)'
  <2>1. v + SumSizes(outbox'[c]) <= v + SumSizes(outbox[c])
    BY <1>2, <1>3
  <2> QED
    BY <2>1, <1>2, <1>3, <1>4, <1>5
<1>6. \A c \in Conns : Backing(c)' <= Recorded(c)'
  <2> SUFFICES ASSUME NEW c \in Conns PROVE Backing(c)' <= Recorded(c)'
    OBVIOUS
  <2>1. 0 + Backing(c) <= Recorded(c)
    BY <1>2 DEF BackedKept
  <2>2. 0 + Backing(c)' <= Recorded(c)'
    BY <2>1, <1>5
  <2> QED
    BY <2>2, <1>3
<1>7. ASSUME NEW q \in Pids, NEW c \in Conns, app'[q].conn = c
      PROVE  app'[q].got + Backing(c)' <= Recorded(c)'
  <2>1. CASE q # p
    <3>1. app'[q] = app[q] /\ app[q].got \in Nat
      BY <2>1 DEF TypesKept, AppTypes, Processes
    <3>2. PICK v \in Nat : v = app[q].got
      BY <3>1
    <3>3. v + Backing(c) <= Recorded(c)
      BY <3>1, <3>2, <1>7 DEF BackedKept
    <3>4. v + Backing(c)' <= Recorded(c)'
      BY <3>3, <1>5
    <3> QED
      BY <3>1, <3>2, <3>4
  <2>2. CASE q = p
    <3>1. c = d /\ app'[p].got + SumSizes(outbox'[d]) <= g + SumSizes(outbox[d])
      BY <2>2, <1>7, Numbers
    <3>2. app'[p].got \in Nat
      BY DEF TypesKept, AppTypes, Processes
    <3> QED
      BY <3>1, <3>2, <2>2, <1>2, <1>3, <1>4
  <2> QED
    BY <2>1, <2>2
<1>8. \A q \in Pids : app'[q].conn = 0 => app'[q].got = 0
  BY Numbers DEF BackedKept
<1> QED
  BY <1>6, <1>7, <1>8 DEF BackedKept

(***************************************************************************)
(* At first nothing is recorded and nothing is on its way.                 *)
(***************************************************************************)
LEMMA InitBacked ==
  ASSUME Init PROVE BackedKept
<1>1. /\ \A c \in Conns : reader[c].at = "none" /\ outbox[c] = <<>>
      /\ granted = {}
      /\ orch.at = "reading" /\ \A p \in Pids : app[p].conn = 0 /\ app[p].got = 0
  BY DEF Init, EphemeraldInit, NewProcess, At
<1>2. \A c \in Conns : Backing(c) = 0
  <2> SUFFICES ASSUME NEW c \in Conns PROVE Backing(c) = 0
    OBVIOUS
  <2>1. \A r \in Threads : Owed(Thread(r), c) = 0
    BY <1>1 DEF Owed, Thread, Threads
  <2>2. \A r \in Threads : 1..(OnWay(c)[r]) = {}
    BY <2>1 DEF OnWay
  <2>3. Units(OnWay(c)) = {}
    BY <2>2 DEF Units, OnWay
  <2>4. Total(OnWay(c)) = 0
    BY <2>3, FS_EmptySet DEF Total
  <2>5. SumSizes(outbox[c]) = 0
    BY <1>1, SumEmpty
  <2> QED
    BY <2>4, <2>5 DEF Backing
<1>3. \A c \in Conns : Recorded(c) = 0
  <2>1. \A c \in Conns : Backed(c) = {}
    BY <1>1 DEF Backed
  <2>2. Granularity * Cardinality({}) = 0
    BY FS_EmptySet, Numbers
  <2> QED
    BY <2>1, <2>2 DEF Recorded
<1>4. 0 <= 0 /\ \A p \in Pids, c \in Conns : app[p].conn # c
  BY <1>1, Numbers
<1> QED
  BY <1>1, <1>2, <1>3, <1>4 DEF BackedKept

(***************************************************************************)
(* The readers' steps.                                                     *)
(***************************************************************************)
LEMMA ReaderBacked ==
  ASSUME GuestKept, TypesKept', RouteKept, OriginKept, BackedKept, Growing,
         NEW c \in Conns, ReaderThread(c), UNCHANGED app
  PROVE  BackedKept'
<1>1. TypesKept /\ reader \in [Conns -> Readers] /\ pending \in [Conns -> Pending] /\ c \in Threads
      /\ c # 0
  BY ThreadsFinite, Numbers DEF GuestKept, TypesKept, DaemonTypes
<1>2. orch' = orch /\ \A d \in Conns : d # c => reader'[d] = reader[d]
  BY <1>1 DEF ReaderThread, ReadRequest, CheckPending, Forward, Deny, SendDenial, Close
<1>3. OnlyThread(c) /\ Thread(c) = reader[c] /\ Thread(c)' = reader'[c]
  BY <1>1, <1>2 DEF OnlyThread, Thread, Threads
<1>4. CASE ReadRequest(c) \/ CheckPending(c) \/ Forward(c) \/ Close(c)
  <2>1. outbox' = outbox
    BY <1>4 DEF ReadRequest, CheckPending, Forward, Close, socketVars
  <2>2. reader[c].at # "send"
    BY <1>4 DEF ReadRequest, CheckPending, Forward, Close, Reading
  <2>3. reader'[c].at # "send"
    BY <2>2, <1>1, <1>4 DEF ReadRequest, CheckPending, Forward, Close, Readers, At
  <2> QED
    BY <2>1, <2>2, <2>3, <1>1, <1>3, BackedQuiet
<1>5. CASE Deny(c) /\ pending[reader[c].msg.client].id # reader[c].msg.id
  <2>1. outbox' = outbox /\ reader[c].at # "send" /\ reader'[c].at # "send"
    BY <1>1, <1>5 DEF Deny, socketVars, At
  <2> QED
    BY <2>1, <1>1, <1>3, BackedQuiet
<1>6. CASE Deny(c) /\ pending[reader[c].msg.client].id = reader[c].msg.id
  <2>1. PICK d \in Conns : d = reader[c].msg.client
    BY <1>6 DEF GuestKept, HandsKept, Deny, Busy
  <2>2. PICK n \in Nat, S \in SUBSET Offsets : n = pending[d].received /\ S = pending[d].allocations
    BY <1>1 DEF Pending
  <2>3. /\ outbox' = outbox /\ reader[c].at = "deny"
        /\ Complete(d, S) /\ UNCHANGED <<client_of, granted>>
        /\ reader' = [reader EXCEPT ![c] = At("send", [reader[c].msg EXCEPT !.size = n])]
    BY <1>6, <2>1, <2>2 DEF Deny, socketVars, historyVars
  <2>4. reader[c].msg \in Messages
    BY <1>1 DEF Readers
  <2>5. reader'[c].at = "send" /\ reader'[c].msg.client = d /\ reader'[c].msg.size = n
    BY <2>1, <2>3, <2>4, <1>1 DEF At, Messages
  <2>6. PICK i \in Ids : i = pending[d].id
    BY <2>1, <1>6 DEF GuestKept, HandsKept, Deny, Busy
  <2>7. (\A o \in S : <<i, o>> \in granted) /\ n = Granularity * Cardinality(S)
    BY <2>2, <2>6, Numbers DEF OriginKept, Counted
  <2>8. Recorded(d) + n <= Recorded(d)'
    BY <2>3, <2>6, <2>7, <1>1, RecordedMore
  <2> QED
    BY <2>3, <2>5, <2>8, <1>1, <1>3, BackedComplete
<1>7. CASE SendDenial(c)
  <2>1. PICK d \in Conns : d = reader[c].msg.client
    BY <1>7 DEF GuestKept, HandsKept, SendDenial, Busy
  <2>2. PICK n \in Nat, a \in Asks \cup {0} : n = reader[c].msg.size /\ a = reader[c].msg.ask
    BY <1>1 DEF Readers, Messages
  <2>3. SendTo(d, n, a) /\ reader[c].at = "send"
        /\ reader'[c].at = "reading"
    BY <1>1, <1>7, <2>1, <2>2 DEF SendDenial, At
  <2> QED
    BY <2>1, <2>2, <2>3, <1>1, <1>3, BackedSent
<1> QED
  BY <1>4, <1>5, <1>6, <1>7 DEF ReaderThread

(***************************************************************************)
(* The steps of the reader of the orchestrator's connection.               *)
(***************************************************************************)
LEMMA OrchestratorThreadBacked ==
  ASSUME GuestKept, TypesKept', RouteKept, OriginKept, BackedKept, Growing,
         OrchestratorThread, UNCHANGED app
  PROVE  BackedKept'
<1>1. /\ TypesKept /\ pending \in [Conns -> Pending] /\ 0 \in Threads
      /\ orch \in [at : {"reading", "found", "send"}, msg : Messages]
  BY ThreadsFinite DEF GuestKept, TypesKept, DaemonTypes
<1>2. reader' = reader
  BY DEF OrchestratorThread, DaxFails, FindClient, Deliver, SendGrant, LoseOrchestrator, daemonVars
<1>3. OnlyThread(0) /\ Thread(0) = orch /\ Thread(0)' = orch'
  BY <1>1, <1>2 DEF OnlyThread, Thread, Threads
<1>4. CASE DaxFails \/ FindClient \/ LoseOrchestrator
  <2>1. outbox' = outbox
    BY <1>4 DEF DaxFails, FindClient, LoseOrchestrator, daemonVars, socketVars
  <2>2. orch.at = "reading" /\ (orch' = orch \/ orch'.at = "found")
    BY <1>4 DEF DaxFails, FindClient, LoseOrchestrator, TakeResponse, daemonVars, At
  <2> QED
    BY <2>1, <2>2, <1>1, <1>3, BackedQuiet
<1>5. CASE Deliver
  <2>1. PICK d \in Conns : d = orch.msg.client
    BY <1>5 DEF GuestKept, HandsKept, Deliver
  <2>2. PICK n \in Nat, S \in SUBSET Offsets : /\ n = pending[d].received + orch.msg.size
                                              /\ S = pending[d].allocations \cup {orch.msg.offset}
    <3>1. pending[d].received \in Nat /\ pending[d].allocations \subseteq Offsets
      BY <1>1 DEF Pending
    <3>2. orch.msg.size \in Nat /\ orch.msg.offset \in Offsets
      BY <1>1 DEF Messages
    <3>3. pending[d].received + orch.msg.size \in Nat
          /\ pending[d].allocations \cup {orch.msg.offset} \in SUBSET Offsets
      BY <3>1, <3>2
    <3> QED
      BY <3>3
  <2>3. outbox' = outbox /\ orch.at = "found" /\ UNCHANGED <<client_of, granted>>
    BY <1>5 DEF Deliver, socketVars, historyVars
  <2>4. CASE orch' = At("reading", NoMessage)
    BY <2>3, <2>4, <1>1, <1>3, BackedQuiet DEF At
  <2>5. CASE /\ Fits(orch.msg) /\ Complete(d, S)
             /\ orch' = At("send", [orch.msg EXCEPT !.size = n, !.offset = 0, !.ask = pending[d].ask])
    <3>1. PICK i \in Ids : i = pending[d].id /\ i = orch.msg.id
      BY <2>1, <2>3, <2>5 DEF Fits, GuestKept, HandsKept
    <3>3. Recorded(d) + n <= Recorded(d)'
      <4>1. PICK T \in SUBSET Offsets : T = pending[d].allocations
        BY <1>1 DEF Pending
      <4>2. IsFiniteSet(T) /\ Cardinality(T) \in Nat
        BY EphemeraldAssumption, FS_Subset, FS_CardinalityType
      <4>3. Counted(d) /\ orch.msg.size = Granularity /\ <<i, orch.msg.offset>> \in granted
        <5>1. pending[d].id # -1
          BY <3>1, Numbers
        <5> QED
          BY <5>1, <3>1, <2>3 DEF OriginKept, RouteKept, Flights
      <4>4. orch.msg.offset \notin T /\ pending[d].received = Granularity * Cardinality(T)
            /\ \A o \in S : <<i, o>> \in granted
        BY <4>1, <4>3, <3>1, <2>2, <2>3 DEF Counted
      <4>5. Cardinality(S) = Cardinality(T) + 1
        BY <4>1, <4>2, <4>4, <2>2, FS_AddElement
      <4>6. n = Granularity * Cardinality(S)
        BY <4>2, <4>3, <4>4, <4>5, <2>2, Granules
      <4> QED
        BY <4>4, <4>6, <3>1, <2>3, <2>5, <1>1, RecordedMore
    <3>2. orch'.at = "send" /\ orch'.msg.client = d /\ orch'.msg.size = n
      BY <2>1, <2>5, <1>1 DEF At, Messages
    <3> QED
      BY <3>2, <3>3, <2>3, <1>1, <1>3, BackedComplete
  <2> QED
    BY <1>5, <2>1, <2>2, <2>4, <2>5 DEF Deliver
<1>6. CASE SendGrant
  <2>1. PICK d \in Conns : d = orch.msg.client
    BY <1>6 DEF GuestKept, HandsKept, SendGrant
  <2>2. PICK n \in Nat, a \in Asks \cup {0} : n = orch.msg.size /\ a = orch.msg.ask
    BY <1>1 DEF Messages
  <2>3. SendTo(d, n, a) /\ orch.at = "send" /\ orch'.at = "reading"
    BY <1>6, <2>1, <2>2 DEF SendGrant, At
  <2> QED
    BY <2>1, <2>2, <2>3, <1>1, <1>3, BackedSent
<1> QED
  BY <1>4, <1>5, <1>6 DEF OrchestratorThread

(***************************************************************************)
(* The processes' steps.                                                   *)
(***************************************************************************)
LEMMA ProcessBacked ==
  ASSUME GuestKept, TypesKept', BackedKept, Growing, NEW p \in Pids, Process(p)
  PROVE  BackedKept'
<1>1. TypesKept /\ app \in [Pids -> Processes] /\ outbox \in [Conns -> Seq(Answers)]
  BY DEF GuestKept, TypesKept, AppTypes, SocketTypes
<1>2. UNCHANGED <<reader, orch>>
  BY DEF Process, Connect, ProcessEnds, Write, Receive, TimeOut, Drain, daemonVars
<1>3. \A q \in Pids : q # p => app'[q] = app[q]
  BY <1>1 DEF Process, Connect, ProcessEnds, Write, Receive, TimeOut, Drain, ReturnZero
<1>4. \A c \in Conns : SumSizes(outbox[c]) \in Nat /\ Backing(c) \in Nat /\ Recorded(c) \in Nat
  BY <1>1, BackingNat DEF Growing
<1>5. \A c \in Conns : outbox'[c] \in {outbox[c], <<>>}
  BY <1>1 DEF Process, Connect, ProcessEnds, Write, Receive, TimeOut, Drain, socketVars
<1>6. \A c \in Conns : SumSizes(outbox'[c]) \in Nat /\ SumSizes(outbox'[c]) <= SumSizes(outbox[c])
  BY <1>4, <1>5, SumEmpty
<1>7. CASE Connect(p)
  <2>1. PICK d \in Conns : app' = [app EXCEPT ![p].conn = d]
    BY <1>7 DEF Connect
  <2>2. app'[p].conn = d /\ app'[p].got = app[p].got /\ app[p].conn = 0
    BY <2>1, <1>1, <1>7 DEF Connect, Processes
  <2>3. app'[p].got = 0
    BY <2>2 DEF BackedKept
  <2>4. 0 + Backing(d) <= Recorded(d)
    BY <1>4 DEF BackedKept
  <2>5. app'[p].got + SumSizes(outbox'[d]) <= 0 + SumSizes(outbox[d])
    BY <2>3, <1>4, <1>6
  <2> QED
    BY <2>2, <2>4, <2>5, <1>1, <1>2, <1>3, <1>6, BackedProcess
<1>8. CASE ~Connect(p)
  <2>1. app[p].conn # 0
    BY <1>8 DEF Process, ProcessEnds, Write, Receive, TimeOut, Drain, GuestKept, HandsKept
  <2>2. PICK d \in Conns : d = app[p].conn
    BY <2>1, <1>1 DEF Processes
  <2>3. PICK g \in Nat : g = app[p].got
    BY <1>1 DEF Processes
  <2>4. g + Backing(d) <= Recorded(d)
    BY <2>2, <2>3 DEF BackedKept
  <2>5. CASE ProcessEnds(p)
    <3>1. app'[p].conn = 0 /\ app'[p].got = 0
      BY <2>5, <1>1 DEF ProcessEnds, NewProcess
    <3> QED
      BY <3>1, <2>4, <1>1, <1>2, <1>3, <1>6, BackedProcess
  <2>6. CASE Receive(p)
    <3>1. PICK s \in Seq(Answers) : s = outbox[d] /\ s # <<>>
      BY <2>2, <2>6, <1>1 DEF Receive
    <3>2. PICK n : n = Min({Head(s).size, app[p].amount})
      OBVIOUS
    <3>3. app'[p].conn = d /\ app'[p].got = g + n /\ outbox'[d] = <<>>
      BY <3>1, <3>2, <2>2, <2>3, <2>6, <1>1 DEF Receive, Processes
    <3>4. Head(s) \in Answers
      BY <3>1
    <3>5. Head(s).size \in Nat /\ app[p].amount \in Nat
      BY <3>4, <1>1 DEF Answers, Processes
    <3>6. n \in Nat /\ n <= Head(s).size
      <4>1. \A u, v \in Nat : Min({u, v}) \in Nat /\ Min({u, v}) <= u
        <5> SUFFICES ASSUME NEW u \in Nat, NEW v \in Nat PROVE Min({u, v}) \in Nat /\ Min({u, v}) <= u
          OBVIOUS
        <5>1. \E w \in {u, v} : \A y \in {u, v} : w <= y
          OBVIOUS
        <5>2. Min({u, v}) \in {u, v} /\ \A y \in {u, v} : Min({u, v}) <= y
          BY <5>1 DEF Min
        <5> QED
          BY <5>2
      <4> QED
        BY <4>1, <3>2, <3>5
    <3>7. Head(s).size <= SumSizes(s)
      BY <3>1, SumNat
    <3>8. app'[p].got + SumSizes(outbox'[d]) <= g + SumSizes(outbox[d])
      <4>1. \A x, y, z \in Nat : x <= y /\ y <= z => (g + x) + 0 <= g + z
        OBVIOUS
      <4> QED
        BY <4>1, <3>1, <3>3, <3>5, <3>6, <3>7, <1>4, SumEmpty
    <3> QED
      BY <3>3, <3>8, <2>4, <1>1, <1>2, <1>3, <1>6, BackedProcess
  <2>7. CASE Write(p) \/ TimeOut(p) \/ \E n \in Amounts : Drain(p, n)
    <3>1. app'[p].conn = d /\ app'[p].got = g
      BY <2>2, <2>3, <2>7, <1>1 DEF Write, TimeOut, Drain, ReturnZero, Processes
    <3>2. app'[p].got + SumSizes(outbox'[d]) <= g + SumSizes(outbox[d])
      BY <3>1, <1>4, <1>6
    <3> QED
      BY <3>1, <3>2, <2>4, <1>1, <1>2, <1>3, <1>6, BackedProcess
  <2> QED
    BY <1>8, <2>5, <2>6, <2>7 DEF Process
<1> QED
  BY <1>7, <1>8

(***************************************************************************)
(* Every step keeps what is on its way recorded.                           *)
(***************************************************************************)
LEMMA NextBacked ==
  ASSUME GuestKept, TypesKept', RouteKept, OriginKept, BackedKept, [Next]_vars PROVE BackedKept'
<1>1. TypesKept /\ 0 \in Threads /\ 0 \notin Conns /\ Growing
  BY ThreadsFinite, Numbers, NextGrowing DEF GuestKept
<1>2. ASSUME NEW c \in Conns, ReaderThread(c), UNCHANGED app PROVE BackedKept'
  BY <1>1, <1>2, ReaderBacked
<1>3. ASSUME UNCHANGED <<reader, orch, app, outbox>> PROVE BackedKept'
  <2>1. OnlyThread(0) /\ Thread(0)' = Thread(0)
    BY <1>3 DEF OnlyThread, Thread
  <2> QED
    BY <2>1, <1>1, <1>3, BackedQuiet
<1>4. ASSUME Listener, UNCHANGED app PROVE BackedKept'
  <2>1. PICK c \in Conns : c = Head(backlog)
    BY <1>4, Oldest DEF GuestKept, TypesKept, Listener, Register, Refuse, Accept
  <2>2. reader[c].at = "none"
    BY <2>1, <1>4, Oldest DEF GuestKept, TypesKept, Listener, Register, Refuse, Accept
  <2>3. reader \in [Conns -> Readers]
    BY <1>1 DEF TypesKept, DaemonTypes
  <2>4. UNCHANGED <<outbox, orch>> /\ reader'[c].at # "send"
        /\ \A d \in Conns : d # c => reader'[d] = reader[d]
    BY <2>1, <2>3, <1>4 DEF Listener, Register, Refuse, Readers
  <2>5. c \in Threads /\ OnlyThread(c) /\ Thread(c) = reader[c] /\ Thread(c)' = reader'[c]
    BY <2>4, <1>1, <1>4, Numbers DEF OnlyThread, Thread, Threads
  <2> QED
    BY <2>2, <2>4, <2>5, <1>1, BackedQuiet
<1>5. CASE Daemon
  BY <1>1, <1>2, <1>4, <1>5, OrchestratorThreadBacked DEF Daemon
<1>6. CASE Orchestrator \/ LinkFails \/ UNCHANGED vars
  BY <1>3, <1>6 DEF Orchestrator, OrchestratorTakes, OrchestratorAnswers, LinkFails, vars,
     daemonVars, socketVars
<1>7. ASSUME NEW p \in Pids, Process(p) PROVE BackedKept'
  BY <1>1, <1>7, ProcessBacked
<1> QED
  BY <1>5, <1>6, <1>7 DEF Next

(***************************************************************************)
(* Every granule that libephmem_reserve returned to a process, or may      *)
(* still return, comes from a grant of its own to a request of that        *)
(* process's connection, and ephemerald has its offset in the client's     *)
(* allocations, also when the offset was granted before.                   *)
(***************************************************************************)
THEOREM ReservedIsBackedAlways == Spec => []ReservedIsBacked
<1>1. Init => RouteKept /\ OriginKept /\ BackedKept
  BY InitRoute, InitOrigin, InitBacked
<1>2. GuestKept /\ GuestKept' /\ RouteKept /\ OriginKept /\ BackedKept /\ [Next]_vars =>
        RouteKept' /\ OriginKept' /\ BackedKept'
  BY NextRoute, NextOrigin, NextBacked DEF GuestKept
<1>3. GuestKept /\ BackedKept => ReservedIsBacked
  <2> SUFFICES ASSUME GuestKept, BackedKept, NEW p \in Pids, app[p].conn # 0
               PROVE  app[p].got + SumSizes(outbox[app[p].conn]) <= Recorded(app[p].conn)
    BY DEF ReservedIsBacked, Recorded
  <2>1. PICK c \in Conns : c = app[p].conn
    BY DEF GuestKept, TypesKept, AppTypes, Processes
  <2>2. app[p].got + Backing(c) <= Recorded(c)
    BY <2>1 DEF BackedKept
  <2>3. SumSizes(outbox[c]) \in Nat /\ Total(OnWay(c)) \in Nat
    BY BackingNat DEF GuestKept
  <2>4. app[p].got \in Nat /\ Recorded(c) \in Nat
    BY RecordedNat DEF GuestKept, TypesKept, AppTypes, Processes
  <2> QED
    BY <2>1, <2>2, <2>3, <2>4 DEF Backing
<1> QED
  BY <1>1, <1>2, <1>3, GuestKeptAlways, PTL DEF Spec

-----------------------------------------------------------------------------
(***************************************************************************)
(* Answers.  A process that never timed out, and has its pid as the first  *)
(* one, has one request in the daemon at a time.                           *)
(***************************************************************************)

(* A process has at most one connection that is open, a reader works for   *)
(* clients of its own pid, and a connection nobody made is unused.         *)
OwnersKept ==
  /\ \A c \in Conns : owner[c] # 0 /\ app[owner[c]].conn # c => c \in closed
  /\ \A c \in Conns : reader[c].at \in Busy => owner[reader[c].msg.client] = owner[c]
  /\ orch.at \in {"found", "send"} => owner[orch.msg.client] # 0
  /\ \A c \in Conns : owner[c] = 0 =>
       inbox[c] = <<>> /\ outbox[c] = <<>> /\ pending[c] = NoRequest

Prompt(p) == app[p].conn # 0 /\ ~app[p].late /\ \A c \in closed : owner[c] # p

Granted(c) == orch.at = "send" /\ orch.msg.client = c

Awaits(p, a) == app[p].at = "waiting" /\ app[p].ask = a

(* The request that p waits for is in one place at a time: in its socket,  *)
(* with its reader, pending, about to be answered, or answered.            *)
Traced(p, c) ==
  /\ inbox[c] # <<>> =>
       /\ Awaits(p, Head(inbox[c]).ask) /\ Tail(inbox[c]) = <<>>
       /\ reader[c].at \notin {"check", "send"} /\ pending[c] = NoRequest
       /\ ~Granted(c) /\ outbox[c] = <<>>
  /\ reader[c].at = "check" =>
       Awaits(p, reader[c].msg.ask) /\ pending[c] = NoRequest /\ ~Granted(c) /\ outbox[c] = <<>>
  /\ pending[c] # NoRequest =>
       Awaits(p, pending[c].ask) /\ reader[c].at # "send" /\ ~Granted(c) /\ outbox[c] = <<>>
  /\ reader[c].at \in {"forward", "deny"} /\ pending[c].id = reader[c].msg.id =>
       pending[c].ask = reader[c].msg.ask
  /\ reader[c].at = "send" =>
       Awaits(p, reader[c].msg.ask) /\ ~Granted(c) /\ outbox[c] = <<>>
  /\ Granted(c) => Awaits(p, orch.msg.ask) /\ outbox[c] = <<>>
  /\ outbox[c] # <<>> => Awaits(p, Head(outbox[c]).ask)

TraceKept == \A p \in Pids : Prompt(p) => Traced(p, app[p].conn)

(***************************************************************************)
(* The step of a reader keeps whom it works for.                           *)
(***************************************************************************)
LEMMA ReaderOwners ==
  ASSUME GuestKept, OwnersKept, NEW r \in Conns, ReaderThread(r), UNCHANGED app
  PROVE  OwnersKept'
<1>1. /\ reader \in [Conns -> Readers] /\ pending \in [Conns -> Pending]
      /\ outbox \in [Conns -> Seq(Answers)] /\ inbox \in [Conns -> Seq(Written)]
      /\ owner \in [Conns -> Pids \cup {0}] /\ clients \in [Pids -> Conns \cup {0}]
      /\ HandsKept /\ ConnectionsKept
  BY DEF GuestKept, TypesKept, DaemonTypes, SocketTypes
<1>2. UNCHANGED <<orch, owner, closed>> /\ reader[r].at # "none"
      /\ \A d \in Conns : d # r => reader'[d] = reader[d]
  BY <1>1 DEF ReaderThread, ReadRequest, CheckPending, Forward, Deny, SendDenial, Close, Reading,
     socketVars
<1>3. owner[r] \in Pids /\ owner[r] # 0
  BY <1>1, <1>2, Numbers DEF ConnectionsKept
<1>4. reader'[r].at \in Busy => owner[reader'[r].msg.client] = owner[r]
  <2>1. CASE ReadRequest(r)
    <3>1. Target(r) # 0 => owner[Target(r)] = owner[r]
      BY <1>1, <1>3 DEF Target, ConnectionsKept
    <3>2. reader' = reader \/ (Target(r) # 0 /\ reader'[r].msg.client = Target(r))
      BY <2>1, <1>1 DEF ReadRequest, At
    <3> QED
      BY <3>1, <3>2 DEF OwnersKept
  <2>2. CASE ~ReadRequest(r)
    <3>1. \/ reader'[r].at \notin Busy
          \/ reader[r].at \in Busy /\ reader'[r].msg.client = reader[r].msg.client
      <4>1. PICK m \in Messages : m = reader[r].msg
        BY <1>1 DEF Readers
      <4>2. \A n : [m EXCEPT !.size = n].client = m.client
        BY DEF Messages
      <4>3. CASE CheckPending(r) \/ Forward(r)
        <5>1. \/ reader' = [reader EXCEPT ![r] = At("reading", NoMessage)]
              \/ \E a \in Busy : reader' = [reader EXCEPT ![r].at = a]
          BY <4>3 DEF CheckPending, Forward, Busy
        <5>2. reader[r].at \in Busy
          BY <4>3 DEF CheckPending, Forward, Busy
        <5>3. PICK x \in Readers : x = reader[r]
          BY <1>1
        <5>4. \A a : [x EXCEPT !.at = a].msg = x.msg
          BY DEF Readers
        <5>5. ASSUME NEW a, reader' = [reader EXCEPT ![r].at = a] PROVE reader'[r].msg = reader[r].msg
          BY <5>3, <5>4, <5>5, <1>1
        <5>6. ASSUME reader' = [reader EXCEPT ![r] = At("reading", NoMessage)]
              PROVE  reader'[r].at \notin Busy
          BY <5>6, <1>1 DEF At, Busy
        <5> QED
          BY <5>1, <5>2, <5>5, <5>6
      <4>4. CASE Deny(r)
        <5>1. \/ reader' = [reader EXCEPT ![r] = At("reading", NoMessage)]
              \/ \E n : reader' = [reader EXCEPT ![r] = At("send", [m EXCEPT !.size = n])]
          BY <4>1, <4>4 DEF Deny
        <5>2. reader[r].at = "deny"
          BY <4>4 DEF Deny
        <5>3. ASSUME reader' = [reader EXCEPT ![r] = At("reading", NoMessage)]
              PROVE  reader'[r].at \notin Busy
          BY <5>3, <1>1 DEF At, Busy
        <5>4. ASSUME NEW n, reader' = [reader EXCEPT ![r] = At("send", [m EXCEPT !.size = n])]
              PROVE  reader'[r].msg.client = m.client
          <6>1. reader'[r] = At("send", [m EXCEPT !.size = n])
            BY <5>4, <1>1
          <6>2. reader'[r].msg = [m EXCEPT !.size = n]
            BY <6>1 DEF At
          <6> QED
            BY <6>2, <4>2
        <5> QED
          BY <4>1, <5>1, <5>2, <5>3, <5>4 DEF Busy
      <4>5. CASE SendDenial(r) \/ Close(r)
        BY <4>5, <1>1 DEF SendDenial, Close, At, Busy, Readers
      <4> QED
        BY <2>2, <4>3, <4>4, <4>5 DEF ReaderThread
    <3> QED
      BY <3>1 DEF OwnersKept
  <2> QED
    BY <2>1, <2>2
<1>5. \A d \in Conns : d # r => inbox'[d] = inbox[d]
  BY <1>1 DEF ReaderThread, ReadRequest, CheckPending, Forward, Deny, SendDenial, Close, socketVars
<1>6. ASSUME NEW d \in Conns, owner[d] = 0 PROVE outbox'[d] = outbox[d] /\ pending'[d] = pending[d]
  <2>1. reader[r].at \in Busy => reader[r].msg.client # d
    BY <1>3, <1>6 DEF OwnersKept
  <2> QED
    BY <2>1, <1>1 DEF ReaderThread, ReadRequest, CheckPending, Forward, Deny, SendDenial, Close,
       socketVars, Complete, SendTo, Busy
<1> QED
  BY <1>2, <1>3, <1>4, <1>5, <1>6 DEF OwnersKept

(***************************************************************************)
(* So does the reader of the orchestrator connection.                      *)
(***************************************************************************)
LEMMA OrchestratorThreadOwners ==
  ASSUME GuestKept, OwnersKept, OrchestratorThread, UNCHANGED app
  PROVE  OwnersKept'
<1>1. /\ pending \in [Conns -> Pending] /\ outbox \in [Conns -> Seq(Answers)]
      /\ orch \in [at : {"reading", "found", "send"}, msg : Messages]
      /\ clients \in [Pids -> Conns \cup {0}] /\ HandsKept /\ ConnectionsKept
  BY DEF GuestKept, TypesKept, DaemonTypes, SocketTypes
<1>2. UNCHANGED <<reader, owner, closed, inbox>>
  BY DEF OrchestratorThread, DaxFails, FindClient, Deliver, SendGrant, LoseOrchestrator, daemonVars,
     socketVars
<1>3. orch'.at \in {"found", "send"} => owner[orch'.msg.client] # 0
  <2>1. CASE FindClient
    <3>1. \/ orch' = orch
          \/ \E d \in Conns : Registered(d) /\ orch'.msg.client = d
      BY <2>1 DEF FindClient, Waiting, At
    <3>2. \A d \in Conns : Registered(d) => owner[d] # 0
      BY <1>1, Numbers DEF Registered, ConnectionsKept
    <3> QED
      BY <3>1, <3>2 DEF OwnersKept
  <2>2. CASE Deliver
    <3>1. \/ orch'.at = "reading"
          \/ orch.at = "found" /\ orch'.msg.client = orch.msg.client
      <4>1. PICK m \in Messages : m = orch.msg
        BY <1>1
      <4>2. \A n, a : [m EXCEPT !.size = n, !.offset = 0, !.ask = a].client = m.client
        BY DEF Messages
      <4>3. \/ orch' = At("reading", NoMessage)
            \/ \E n, a : orch' = At("send", [m EXCEPT !.size = n, !.offset = 0, !.ask = a])
        BY <2>2, <4>1 DEF Deliver
      <4>4. orch.at = "found"
        BY <2>2 DEF Deliver
      <4>5. ASSUME NEW n, NEW a, orch' = At("send", [m EXCEPT !.size = n, !.offset = 0, !.ask = a])
            PROVE  orch'.msg.client = m.client
        <5>1. orch'.msg = [m EXCEPT !.size = n, !.offset = 0, !.ask = a]
          BY <4>5 DEF At
        <5> QED
          BY <5>1, <4>2
      <4>6. orch' = At("reading", NoMessage) => orch'.at = "reading"
        BY DEF At
      <4> QED
        BY <4>1, <4>3, <4>4, <4>5, <4>6
    <3> QED
      BY <3>1 DEF OwnersKept
  <2>3. CASE DaxFails \/ SendGrant \/ LoseOrchestrator
    <3>1. orch'.at = "reading" \/ orch' = orch
      BY <2>3 DEF DaxFails, SendGrant, LoseOrchestrator, At, daemonVars
    <3> QED
      BY <3>1 DEF OwnersKept
  <2> QED
    BY <2>1, <2>2, <2>3 DEF OrchestratorThread
<1>4. ASSUME NEW d \in Conns, owner[d] = 0 PROVE outbox'[d] = outbox[d] /\ pending'[d] = pending[d]
  <2>1. orch.at \in {"found", "send"} => orch.msg.client # d
    BY <1>4 DEF OwnersKept
  <2> QED
    BY <2>1, <1>1 DEF OrchestratorThread, DaxFails, FindClient, Deliver, SendGrant, LoseOrchestrator,
       daemonVars, socketVars, Complete, SendTo
<1> QED
  BY <1>2, <1>3, <1>4 DEF OwnersKept

(***************************************************************************)
(* A process has one connection, and writes to that one only.              *)
(***************************************************************************)
LEMMA ProcessOwners ==
  ASSUME GuestKept, OwnersKept, NEW p \in Pids, Process(p)
  PROVE  OwnersKept'
<1>1. /\ app \in [Pids -> Processes] /\ owner \in [Conns -> Pids \cup {0}]
      /\ outbox \in [Conns -> Seq(Answers)] /\ inbox \in [Conns -> Seq(Written)]
      /\ HandsKept /\ ConnectionsKept /\ 0 \notin Pids /\ 0 \notin Conns /\ closed \subseteq Conns
  BY Numbers DEF GuestKept, TypesKept, DaemonTypes, SocketTypes, AppTypes
<1>2. UNCHANGED <<reader, orch, pending>>
  BY DEF Process, Connect, ProcessEnds, Write, Receive, TimeOut, Drain, daemonVars
<1>3. CASE Connect(p)
  <2>1. PICK c \in Conns : /\ owner[c] = 0 /\ owner' = [owner EXCEPT ![c] = p]
                           /\ app' = [app EXCEPT ![p].conn = c]
    BY <1>3 DEF Connect
  <2>2. UNCHANGED <<closed, inbox, outbox>> /\ app[p].conn = 0
    BY <1>3 DEF Connect
  <2>3. /\ app'[p].conn = c /\ \A q \in Pids : q # p => app'[q] = app[q]
        /\ owner'[c] = p /\ \A d \in Conns : d # c => owner'[d] = owner[d]
    BY <2>1, <1>1 DEF Processes
  <2>4. ASSUME NEW d \in Conns, owner'[d] # 0, app'[owner'[d]].conn # d PROVE d \in closed
    <3>1. d # c /\ owner'[d] = owner[d] /\ owner[d] \in Pids
      BY <2>3, <2>4, <1>1
    <3>2. app[owner[d]].conn # d
      BY <3>1, <2>2, <2>3, <2>4, <1>1
    <3> QED
      BY <3>1, <3>2, <2>4 DEF OwnersKept
  <2>5. ASSUME NEW d \in Conns, reader[d].at \in Busy PROVE owner'[reader[d].msg.client] = owner'[d]
    <3>1. owner[d] # 0 /\ owner[reader[d].msg.client] = owner[d] /\ reader[d].msg.client \in Conns
      BY <2>5, <1>1 DEF ConnectionsKept, OwnersKept, HandsKept, Busy
    <3> QED
      BY <3>1, <2>1, <2>3
  <2>6. orch.at \in {"found", "send"} => owner'[orch.msg.client] # 0
    <3>1. orch.at \in {"found", "send"} => orch.msg.client \in Conns /\ owner[orch.msg.client] # 0
      BY <1>1 DEF HandsKept, OwnersKept
    <3> QED
      BY <3>1, <2>3, <1>1
  <2>7. \A d \in Conns : owner'[d] = 0 => owner[d] = 0
    BY <2>3, <1>1
  <2> QED
    BY <1>2, <2>2, <2>4, <2>5, <2>6, <2>7 DEF OwnersKept
<1>4. CASE ProcessEnds(p)
  <2>1. PICK c \in Conns : c = app[p].conn
    BY <1>1, <1>4 DEF ProcessEnds, Processes
  <2>2. /\ closed' = closed \cup {c} /\ outbox' = [outbox EXCEPT ![c] = <<>>]
        /\ app' = [app EXCEPT ![p] = NewProcess] /\ UNCHANGED <<owner, inbox>>
    BY <2>1, <1>4 DEF ProcessEnds
  <2>3. app'[p].conn = 0 /\ \A q \in Pids : q # p => app'[q] = app[q]
    BY <2>2, <1>1 DEF NewProcess
  <2>4. ASSUME NEW d \in Conns, owner[d] # 0, app'[owner[d]].conn # d PROVE d \in closed'
    <3>1. owner[d] \in Pids
      BY <2>4, <1>1
    <3>2. CASE owner[d] = p
      BY <2>1, <2>2, <2>4, <3>2 DEF OwnersKept
    <3>3. CASE owner[d] # p
      BY <2>2, <2>3, <2>4, <3>1, <3>3 DEF OwnersKept
    <3> QED
      BY <3>2, <3>3
  <2>5. \A d \in Conns : outbox[d] = <<>> => outbox'[d] = <<>>
    BY <2>2, <1>1
  <2> QED
    BY <1>2, <2>2, <2>4, <2>5 DEF OwnersKept
<1>5. CASE Write(p) \/ Receive(p) \/ TimeOut(p) \/ \E n \in Amounts : Drain(p, n)
  <2>1. app[p].conn \in Conns /\ owner[app[p].conn] = p
    BY <1>1, <1>5 DEF Write, Receive, TimeOut, Drain, HandsKept, ConnectionsKept, Processes
  <2>2. PICK c \in Conns : c = app[p].conn /\ owner[c] = p
    BY <2>1
  <2>3. UNCHANGED <<owner, closed>>
    BY <1>5 DEF Write, Receive, TimeOut, Drain, socketVars
  <2>4. \A q \in Pids : app'[q].conn = app[q].conn
    <3>1. CASE Receive(p)
      <4>1. PICK n : app' = [app EXCEPT ![p].at = "idle", ![p].got = n]
        BY <3>1 DEF Receive
      <4> QED
        BY <4>1, <1>1 DEF Processes
    <3>2. CASE ReturnZero(p)
      BY <3>2, <1>1 DEF ReturnZero, Processes
    <3>7. CASE TimeOut(p)
      <4>1. app' = [app EXCEPT ![p].at = "idle", ![p].late = TRUE]
        BY <3>7 DEF TimeOut
      <4> QED
        BY <4>1, <1>1 DEF Processes
    <3>3. CASE \E a : app' = [app EXCEPT ![p].at = "waiting", ![p].ask = a]
      BY <3>3, <1>1 DEF Processes
    <3>4. CASE \E n : app' = [app EXCEPT ![p].at = "drained", ![p].amount = n]
      BY <3>4, <1>1 DEF Processes
    <3>5. Write(p) => ReturnZero(p) \/ \E a : app' = [app EXCEPT ![p].at = "waiting", ![p].ask = a]
      BY DEF Write
    <3>6. ASSUME NEW n \in Amounts, Drain(p, n)
          PROVE  ReturnZero(p) \/ \E k : app' = [app EXCEPT ![p].at = "drained", ![p].amount = k]
      BY <3>6 DEF Drain
    <3> QED
      BY <3>1, <3>2, <3>3, <3>4, <3>5, <3>6, <3>7, <1>5
  <2>5. \A d \in Conns : d # c => inbox'[d] = inbox[d] /\ outbox'[d] = outbox[d]
    BY <2>2, <1>1, <1>5 DEF Write, Receive, TimeOut, Drain, socketVars
  <2>6. owner[c] # 0 /\ \A d \in Conns : owner[d] # 0 => owner[d] \in Pids
    BY <2>2, <1>1
  <2> QED
    BY <1>2, <2>3, <2>4, <2>5, <2>6 DEF OwnersKept
<1> QED
  BY <1>3, <1>4, <1>5 DEF Process

(***************************************************************************)
(* Connections are made and used as OwnersKept says, from the start on.    *)
(***************************************************************************)
LEMMA InitOwners ==
  ASSUME Init PROVE OwnersKept
<1>1. /\ orch.at = "reading" /\ \A c \in Conns : reader[c].at = "none" /\ owner[c] = 0
      /\ \A c \in Conns : inbox[c] = <<>> /\ outbox[c] = <<>> /\ pending[c] = NoRequest
  BY DEF Init, EphemeraldInit, At
<1> QED
  BY <1>1 DEF OwnersKept, Busy

(***************************************************************************)
(* Every step keeps them so.                                               *)
(***************************************************************************)
LEMMA NextOwners ==
  ASSUME GuestKept, OwnersKept, [Next]_vars PROVE OwnersKept'
<1>1. ASSUME UNCHANGED <<reader, orch, pending, owner, closed, inbox, outbox, app>> PROVE OwnersKept'
  BY <1>1 DEF OwnersKept
<1>2. CASE Daemon /\ Listener
  <2>1. UNCHANGED <<orch, pending, owner, closed, inbox, outbox, app>>
    BY <1>2 DEF Daemon, Listener, Register, Refuse
  <2>2. PICK c \in Conns : c = Head(backlog)
    BY <1>2, Oldest DEF GuestKept, TypesKept, Listener, Register, Refuse, Accept
  <2>3. reader \in [Conns -> Readers]
    BY DEF GuestKept, TypesKept, DaemonTypes
  <2>4. reader'[c].at \notin Busy /\ \A d \in Conns : d # c => reader'[d] = reader[d]
    BY <2>2, <2>3, <1>2 DEF Listener, Register, Refuse, Readers, Busy
  <2> QED
    BY <2>1, <2>4 DEF OwnersKept
<1>3. CASE Daemon /\ OrchestratorThread
  BY <1>3, OrchestratorThreadOwners DEF Daemon
<1>4. CASE Daemon /\ \E c \in Conns : ReaderThread(c)
  BY <1>4, ReaderOwners DEF Daemon
<1>5. CASE Orchestrator \/ LinkFails \/ UNCHANGED vars
  BY <1>1, <1>5 DEF Orchestrator, OrchestratorTakes, OrchestratorAnswers, LinkFails, vars, daemonVars,
     socketVars
<1>6. CASE \E p \in Pids : Process(p)
  BY <1>6, ProcessOwners
<1> QED
  BY <1>2, <1>3, <1>4, <1>5, <1>6 DEF Next, Daemon

(***************************************************************************)
(* The connection of a prompt process is the only one of its pid, so only  *)
(* its own reader works for it.                                            *)
(***************************************************************************)
LEMMA OwnOnly ==
  ASSUME GuestKept, OwnersKept, NEW p \in Pids, Prompt(p)
  PROVE  /\ app[p].conn \in Conns /\ owner[app[p].conn] = p /\ app[p].conn \notin closed
         /\ \A d \in Conns : owner[d] = p => d = app[p].conn
         /\ reader[app[p].conn].at \in Busy => reader[app[p].conn].msg.client = app[p].conn
         /\ \A r \in Conns : reader[r].at \in Busy /\ reader[r].msg.client = app[p].conn =>
              r = app[p].conn
<1>1. /\ app \in [Pids -> Processes] /\ reader \in [Conns -> Readers]
      /\ HandsKept /\ ConnectionsKept /\ 0 \notin Pids
  BY Numbers DEF GuestKept, TypesKept, DaemonTypes, AppTypes
<1>2. PICK c \in Conns : c = app[p].conn
  BY <1>1 DEF Prompt, Processes
<1>3. owner[c] = p /\ c \notin closed
  BY <1>1, <1>2 DEF ConnectionsKept, Prompt
<1>4. \A d \in Conns : owner[d] = p => d = c
  BY <1>1, <1>2 DEF OwnersKept, Prompt
<1>5. \A r \in Conns : reader[r].at \in Busy =>
        owner[reader[r].msg.client] = owner[r] /\ reader[r].msg.client \in Conns
  BY <1>1 DEF OwnersKept, HandsKept
<1> QED
  BY <1>2, <1>3, <1>4, <1>5

(* A step that brings nothing new to connection c. *)
Fewer(c) ==
  /\ inbox'[c] \in {inbox[c], <<>>} /\ outbox'[c] \in {outbox[c], <<>>}
  /\ pending'[c] # NoRequest =>
       pending[c] # NoRequest /\ pending'[c].id = pending[c].id /\ pending'[c].ask = pending[c].ask
  /\ reader'[c].at \in Busy => reader'[c] = reader[c]
  /\ Granted(c)' => Granted(c) /\ orch' = orch

(***************************************************************************)
(* Such a step keeps the trace.                                            *)
(***************************************************************************)
LEMMA TraceFewer ==
  ASSUME HandsKept, NEW p \in Pids, NEW c \in Conns, Traced(p, c), Fewer(c), app'[p] = app[p]
  PROVE  Traced(p, c)'
<1>1. reader[c].at \in Busy => reader[c].msg.id # -1
  BY Numbers DEF HandsKept
<1>2. pending'[c] = NoRequest => pending'[c].id = -1
  BY DEF NoRequest
<1>3. (inbox[c] # <<>>)' =>
        /\ Awaits(p, Head(inbox[c]).ask)' /\ (Tail(inbox[c]) = <<>>)'
        /\ reader'[c].at \notin {"check", "send"} /\ pending'[c] = NoRequest
        /\ ~Granted(c)' /\ outbox'[c] = <<>>
  BY DEF Traced, Fewer, Awaits, Busy
<1>4. reader'[c].at = "check" =>
       Awaits(p, reader[c].msg.ask)' /\ pending'[c] = NoRequest /\ ~Granted(c)' /\ outbox'[c] = <<>>
  BY DEF Traced, Fewer, Awaits, Busy
<1>5. pending'[c] # NoRequest =>
       Awaits(p, pending[c].ask)' /\ reader'[c].at # "send" /\ ~Granted(c)' /\ outbox'[c] = <<>>
  BY DEF Traced, Fewer, Awaits, Busy
<1>6. reader'[c].at \in {"forward", "deny"} /\ pending'[c].id = reader'[c].msg.id =>
       pending'[c].ask = reader'[c].msg.ask
  BY <1>1, <1>2 DEF Traced, Fewer, Busy
<1>7. reader'[c].at = "send" =>
       Awaits(p, reader[c].msg.ask)' /\ ~Granted(c)' /\ outbox'[c] = <<>>
  BY DEF Traced, Fewer, Awaits, Busy
<1>8. Granted(c)' => Awaits(p, orch.msg.ask)' /\ outbox'[c] = <<>>
  BY DEF Traced, Fewer, Awaits
<1>9. outbox'[c] # <<>> => Awaits(p, Head(outbox[c]).ask)'
  BY DEF Traced, Fewer, Awaits
<1> QED
  BY <1>3, <1>4, <1>5, <1>6, <1>7, <1>8, <1>9 DEF Traced

(***************************************************************************)
(* A reader passes the request of its process on.                          *)
(***************************************************************************)
LEMMA ReaderTrace ==
  ASSUME GuestKept, OwnersKept, NEW p \in Pids, NEW c \in Conns, c = app[p].conn, Prompt(p),
         Traced(p, c), NEW r \in Conns, ReaderThread(r), UNCHANGED app
  PROVE  Traced(p, c)'
<1>1. /\ reader \in [Conns -> Readers] /\ pending \in [Conns -> Pending]
      /\ outbox \in [Conns -> Seq(Answers)] /\ inbox \in [Conns -> Seq(Written)]
      /\ owner \in [Conns -> Pids \cup {0}] /\ clients \in [Pids -> Conns \cup {0}] /\ HandsKept
  BY DEF GuestKept, TypesKept, DaemonTypes, SocketTypes
<1>2. /\ reader[c].at \in Busy => reader[c].msg.client = c
      /\ r # c /\ reader[r].at \in Busy => reader[r].msg.client # c
  BY OwnOnly
<1>3. orch' = orch /\ closed' = closed
  BY DEF ReaderThread, ReadRequest, CheckPending, Forward, Deny, SendDenial, Close, socketVars
<1>4. Granted(c)' <=> Granted(c)
  BY <1>3 DEF Granted
<1>5. NoRequest.id = -1 /\ \A i \in Ids : i # -1
  BY Numbers DEF NoRequest
<1>6. CASE r # c
  <2>1. inbox'[c] = inbox[c] /\ reader'[c] = reader[c]
    BY <1>1, <1>6 DEF ReaderThread, ReadRequest, CheckPending, Forward, Deny, SendDenial, Close,
       socketVars
  <2>2. outbox'[c] = outbox[c] /\ pending'[c] = pending[c]
    BY <1>1, <1>2, <1>6 DEF ReaderThread, ReadRequest, CheckPending, Forward, Deny, SendDenial, Close,
       socketVars, Complete, SendTo, Busy
  <2>3. Fewer(c)
    BY <2>1, <2>2, <1>3, <1>4 DEF Fewer
  <2> QED
    BY <2>3, <1>1, TraceFewer
<1>7. CASE r = c /\ ReadRequest(c)
  <2>1. /\ inbox[c] # <<>> /\ inbox'[c] = Tail(inbox[c]) /\ UNCHANGED <<pending, outbox>>
        /\ \/ reader'[c] = reader[c]
           \/ reader'[c].at = "check" /\ reader'[c].msg.ask = Head(inbox[c]).ask
        /\ reader[c].at = "reading"
    BY <1>1, <1>7 DEF ReadRequest, Reading, At
  <2>2. /\ Awaits(p, Head(inbox[c]).ask) /\ inbox'[c] = <<>> /\ pending[c] = NoRequest
        /\ ~Granted(c) /\ outbox[c] = <<>>
    BY <2>1 DEF Traced
  <2>3. ASSUME reader'[c].at = "check" /\ reader'[c].msg.ask = Head(inbox[c]).ask
        PROVE  Awaits(p, reader[c].msg.ask)'
    BY <2>2, <2>3 DEF Awaits
  <2> QED
    BY <2>1, <2>2, <2>3, <1>4 DEF Traced
<1>8. CASE r = c /\ CheckPending(c)
  <2>1. /\ reader[c].at = "check" /\ reader[c].msg.client = c /\ UNCHANGED <<inbox, outbox>>
    BY <1>2, <1>8 DEF CheckPending, Busy, socketVars
  <2>2. /\ Awaits(p, reader[c].msg.ask) /\ pending[c] = NoRequest
        /\ ~Granted(c) /\ outbox[c] = <<>> /\ inbox[c] = <<>>
    BY <2>1 DEF Traced
  <2>3. pending'[c].ask = reader[c].msg.ask /\ reader'[c].at = "forward"
        /\ reader'[c].msg = reader[c].msg
    <3>1. PICK x \in Readers : x = reader[c]
      BY <1>1
    <3>2. [x EXCEPT !.at = "forward"].at = "forward" /\ [x EXCEPT !.at = "forward"].msg = x.msg
      BY DEF Readers
    <3>3. reader' = [reader EXCEPT ![c].at = "forward"]
      BY <2>1, <2>2, <1>8 DEF CheckPending, HasPending
    <3>4. reader'[c] = [x EXCEPT !.at = "forward"]
      BY <3>1, <3>3, <1>1
    <3>5. pending' = [pending EXCEPT ![c] = [id |-> x.msg.id, requested |-> x.msg.size, received |-> 0,
                                             allocations |-> {}, ask |-> x.msg.ask]]
      BY <3>1, <2>1, <2>2, <1>8 DEF CheckPending, HasPending
    <3>6. pending'[c].ask = x.msg.ask
      BY <3>5, <1>1
    <3> QED
      BY <3>1, <3>2, <3>4, <3>6
  <2>4. Awaits(p, pending[c].ask)'
    BY <2>2, <2>3 DEF Awaits
  <2> QED
    BY <2>1, <2>2, <2>3, <2>4, <1>4 DEF Traced
<1>9. CASE r = c /\ Forward(c)
  <2>1. UNCHANGED <<inbox, outbox, pending>> /\ reader[c].at = "forward"
    BY <1>9 DEF Forward, socketVars
  <2>2. CASE reader' = [reader EXCEPT ![c] = At("reading", NoMessage)]
    <3>1. reader'[c].at = "reading"
      BY <2>2, <1>1 DEF At
    <3>2. Fewer(c)
      BY <3>1, <2>1, <1>3, <1>4 DEF Fewer, Busy
    <3> QED
      BY <3>2, <1>1, TraceFewer
  <2>3. CASE reader' = [reader EXCEPT ![c].at = "deny"]
    <3>1. PICK x \in Readers : x = reader[c]
      BY <1>1
    <3>2. [x EXCEPT !.at = "deny"].at = "deny" /\ [x EXCEPT !.at = "deny"].msg = x.msg
      BY DEF Readers
    <3>3. reader'[c] = [x EXCEPT !.at = "deny"]
      BY <2>3, <3>1, <1>1
    <3>4. reader'[c].at = "deny" /\ reader'[c].msg = reader[c].msg
      BY <3>1, <3>2, <3>3
    <3> QED
      BY <3>4, <2>1, <1>3, <1>4 DEF Traced, Awaits
  <2> QED
    BY <2>2, <2>3, <1>9 DEF Forward
<1>10. CASE r = c /\ Deny(c)
  <2>1. /\ reader[c].at = "deny" /\ reader[c].msg.client = c /\ reader[c].msg.id \in Ids
        /\ UNCHANGED <<inbox, outbox>>
    BY <1>1, <1>2, <1>10 DEF Deny, Busy, socketVars, HandsKept
  <2>2. CASE pending[c].id # reader[c].msg.id
    <3>1. reader'[c].at = "reading" /\ pending' = pending
      BY <2>1, <2>2, <1>1, <1>10 DEF Deny, At
    <3>2. Fewer(c)
      BY <3>1, <2>1, <1>3, <1>4 DEF Fewer, Busy
    <3> QED
      BY <3>2, <1>1, TraceFewer
  <2>3. CASE pending[c].id = reader[c].msg.id
    <3>1. pending[c] # NoRequest /\ pending[c].ask = reader[c].msg.ask
      BY <2>1, <2>3, <1>5 DEF Traced
    <3>2. Awaits(p, reader[c].msg.ask) /\ ~Granted(c) /\ outbox[c] = <<>> /\ inbox[c] = <<>>
      BY <3>1 DEF Traced
    <3>3. pending'[c] = NoRequest
      BY <2>1, <2>3, <1>1, <1>10 DEF Deny, Complete
    <3>4. reader'[c].at = "send" /\ reader'[c].msg.ask = reader[c].msg.ask
      <4>1. PICK m \in Messages : m = reader[c].msg
        BY <1>1 DEF Readers
      <4>2. PICK n : reader' = [reader EXCEPT ![c] = At("send", [m EXCEPT !.size = n])]
        BY <4>1, <2>1, <2>3, <1>10 DEF Deny
      <4>3. reader'[c] = At("send", [m EXCEPT !.size = n]) /\ [m EXCEPT !.size = n].ask = m.ask
        BY <4>2, <1>1 DEF Messages
      <4>4. reader'[c].at = "send" /\ reader'[c].msg = [m EXCEPT !.size = n]
        BY <4>3 DEF At
      <4> QED
        BY <4>1, <4>3, <4>4
    <3>5. Awaits(p, reader[c].msg.ask)'
      BY <3>2, <3>4 DEF Awaits
    <3> QED
      BY <3>2, <3>3, <3>4, <3>5, <2>1, <1>4 DEF Traced
  <2> QED
    BY <2>2, <2>3
<1>11. CASE r = c /\ SendDenial(c)
  <2>1. /\ reader[c].at = "send" /\ reader[c].msg.client = c /\ UNCHANGED <<inbox, pending>>
    BY <1>2, <1>11 DEF SendDenial, Busy
  <2>2. /\ Awaits(p, reader[c].msg.ask) /\ ~Granted(c) /\ outbox[c] = <<>>
        /\ inbox[c] = <<>> /\ pending[c] = NoRequest
    BY <2>1 DEF Traced
  <2>3. reader'[c].at = "reading"
    BY <1>1, <1>11 DEF SendDenial, At
  <2>4. outbox'[c] = <<>> \/ Head(outbox'[c]).ask = reader[c].msg.ask
    <3>1. PICK n, a : n = reader[c].msg.size /\ a = reader[c].msg.ask
      OBVIOUS
    <3>2. outbox'[c] \in {<<>>, Append(<<>>, [size |-> n, ask |-> a])}
      BY <3>1, <2>1, <2>2, <1>1, <1>11 DEF SendDenial, SendTo
    <3>3. Head(Append(<<>>, [size |-> n, ask |-> a])) = [size |-> n, ask |-> a]
      OBVIOUS
    <3>4. Head(Append(<<>>, [size |-> n, ask |-> a])).ask = a
      BY <3>3
    <3> QED
      BY <3>1, <3>2, <3>4
  <2>5. outbox'[c] # <<>> => Awaits(p, Head(outbox[c]).ask)'
    BY <2>2, <2>4 DEF Awaits
  <2> QED
    BY <2>1, <2>2, <2>3, <2>5, <1>4 DEF Traced
<1>12. CASE r = c /\ Close(c)
  <2>1. UNCHANGED <<inbox, outbox, pending>> /\ reader'[c].at = "done"
    BY <1>1, <1>12 DEF Close, socketVars, Readers
  <2>2. Fewer(c)
    BY <2>1, <1>3, <1>4 DEF Fewer, Busy
  <2> QED
    BY <2>2, <1>1, TraceFewer
<1> QED
  BY <1>6, <1>7, <1>8, <1>9, <1>10, <1>11, <1>12 DEF ReaderThread

(***************************************************************************)
(* A response completes the request that is pending, and is then sent.     *)
(***************************************************************************)
LEMMA OrchestratorThreadTrace ==
  ASSUME GuestKept, OwnersKept, NEW p \in Pids, NEW c \in Conns, c = app[p].conn, Prompt(p),
         Traced(p, c), OrchestratorThread, UNCHANGED app
  PROVE  Traced(p, c)'
<1>1. /\ pending \in [Conns -> Pending] /\ outbox \in [Conns -> Seq(Answers)]
      /\ orch \in [at : {"reading", "found", "send"}, msg : Messages] /\ HandsKept
  BY DEF GuestKept, TypesKept, DaemonTypes, SocketTypes
<1>2. UNCHANGED <<reader, inbox>>
  BY DEF OrchestratorThread, DaxFails, FindClient, Deliver, SendGrant, LoseOrchestrator, daemonVars,
     socketVars
<1>3. PICK m \in Messages : m = orch.msg
  BY <1>1
<1>4. reader[c].at \in Busy => reader[c].msg.id # -1
  BY <1>1, Numbers DEF HandsKept
<1>5. CASE DaxFails \/ FindClient \/ LoseOrchestrator
  <2>1. UNCHANGED <<pending, outbox>> /\ (orch' = orch \/ orch'.at = "found")
    BY <1>5 DEF DaxFails, FindClient, LoseOrchestrator, At, daemonVars, socketVars
  <2>2. Fewer(c)
    BY <2>1, <1>2 DEF Fewer, Granted
  <2> QED
    BY <2>2, <1>1, TraceFewer
<1>6. CASE Deliver
  <2>1. orch.at = "found" /\ m.client \in Conns /\ m.id \in Ids /\ m.id # -1 /\ outbox' = outbox
    BY <1>1, <1>3, <1>6, Numbers DEF Deliver, HandsKept, socketVars
  <2>2. PICK d \in Conns, q \in Pending : d = m.client /\ q = pending[d]
    BY <2>1, <1>1
  <2>3. CASE pending' = pending /\ orch' = At("reading", NoMessage)
    <3>1. Fewer(c)
      BY <2>1, <2>3, <1>2 DEF Fewer, Granted, At
    <3> QED
      BY <3>1, <1>1, TraceFewer
  <2>4. ASSUME NEW n, NEW S, q.id = m.id,
               pending' = [pending EXCEPT ![d] = [q EXCEPT !.received = n, !.allocations = S]],
               orch' = At("reading", NoMessage)
        PROVE  Traced(p, c)'
    <3>1. [q EXCEPT !.received = n, !.allocations = S].id = q.id /\ [q EXCEPT !.received = n, !.allocations = S].ask = q.ask
      BY DEF Pending
    <3>2. pending'[d] = [q EXCEPT !.received = n, !.allocations = S] /\ \A e \in Conns : e # d => pending'[e] = pending[e]
      BY <2>2, <2>4, <1>1
    <3>3. q # NoRequest
      BY <2>1, <2>4 DEF NoRequest
    <3>4. pending'[c] # NoRequest => pending[c] # NoRequest /\ pending'[c].id = pending[c].id
                                     /\ pending'[c].ask = pending[c].ask
      BY <3>1, <3>2, <3>3, <2>2
    <3>5. Fewer(c)
      BY <3>4, <2>1, <2>4, <1>2 DEF Fewer, Granted, At
    <3> QED
      BY <3>5, <1>1, TraceFewer
  <2>5. ASSUME NEW n, pending' = [pending EXCEPT ![d] = NoRequest], q.id = m.id,
               orch' = At("send", [m EXCEPT !.size = n, !.offset = 0, !.ask = q.ask])
        PROVE  Traced(p, c)'
    <3>1. [m EXCEPT !.size = n, !.offset = 0, !.ask = q.ask].client = m.client
          /\ [m EXCEPT !.size = n, !.offset = 0, !.ask = q.ask].ask = q.ask
      BY DEF Messages
    <3>2. orch'.at = "send" /\ orch'.msg = [m EXCEPT !.size = n, !.offset = 0, !.ask = q.ask]
      BY <2>5 DEF At
    <3>3. orch'.at = "send" /\ orch'.msg.client = d /\ orch'.msg.ask = q.ask
      BY <3>1, <3>2, <2>2
    <3>4. CASE d # c
      <4>1. pending'[c] = pending[c] /\ ~Granted(c)'
        BY <3>3, <3>4, <2>5, <1>1 DEF Granted
      <4>2. Fewer(c)
        BY <4>1, <2>1, <1>2 DEF Fewer
      <4> QED
        BY <4>2, <1>1, TraceFewer
    <3>5. CASE d = c
      <4>1. pending[c] # NoRequest
        BY <3>5, <2>1, <2>2, <2>5 DEF NoRequest
      <4>2. /\ Awaits(p, pending[c].ask) /\ reader[c].at \notin {"check", "send"}
            /\ outbox[c] = <<>> /\ inbox[c] = <<>>
        BY <4>1 DEF Traced
      <4>3. pending'[c] = NoRequest /\ pending'[c].id = -1
        BY <3>5, <2>5, <1>1 DEF NoRequest
      <4>4. Awaits(p, orch.msg.ask)'
        BY <4>2, <3>3, <3>5, <2>2 DEF Awaits
      <4> QED
        BY <4>2, <4>3, <4>4, <2>1, <1>2, <1>4 DEF Traced, Busy
    <3> QED
      BY <3>4, <3>5
  <2>6. CASE ~Fits(m)
    BY <2>3, <2>6, <1>3, <1>6 DEF Deliver
  <2>7. CASE Fits(m) /\ AwaitsMore(m)
    <3>1. /\ q.id = m.id /\ orch' = At("reading", NoMessage)
          /\ pending' = [pending EXCEPT ![d] =
               [q EXCEPT !.received = q.received + m.size, !.allocations = q.allocations \cup {m.offset}]]
      BY <2>2, <2>7, <1>3, <1>6, ZenonT(30) DEF Deliver, Fits
    <3> QED
      BY <3>1, <2>4
  <2>8. CASE Fits(m) /\ ~AwaitsMore(m)
    <3>1. /\ pending' = [pending EXCEPT ![d] = NoRequest] /\ q.id = m.id
          /\ orch' = At("send", [m EXCEPT !.size = q.received + m.size, !.offset = 0, !.ask = q.ask])
      BY <2>2, <2>8, <1>3, <1>6 DEF Deliver, Complete, Fits
    <3> QED
      BY <3>1, <2>5
  <2> QED
    BY <2>6, <2>7, <2>8
<1>7. CASE SendGrant
  <2>1. orch.at = "send" /\ orch'.at = "reading" /\ pending' = pending /\ m.client \in Conns
    BY <1>1, <1>3, <1>7 DEF SendGrant, At, HandsKept
  <2>2. CASE m.client # c
    <3>1. outbox'[c] = outbox[c]
      BY <2>1, <2>2, <1>1, <1>3, <1>7 DEF SendGrant, SendTo
    <3>2. Fewer(c)
      BY <3>1, <2>1, <1>2 DEF Fewer, Granted
    <3> QED
      BY <3>2, <1>1, TraceFewer
  <2>3. CASE m.client = c
    <3>1. Granted(c)
      BY <2>1, <2>3, <1>3 DEF Granted
    <3>2. /\ Awaits(p, m.ask) /\ outbox[c] = <<>> /\ inbox[c] = <<>> /\ pending[c] = NoRequest
          /\ reader[c].at \notin {"check", "send"}
      BY <3>1, <1>3 DEF Traced
    <3>3. outbox'[c] \in {<<>>, Append(<<>>, [size |-> m.size, ask |-> m.ask])}
      BY <3>2, <2>3, <1>1, <1>3, <1>7 DEF SendGrant, SendTo
    <3>4. PICK n, a : n = m.size /\ a = m.ask
      OBVIOUS
    <3>5. Head(Append(<<>>, [size |-> n, ask |-> a])) = [size |-> n, ask |-> a]
      OBVIOUS
    <3>6. Head(Append(<<>>, [size |-> n, ask |-> a])).ask = a
      BY <3>5
    <3>7. outbox'[c] # <<>> => Awaits(p, Head(outbox[c]).ask)'
      BY <3>2, <3>3, <3>4, <3>6 DEF Awaits
    <3>8. pending[c].id = -1 /\ ~Granted(c)'
      BY <3>2, <2>1 DEF NoRequest, Granted
    <3> QED
      BY <3>2, <3>7, <3>8, <2>1, <1>2, <1>4 DEF Traced, Busy
  <2> QED
    BY <2>2, <2>3
<1> QED
  BY <1>5, <1>6, <1>7 DEF OrchestratorThread

(***************************************************************************)
(* A process asks when all its earlier requests are answered, and a new    *)
(* connection brings none.                                                 *)
(***************************************************************************)
LEMMA ProcessTrace ==
  ASSUME GuestKept, OwnersKept, TraceKept, NEW q \in Pids, Process(q), NEW p \in Pids, Prompt(p)',
         NEW c \in Conns, app'[p].conn = c
  PROVE  Traced(p, c)'
<1>1. /\ app \in [Pids -> Processes] /\ owner \in [Conns -> Pids \cup {0}]
      /\ outbox \in [Conns -> Seq(Answers)] /\ inbox \in [Conns -> Seq(Written)]
      /\ HandsKept /\ ConnectionsKept /\ 0 \notin Pids /\ 0 \notin Conns /\ closed \subseteq Conns
  BY Numbers DEF GuestKept, TypesKept, DaemonTypes, SocketTypes, AppTypes
<1>2. UNCHANGED <<reader, orch, pending>>
  BY DEF Process, Connect, ProcessEnds, Write, Receive, TimeOut, Drain, daemonVars
<1>3. Granted(c)' <=> Granted(c)
  BY <1>2 DEF Granted
<1>4. ASSUME app'[p] = app[p], closed \subseteq closed',
             \A d \in closed : owner'[d] = owner[d],
             inbox'[c] = inbox[c], outbox'[c] \in {outbox[c], <<>>}
      PROVE  Traced(p, c)'
  <2>1. Prompt(p)
    BY <1>4 DEF Prompt
  <2>2. Traced(p, c)
    BY <2>1, <1>4 DEF TraceKept
  <2>3. Fewer(c)
    BY <1>2, <1>3, <1>4 DEF Fewer
  <2> QED
    BY <2>2, <2>3, <1>1, <1>4, TraceFewer
<1>5. CASE Connect(q)
  <2>1. PICK e \in Conns : /\ owner[e] = 0 /\ owner' = [owner EXCEPT ![e] = q]
                           /\ app' = [app EXCEPT ![q].conn = e]
    BY <1>5 DEF Connect
  <2>2. UNCHANGED <<closed, inbox, outbox>>
    BY <1>5 DEF Connect
  <2>3. CASE p = q
    <3>1. c = e
      BY <2>1, <2>3, <1>1 DEF Processes
    <3>2. inbox[c] = <<>> /\ outbox[c] = <<>> /\ pending[c] = NoRequest
      BY <3>1, <2>1 DEF OwnersKept
    <3>3. reader[c].at = "none" /\ ~Granted(c)
      BY <3>1, <2>1, <1>1 DEF ConnectionsKept, OwnersKept, Granted
    <3> QED
      BY <3>2, <3>3, <2>2, <1>2, <1>3 DEF Traced
  <2>4. CASE p # q
    <3>1. app'[p] = app[p]
      BY <2>1, <2>4, <1>1
    <3>2. \A d \in closed : owner'[d] = owner[d]
      BY <2>1, <1>1 DEF ConnectionsKept
    <3> QED
      BY <3>1, <3>2, <2>2, <1>4
  <2> QED
    BY <2>3, <2>4
<1>6. CASE ProcessEnds(q)
  <2>1. /\ closed \subseteq closed' /\ app' = [app EXCEPT ![q] = NewProcess]
        /\ UNCHANGED <<owner, inbox>>
    BY <1>6 DEF ProcessEnds
  <2>2. p # q
    BY <2>1, <1>1 DEF NewProcess
  <2>3. app'[p] = app[p]
    BY <2>1, <2>2, <1>1
  <2>4. outbox'[c] \in {outbox[c], <<>>}
    BY <1>1, <1>6 DEF ProcessEnds
  <2> QED
    BY <2>1, <2>3, <2>4, <1>4
<1>7. CASE Write(q) \/ Receive(q) \/ TimeOut(q) \/ \E n \in Amounts : Drain(q, n)
  <2>1. UNCHANGED <<owner, closed>>
    BY <1>7 DEF Write, Receive, TimeOut, Drain, socketVars
  <2>2. app[q].conn # 0
    BY <1>1, <1>7 DEF Write, Receive, TimeOut, Drain, HandsKept
  <2>3. PICK e \in Conns : e = app[q].conn /\ owner[e] = q
    BY <2>2, <1>1 DEF Processes, ConnectionsKept
  <2>4. CASE p # q
    <3>1. app'[p] = app[p]
      BY <2>4, <1>1, <1>7 DEF Write, Receive, TimeOut, Drain, ReturnZero
    <3>2. owner[c] = p
      BY <3>1, <1>1 DEF ConnectionsKept
    <3>3. inbox'[c] = inbox[c] /\ outbox'[c] = outbox[c]
      BY <3>2, <2>3, <2>4, <1>1, <1>7 DEF Write, Receive, TimeOut, Drain, socketVars
    <3> QED
      BY <3>1, <3>3, <2>1, <1>4
  <2>5. ASSUME p = q, app'[p].conn = app[p].conn, app'[p].late = app[p].late
        PROVE  Traced(p, c) /\ c = e
    <3>1. Prompt(p)
      BY <2>1, <2>5 DEF Prompt
    <3> QED
      BY <3>1, <2>3, <2>5 DEF TraceKept
  <2>6. ASSUME Traced(p, c), app[p].at # "waiting"
        PROVE  /\ inbox[c] = <<>> /\ outbox[c] = <<>> /\ pending[c] = NoRequest
               /\ reader[c].at \notin {"check", "send"} /\ ~Granted(c)
    BY <2>6 DEF Traced, Awaits
  <2>7. reader[c].at \in Busy => reader[c].msg.id # -1
    BY <1>1, Numbers DEF HandsKept
  <2>8. ASSUME /\ inbox'[c] = <<>> /\ outbox'[c] = <<>> /\ pending[c] = NoRequest
               /\ reader[c].at \notin {"check", "send"} /\ ~Granted(c)
        PROVE  Traced(p, c)'
    <3>1. pending'[c].id = -1
      BY <2>8, <1>2 DEF NoRequest
    <3> QED
      BY <3>1, <2>7, <2>8, <1>2, <1>3 DEF Traced, Busy
  <2>9. ASSUME p = q, ReturnZero(p)
        PROVE  app'[p].conn = app[p].conn /\ app'[p].late = app[p].late
    BY <2>9, <1>1 DEF ReturnZero, Processes
  <2>10. CASE p = q /\ Write(q)
    <3>1. app[p].at = "drained" /\ outbox' = outbox
      BY <2>10 DEF Write
    <3>2. CASE ReturnZero(p) /\ inbox' = inbox
      BY <3>1, <3>2, <2>5, <2>6, <2>8, <2>9, <2>10
    <3>3. ASSUME NEW n, NEW a, inbox' = [inbox EXCEPT ![e] = Append(@, [size |-> n, ask |-> a])],
                 app' = [app EXCEPT ![p].at = "waiting", ![p].ask = a]
          PROVE  Traced(p, c)'
      <4>1. /\ app'[p].conn = app[p].conn /\ app'[p].late = app[p].late
            /\ app'[p].at = "waiting" /\ app'[p].ask = a
        BY <3>3, <1>1 DEF Processes
      <4>2. Traced(p, c) /\ c = e
        BY <4>1, <2>5, <2>10
      <4>3. /\ inbox[c] = <<>> /\ outbox[c] = <<>> /\ pending[c] = NoRequest
            /\ reader[c].at \notin {"check", "send"} /\ ~Granted(c)
        BY <4>2, <3>1, <2>6
      <4>4. inbox'[c] = Append(<<>>, [size |-> n, ask |-> a])
        BY <4>2, <4>3, <3>3, <1>1
      <4>5. /\ Head(Append(<<>>, [size |-> n, ask |-> a])) = [size |-> n, ask |-> a]
            /\ Tail(Append(<<>>, [size |-> n, ask |-> a])) = <<>>
        OBVIOUS
      <4>6. Head(inbox'[c]).ask = a /\ Tail(inbox'[c]) = <<>>
        BY <4>4, <4>5
      <4>7. Awaits(p, Head(inbox[c]).ask)'
        BY <4>1, <4>6 DEF Awaits
      <4>8. pending'[c].id = -1
        BY <4>3, <1>2 DEF NoRequest
      <4> QED
        BY <4>3, <4>6, <4>7, <4>8, <3>1, <2>7, <1>2, <1>3 DEF Traced, Busy
    <3> QED
      BY <3>2, <3>3, <2>3, <2>10 DEF Write
  <2>11. CASE p = q /\ Receive(q)
    <3>1. PICK n : app' = [app EXCEPT ![p].at = "idle", ![p].got = n]
      BY <2>11 DEF Receive
    <3>2. app'[p].conn = app[p].conn /\ app'[p].late = app[p].late
      BY <3>1, <1>1 DEF Processes
    <3>3. Traced(p, c) /\ c = e
      BY <3>2, <2>5, <2>11
    <3>4. outbox[c] # <<>> /\ outbox'[c] = <<>> /\ inbox' = inbox
      BY <3>3, <2>3, <2>11, <1>1 DEF Receive
    <3>5. /\ inbox[c] = <<>> /\ pending[c] = NoRequest
          /\ reader[c].at \notin {"check", "send"} /\ ~Granted(c)
      BY <3>3, <3>4 DEF Traced
    <3> QED
      BY <3>4, <3>5, <2>8
  <2>12. CASE p = q /\ TimeOut(q)
    <3>1. app' = [app EXCEPT ![p].at = "idle", ![p].late = TRUE]
      BY <2>12 DEF TimeOut
    <3>2. app'[p].late
      BY <3>1, <1>1 DEF Processes
    <3> QED
      BY <3>2 DEF Prompt
  <2>13. CASE p = q /\ \E n \in Amounts : Drain(q, n)
    <3>1. app[p].at = "idle" /\ inbox' = inbox /\ outbox' = [outbox EXCEPT ![e] = <<>>]
      BY <2>3, <2>13 DEF Drain
    <3>2. app'[p].conn = app[p].conn /\ app'[p].late = app[p].late
      <4>1. CASE \E n : app' = [app EXCEPT ![p].at = "drained", ![p].amount = n]
        BY <4>1, <1>1 DEF Processes
      <4>2. ReturnZero(p) \/ \E n : app' = [app EXCEPT ![p].at = "drained", ![p].amount = n]
        BY <2>13 DEF Drain
      <4> QED
        BY <4>1, <4>2, <2>9, <2>13
    <3>3. Traced(p, c) /\ c = e
      BY <3>2, <2>5, <2>13
    <3>4. outbox'[c] = <<>>
      BY <3>1, <3>3, <1>1
    <3> QED
      BY <3>1, <3>3, <3>4, <2>6, <2>8
  <2> QED
    BY <2>4, <2>10, <2>11, <2>12, <2>13, <1>7
<1> QED
  BY <1>5, <1>6, <1>7 DEF Process

(***************************************************************************)
(* Every step of every thread keeps the trace of every prompt process.     *)
(***************************************************************************)
LEMMA NextTrace ==
  ASSUME GuestKept, OwnersKept, TraceKept, [Next]_vars PROVE TraceKept'
<1> SUFFICES ASSUME NEW p \in Pids, Prompt(p)', NEW c \in Conns, app'[p].conn = c
             PROVE  Traced(p, c)'
  <2>1. app' \in [Pids -> Processes]
    BY NextGuest DEF GuestKept, TypesKept, AppTypes
  <2> QED
    BY <2>1 DEF TraceKept, Traced, Prompt, Processes
<1>1. HandsKept /\ reader \in [Conns -> Readers]
  BY DEF GuestKept, TypesKept, DaemonTypes
<1>2. ASSUME UNCHANGED <<app, owner, closed>>
      PROVE  Prompt(p) /\ c = app[p].conn /\ Traced(p, c)
  BY <1>2 DEF Prompt, TraceKept
<1>3. CASE Daemon /\ Listener
  <2>1. UNCHANGED <<orch, pending, owner, closed, inbox, outbox, app>>
    BY <1>3 DEF Daemon, Listener, Register, Refuse
  <2>2. PICK d \in Conns : d = Head(backlog)
    BY <1>3, Oldest DEF GuestKept, TypesKept, Listener, Register, Refuse, Accept
  <2>3. reader'[d].at \notin Busy /\ \A e \in Conns : e # d => reader'[e] = reader[e]
    BY <2>2, <1>1, <1>3 DEF Listener, Register, Refuse, Readers, Busy
  <2>4. Fewer(c)
    BY <2>1, <2>3 DEF Fewer, Granted
  <2> QED
    BY <2>1, <2>4, <1>1, <1>2, TraceFewer
<1>4. CASE Daemon /\ OrchestratorThread
  <2>1. UNCHANGED <<app, owner, closed>>
    BY <1>4 DEF Daemon, OrchestratorThread, DaxFails, FindClient, Deliver, SendGrant,
       LoseOrchestrator, socketVars
  <2> QED
    BY <2>1, <1>2, <1>4, OrchestratorThreadTrace
<1>5. CASE Daemon /\ \E r \in Conns : ReaderThread(r)
  <2>1. UNCHANGED <<app, owner, closed>>
    BY <1>5 DEF Daemon, ReaderThread, ReadRequest, CheckPending, Forward, Deny, SendDenial, Close,
       socketVars
  <2> QED
    BY <2>1, <1>2, <1>5, ReaderTrace
<1>6. CASE Orchestrator \/ LinkFails \/ UNCHANGED vars
  <2>1. UNCHANGED <<reader, orch, pending, owner, closed, inbox, outbox, app>>
    BY <1>6 DEF Orchestrator, OrchestratorTakes, OrchestratorAnswers, LinkFails, vars, daemonVars,
       socketVars
  <2>2. Fewer(c)
    BY <2>1 DEF Fewer, Granted
  <2> QED
    BY <2>1, <2>2, <1>1, <1>2, TraceFewer
<1>7. CASE \E q \in Pids : Process(q)
  BY <1>7, ProcessTrace
<1> QED
  BY <1>3, <1>4, <1>5, <1>6, <1>7 DEF Next, Daemon

(***************************************************************************)
(* libephmem_reserve takes the answer to the request it wrote, unless the  *)
(* process timed out before or an earlier one had its pid: drained sockets *)
(* and one pending_request per client leave no other answer to it.         *)
(***************************************************************************)
THEOREM AnswerIsOwnAlways == Spec => AnswerIsOwn
<1>1. Init => OwnersKept /\ TraceKept
  <2>1. Init => \A p \in Pids : ~Prompt(p)
    BY DEF Init, NewProcess, Prompt
  <2> QED
    BY <2>1, InitOwners DEF TraceKept
<1>2. GuestKept /\ OwnersKept /\ TraceKept /\ [Next]_vars => OwnersKept' /\ TraceKept'
  BY NextOwners, NextTrace
<1>3. GuestKept /\ TraceKept /\ [Next]_vars =>
        [\A p \in Pids :
           Receive(p) => \/ Head(outbox[app[p].conn]).ask = app[p].ask
                         \/ app[p].late
                         \/ \E c \in closed : owner[c] = p]_vars
  <2> SUFFICES ASSUME GuestKept, TraceKept, NEW p \in Pids, Receive(p), ~app[p].late,
                      \A c \in closed : owner[c] # p
               PROVE  Head(outbox[app[p].conn]).ask = app[p].ask
    OBVIOUS
  <2>1. app[p].conn # 0 /\ outbox[app[p].conn] # <<>>
    BY DEF Receive, GuestKept, HandsKept
  <2>2. Traced(p, app[p].conn)
    BY <2>1 DEF TraceKept, Prompt
  <2> QED
    BY <2>1, <2>2 DEF Traced, Awaits
<1> QED
  BY <1>1, <1>2, <1>3, GuestKeptAlways, PTL DEF Spec, AnswerIsOwn
=============================================================================
