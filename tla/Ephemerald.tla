----------------------------- MODULE Ephemerald -----------------------------
(***************************************************************************)
(* The daemon of the consumer guest (ephemerald/src): it registers the     *)
(* processes that connect to its socket, forwards their requests to the    *)
(* orchestrator and gives each the memory granted to it.                   *)
(*                                                                         *)
(* A Client has one Connection for its whole life, so it is identified by  *)
(* the connection's number.  Threads: the listener, one reader for each    *)
(* connection, and the reader of the orchestrator's vsock.  A step is what *)
(* a thread does under one lock, or one write to a socket.                 *)
(*                                                                         *)
(* History: requests are numbered as they are written (ask); client_of     *)
(* remembers the client to which the daemon attached a request, granted    *)
(* which offsets the orchestrator granted to which request, and lost the   *)
(* requests whose last response will not come.                             *)
(***************************************************************************)
EXTENDS Integers, Sequences, FiniteSets

CONSTANTS
  Pids,            (* process numbers                                       *)
  MaxConns,        (* bound: connections made in a run                      *)
  MaxAsks,         (* bound: requests written in a run                      *)
  MAX_CLIENTS,
  Granularity,     (* EPH_MEM_DONATION_GRANULARITY                          *)
  Offsets          (* offsets of granules in the VM's DCD                   *)

ASSUME EphemeraldAssumption ==
  /\ Pids \subseteq Nat \ {0} /\ IsFiniteSet(Pids)
  /\ {MaxConns, MaxAsks, MAX_CLIENTS, Granularity} \subseteq Nat \ {0}
  /\ Offsets \subseteq Nat /\ IsFiniteSet(Offsets) /\ 0 \in Offsets

Conns == 1..MaxConns
Asks == 1..MaxAsks
Ids == 0..(MaxAsks - 1)

VARIABLES
  clients,         (* pid -> its client, or 0                               *)
  pending,         (* client -> pending_request                             *)
  allocations,     (* client -> offsets of its allocations                  *)
  reader,          (* connection -> its read thread                         *)
  orch,            (* the read thread of the orchestrator connection        *)
  request_id,      (* REQUEST_ID_COUNTER                                    *)
  daemon,          (* "running" or "exited"                                 *)
  owner,           (* connection -> pid of the process that made it, or 0   *)
  backlog,         (* connections not accepted yet                          *)
  closed,          (* connections the process has closed                    *)
  inbox, outbox,   (* connection -> messages not read yet, to and from ephemerald *)
  requests, responses, link,    (* the vsock to the orchestrator            *)
  client_of, granted, lost

daemonVars == <<clients, pending, allocations, reader, orch, request_id, daemon>>
socketVars == <<owner, backlog, closed, inbox, outbox>>
vsockVars == <<requests, responses, link>>
historyVars == <<client_of, granted, lost>>

NoRequest == [id |-> -1, requested |-> 0, received |-> 0, allocations |-> {}, ask |-> 0]
NoMessage == [client |-> 0, id |-> -1, size |-> 0, offset |-> 0, more |-> FALSE, ask |-> 0]
At(pc, m) == [at |-> pc, msg |-> m]

EphemeraldInit ==
  /\ clients = [p \in Pids |-> 0]
  /\ pending = [c \in Conns |-> NoRequest] /\ allocations = [c \in Conns |-> {}]
  /\ reader = [c \in Conns |-> At("none", NoMessage)] /\ orch = At("reading", NoMessage)
  /\ request_id = 0 /\ daemon = "running"
  /\ owner = [c \in Conns |-> 0] /\ backlog = <<>> /\ closed = {}
  /\ inbox = [c \in Conns |-> <<>>] /\ outbox = [c \in Conns |-> <<>>]
  /\ requests = <<>> /\ responses = <<>> /\ link = "up"
  /\ client_of = [i \in Ids |-> 0] /\ granted = {} /\ lost = {}

(* Threads that hold an Arc<Client>. *)
Held(c) == \/ \E r \in Conns : reader[r].at \in {"check", "forward", "deny", "send"}
                               /\ reader[r].msg.client = c
           \/ orch.at \in {"found", "send"} /\ orch.msg.client = c

Registered(c) == \E p \in Pids : clients[p] = c

(* The last Arc<Client> is gone and Connection::drop has shut the socket down. *)
Dropped(c) == reader[c].at # "none" /\ ~Registered(c) /\ ~Held(c)

(* What the process sees of its connection. *)
ServerClosed(c) == daemon = "exited" \/ Dropped(c)

-----------------------------------------------------------------------------
(***************************************************************************)
(* The listener: register_client replaces the client of the same pid.  A   *)
(* connection is closed again if the list is full or its stream cannot be  *)
(* cloned.                                                                 *)
(***************************************************************************)
Accept ==
  /\ daemon = "running" /\ backlog # <<>>
  /\ backlog' = Tail(backlog)

Full == Cardinality({ p \in Pids : clients[p] # 0 }) >= MAX_CLIENTS

Register ==
  LET c == Head(backlog)
  IN  /\ Accept /\ ~Full
      /\ clients' = [clients EXCEPT ![owner[c]] = c]
      /\ reader' = [reader EXCEPT ![c].at = "reading"]
      /\ UNCHANGED <<pending, allocations, orch, request_id, daemon, owner, closed, inbox,
                     outbox, vsockVars, historyVars>>

Refuse ==
  /\ Accept
  /\ reader' = [reader EXCEPT ![Head(backlog)].at = "done"]
  /\ UNCHANGED <<clients, pending, allocations, orch, request_id, daemon, owner, closed,
                 inbox, outbox, vsockVars, historyVars>>

-----------------------------------------------------------------------------
(***************************************************************************)
(* The reader of connection c.  msg_handler looks the client up by pid,    *)
(* draws a request id and rounds the size up; a size of zero is refused.   *)
(***************************************************************************)
RoundUp(n) == ((n + Granularity - 1) \div Granularity) * Granularity

Reading(c) == daemon = "running" /\ reader[c].at = "reading"

Target_First(c) ==
  LET known == { p \in Pids : clients[p] # 0 }
  IN  IF known = {} THEN 0 ELSE clients[CHOOSE p \in known : \A q \in known : p <= q]

Target(c) == clients[owner[c]]

ReadRequest(c) ==
  /\ Reading(c) /\ inbox[c] # <<>>
  /\ inbox' = [inbox EXCEPT ![c] = Tail(@)]
  /\ LET m == Head(inbox[c])
     IN  IF Target(c) = 0 THEN UNCHANGED <<request_id, reader>>
         ELSE /\ request_id' = request_id + 1
              /\ IF m.size = 0 THEN UNCHANGED reader
                 ELSE reader' = [reader EXCEPT ![c] = At("check",
                        [client |-> Target(c), id |-> request_id, size |-> RoundUp(m.size),
                         offset |-> 0, more |-> FALSE, ask |-> m.ask])]
  /\ UNCHANGED <<clients, pending, allocations, orch, daemon, owner, backlog, closed, outbox,
                 vsockVars, historyVars>>

(***************************************************************************)
(* handle_eph_mem_request: a client has one pending request at a time; a   *)
(* second one is only logged.                                              *)
(***************************************************************************)
HasPending_Never(c) == FALSE

HasPending(c) == pending[c] # NoRequest

CheckPending(c) ==
  LET m == reader[c].msg
  IN  /\ daemon = "running" /\ reader[c].at = "check"
      /\ IF HasPending(m.client)
         THEN /\ reader' = [reader EXCEPT ![c] = At("reading", NoMessage)]
              /\ UNCHANGED <<pending, client_of>>
         ELSE /\ pending' = [pending EXCEPT ![m.client] =
                    [id |-> m.id, requested |-> m.size, received |-> 0, allocations |-> {},
                     ask |-> m.ask]]
              /\ client_of' = [client_of EXCEPT ![m.id] = m.client]
              /\ reader' = [reader EXCEPT ![c].at = "forward"]
      /\ UNCHANGED <<clients, allocations, orch, request_id, daemon, socketVars, vsockVars,
                     granted, lost>>

(* The write to the orchestrator; if it fails, the request is denied. *)
Forward(c) ==
  LET m == reader[c].msg
  IN  /\ daemon = "running" /\ reader[c].at = "forward"
      /\ \/ /\ link = "up"
            /\ requests' = Append(requests, [id |-> m.id, size |-> m.size])
            /\ reader' = [reader EXCEPT ![c] = At("reading", NoMessage)]
         \/ /\ link = "down"
            /\ reader' = [reader EXCEPT ![c].at = "deny"]
            /\ UNCHANGED requests
      /\ UNCHANGED <<clients, pending, allocations, orch, request_id, daemon, socketVars,
                     responses, link, historyVars>>

(***************************************************************************)
(* send_eph_mem_response, up to and after the release of the client's      *)
(* lock.  The allocations of a client are a set ordered by offset alone,   *)
(* so extend drops one whose offset the set already has: that of a granule *)
(* that was revoked, which the daemon is not told, and granted again.      *)
(***************************************************************************)
Complete_Unrecorded(c, offsets) ==
  pending' = [pending EXCEPT ![c] = NoRequest] /\ UNCHANGED allocations

Complete(c, offsets) ==
  /\ pending' = [pending EXCEPT ![c] = NoRequest]
  /\ allocations' = [allocations EXCEPT ![c] = @ \cup offsets]

SendTo(c, size, ask) ==
  outbox' = [outbox EXCEPT ![c] =
               IF c \in closed \/ Dropped(c) THEN @ ELSE Append(@, [size |-> size, ask |-> ask])]

Deny(c) ==
  LET m == reader[c].msg
  IN  /\ daemon = "running" /\ reader[c].at = "deny"
      /\ IF pending[m.client].id # m.id
         THEN /\ reader' = [reader EXCEPT ![c] = At("reading", NoMessage)]
              /\ UNCHANGED <<pending, allocations>>
         ELSE /\ Complete(m.client, pending[m.client].allocations)
              /\ reader' = [reader EXCEPT ![c] =
                    At("send", [m EXCEPT !.size = pending[m.client].received])]
      /\ UNCHANGED <<clients, orch, request_id, daemon, socketVars, vsockVars, historyVars>>

SendDenial(c) ==
  LET m == reader[c].msg
  IN  /\ daemon = "running" /\ reader[c].at = "send"
      /\ SendTo(m.client, m.size, m.ask)
      /\ reader' = [reader EXCEPT ![c] = At("reading", NoMessage)]
      /\ UNCHANGED <<clients, pending, allocations, orch, request_id, daemon, owner, backlog,
                     closed, inbox, vsockVars, historyVars>>

(***************************************************************************)
(* The end of the stream, and the close handler: it removes the client of  *)
(* the pid only if that is still this connection's.                        *)
(***************************************************************************)
IsCurrent_Any(c) == clients[owner[c]] # 0

IsCurrent_Never(c) == FALSE

IsCurrent(c) == clients[owner[c]] = c

Close(c) ==
  /\ Reading(c) /\ inbox[c] = <<>>
  /\ c \in closed \/ Dropped(c)
  /\ clients' = IF IsCurrent(c) THEN [clients EXCEPT ![owner[c]] = 0] ELSE clients
  /\ reader' = [reader EXCEPT ![c].at = "done"]
  /\ UNCHANGED <<pending, allocations, orch, request_id, daemon, socketVars, vsockVars,
                 historyVars>>

-----------------------------------------------------------------------------
(***************************************************************************)
(* The reader of the orchestrator connection.  A response whose device     *)
(* cannot be set up, or that no client waits for, is dropped.              *)
(***************************************************************************)
TakeResponse ==
  /\ daemon = "running" /\ orch.at = "reading" /\ responses # <<>>
  /\ responses' = Tail(responses)

Waiting(c, id) == Registered(c) /\ pending[c].id = id

DaxFails ==
  /\ TakeResponse
  /\ lost' = IF Head(responses).more THEN lost ELSE lost \cup {Head(responses).id}
  /\ UNCHANGED <<daemonVars, socketVars, requests, link, client_of, granted>>

FindClient ==
  LET m == Head(responses)
  IN  /\ TakeResponse
      /\ \/ \E c \in Conns :
              /\ Waiting(c, m.id)
              /\ orch' = At("found", [client |-> c, id |-> m.id, size |-> m.size,
                                      offset |-> m.offset, more |-> m.more, ask |-> 0])
         \/ /\ \A c \in Conns : ~Waiting(c, m.id)
            /\ UNCHANGED orch
      /\ UNCHANGED <<clients, pending, allocations, reader, request_id, daemon, socketVars,
                     requests, link, historyVars>>

(* send_eph_mem_response for a response, which checks the request again. *)
Fits(m) == pending[m.client].id = m.id
             /\ m.size <= pending[m.client].requested - pending[m.client].received

AwaitsMore_Always(m) == TRUE

AwaitsMore(m) == m.more

Deliver ==
  LET m == orch.msg
      req == pending[m.client]
  IN  /\ daemon = "running" /\ orch.at = "found"
      /\ IF ~Fits(m)
         THEN /\ orch' = At("reading", NoMessage)
              /\ UNCHANGED <<pending, allocations>>
         ELSE \/ /\ AwaitsMore(m)
                 /\ pending' = [pending EXCEPT ![m.client].received = @ + m.size,
                                               ![m.client].allocations = @ \cup {m.offset}]
                 /\ orch' = At("reading", NoMessage)
                 /\ UNCHANGED allocations
              \/ /\ ~AwaitsMore(m)
                 /\ Complete(m.client, req.allocations \cup {m.offset})
                 /\ orch' = At("send", [m EXCEPT !.size = req.received + m.size,
                                                 !.offset = 0, !.ask = req.ask])
      /\ UNCHANGED <<clients, reader, request_id, daemon, socketVars, vsockVars, historyVars>>

SendGrant ==
  /\ daemon = "running" /\ orch.at = "send"
  /\ SendTo(orch.msg.client, orch.msg.size, orch.msg.ask)
  /\ orch' = At("reading", NoMessage)
  /\ UNCHANGED <<clients, pending, allocations, reader, request_id, daemon, owner, backlog,
                 closed, inbox, vsockVars, historyVars>>

(* The close handler of the orchestrator connection ends the daemon. *)
LoseOrchestrator ==
  /\ daemon = "running" /\ orch.at = "reading" /\ responses = <<>> /\ link = "down"
  /\ daemon' = "exited"
  /\ UNCHANGED <<clients, pending, allocations, reader, orch, request_id, socketVars,
                 vsockVars, historyVars>>

-----------------------------------------------------------------------------
Listener == Register \/ Refuse

ReaderThread(c) ==
  ReadRequest(c) \/ CheckPending(c) \/ Forward(c) \/ Deny(c) \/ SendDenial(c) \/ Close(c)

OrchestratorThread == DaxFails \/ FindClient \/ Deliver \/ SendGrant \/ LoseOrchestrator
=============================================================================
