----------------------------- MODULE GuestStack -----------------------------
(***************************************************************************)
(* libephmem_reserve (libephmem/libephmem.cpp) in the processes of a guest *)
(* composed with ephemerald and with an orchestrator that grants a request *)
(* in parts or never answers it.                                           *)
(*                                                                         *)
(* ephmem_mutex lets one thread of a process reserve at a time, so a       *)
(* process is one thread.  A process may end at any point, and another one *)
(* may get its pid.                                                        *)
(***************************************************************************)
EXTENDS Ephemerald, FiniteSetsExt

CONSTANTS
  Amounts,         (* arguments of libephmem_reserve                        *)
  SizeMax          (* SIZE_MAX                                              *)

ASSUME GuestAssumption ==
  Amounts \subseteq 0..SizeMax /\ SizeMax \in Nat /\ SizeMax > Granularity

VARIABLES
  app,             (* pid -> its process                                    *)
  asks,            (* requests written so far                               *)
  granting         (* external: the request the orchestrator works on       *)

vars == <<daemonVars, socketVars, vsockVars, historyVars, app, asks, granting>>

(* at is where libephmem_reserve is; got is what it has returned in all;   *)
(* late, that a request of the process timed out.                          *)
NewProcess == [conn |-> 0, at |-> "idle", amount |-> 0, ask |-> 0, got |-> 0, late |-> FALSE]

Init ==
  /\ EphemeraldInit
  /\ app = [p \in Pids |-> NewProcess]
  /\ asks = 0 /\ granting = NoRequest

(* libephmem_init: connect, once in the life of a process. *)
Connect(p) ==
  /\ app[p].conn = 0 /\ daemon = "running"
  /\ \E c \in Conns :
       /\ owner[c] = 0 /\ \A d \in Conns : d < c => owner[d] # 0
       /\ owner' = [owner EXCEPT ![c] = p]
       /\ backlog' = Append(backlog, c)
       /\ app' = [app EXCEPT ![p].conn = c]
  /\ UNCHANGED <<daemonVars, closed, inbox, outbox, vsockVars, historyVars, asks, granting>>

(* The process ends, and its pid is free again. *)
ProcessEnds(p) ==
  /\ app[p].conn # 0
  /\ closed' = closed \cup {app[p].conn}
  /\ outbox' = [outbox EXCEPT ![app[p].conn] = <<>>]
  /\ app' = [app EXCEPT ![p] = NewProcess]
  /\ UNCHANGED <<daemonVars, owner, backlog, inbox, vsockVars, historyVars, asks, granting>>

-----------------------------------------------------------------------------
(***************************************************************************)
(* libephmem_reserve: drain the socket, write the request, wait.           *)
(***************************************************************************)
ReturnZero(p) == app' = [app EXCEPT ![p].at = "idle"]

(* amount + granularity_mask, in size_t, without its low bits. *)
Rounded(n) == (((n + Granularity - 1) % (SizeMax + 1)) \div Granularity) * Granularity

Overflows_Never(n) == FALSE

Overflows(n) == n > SizeMax - (Granularity - 1)

Drain(p, n) ==
  LET c == app[p].conn
  IN  /\ c # 0 /\ app[p].at = "idle"
      /\ n # 0 /\ ~Overflows(n)
      /\ outbox' = [outbox EXCEPT ![c] = <<>>]
      /\ IF ServerClosed(c) THEN ReturnZero(p)
         ELSE app' = [app EXCEPT ![p].at = "drained", ![p].amount = Rounded(n)]
      /\ UNCHANGED <<daemonVars, owner, backlog, closed, inbox, vsockVars, historyVars, asks,
                     granting>>

Write(p) ==
  LET c == app[p].conn
  IN  /\ app[p].at = "drained" /\ asks < MaxAsks
      /\ IF ServerClosed(c) THEN ReturnZero(p) /\ UNCHANGED <<inbox, asks>>
         ELSE /\ asks' = asks + 1
              /\ inbox' = [inbox EXCEPT ![c] =
                             Append(@, [size |-> app[p].amount, ask |-> asks + 1])]
              /\ app' = [app EXCEPT ![p].at = "waiting", ![p].ask = asks + 1]
      /\ UNCHANGED <<daemonVars, owner, backlog, closed, outbox, vsockVars, historyVars,
                     granting>>

(* The first message is the answer, and what was read with it is dropped. *)
Receive(p) ==
  LET c == app[p].conn
  IN  /\ app[p].at = "waiting" /\ outbox[c] # <<>>
      /\ outbox' = [outbox EXCEPT ![c] = <<>>]
      /\ app' = [app EXCEPT ![p].at = "idle",
                   ![p].got = @ + Min({Head(outbox[c]).size, app[p].amount})]
      /\ UNCHANGED <<daemonVars, owner, backlog, closed, inbox, vsockVars, historyVars, asks,
                     granting>>

(* poll finds nothing for a second, or the connection closed. *)
TimeOut(p) ==
  /\ app[p].at = "waiting" /\ outbox[app[p].conn] = <<>>
  /\ app' = [app EXCEPT ![p].at = "idle", ![p].late = TRUE]
  /\ UNCHANGED <<daemonVars, socketVars, vsockVars, historyVars, asks, granting>>

-----------------------------------------------------------------------------
(* The orchestrator works on one request at a time. *)
OrchestratorTakes ==
  /\ link = "up" /\ granting = NoRequest /\ requests # <<>>
  /\ granting' = [NoRequest EXCEPT !.id = Head(requests).id, !.requested = Head(requests).size]
  /\ requests' = Tail(requests)
  /\ UNCHANGED <<daemonVars, socketVars, responses, link, historyVars, app, asks>>

(***************************************************************************)
(* It sends one response for each of k granules, or none at all.  The      *)
(* granules of a request are reserved before the first of them is granted, *)
(* so they are disjoint; the daemon does not look at their order, and here *)
(* it is that of the offsets.  One that was revoked may be granted again   *)
(* to a later request.                                                     *)
(***************************************************************************)
Parts(k, at) == [i \in 1..k |-> [id |-> granting.id, size |-> Granularity,
                                 offset |-> at[i], more |-> i < k]]

OrchestratorAnswers ==
  /\ link = "up" /\ granting # NoRequest
  /\ \E k \in 0..(granting.requested \div Granularity) : \E at \in [1..k -> Offsets] :
       /\ \A i, j \in 1..k : i < j => at[i] < at[j]
       /\ responses' = responses \o Parts(k, at)
       /\ granted' = granted \cup { <<granting.id, at[i]>> : i \in 1..k }
       /\ lost' = IF k = 0 THEN lost \cup {granting.id} ELSE lost
  /\ granting' = NoRequest
  /\ UNCHANGED <<daemonVars, socketVars, requests, link, client_of, app, asks>>

LinkFails ==
  /\ link = "up" /\ link' = "down"
  /\ UNCHANGED <<daemonVars, socketVars, requests, responses, historyVars, app, asks, granting>>

-----------------------------------------------------------------------------
Daemon == /\ Listener \/ OrchestratorThread \/ \E c \in Conns : ReaderThread(c)
          /\ UNCHANGED <<app, asks, granting>>

Process(p) == \/ Connect(p) \/ ProcessEnds(p) \/ Write(p) \/ Receive(p) \/ TimeOut(p)
              \/ \E n \in Amounts : Drain(p, n)

Orchestrator == OrchestratorTakes \/ OrchestratorAnswers

Next == Daemon \/ Orchestrator \/ LinkFails \/ \E p \in Pids : Process(p)

Fairness ==
  /\ WF_vars(Listener /\ UNCHANGED <<app, asks, granting>>)
  /\ WF_vars(OrchestratorThread /\ UNCHANGED <<app, asks, granting>>)
  /\ \A c \in Conns : WF_vars(ReaderThread(c) /\ UNCHANGED <<app, asks, granting>>)
  /\ WF_vars(Orchestrator)

Spec == Init /\ [][Next]_vars

FairSpec == Spec /\ Fairness

-----------------------------------------------------------------------------
Messages == [client : Conns \cup {0}, id : Ids \cup {-1}, size : Nat, offset : Offsets,
             more : BOOLEAN, ask : Asks \cup {0}]

(***************************************************************************)
(* Types of the daemon's and the processes' state.                         *)
(***************************************************************************)
TypeOK ==
  /\ clients \in [Pids -> Conns \cup {0}]
  /\ pending \in [Conns -> [id : Ids \cup {-1}, requested : Nat, received : Nat,
                            allocations : SUBSET Offsets, ask : Asks \cup {0}]]
  /\ allocations \in [Conns -> SUBSET Offsets]
  /\ reader \in [Conns -> [at : {"none", "reading", "check", "forward", "deny", "send", "done"},
                           msg : Messages]]
  /\ orch \in [at : {"reading", "found", "send"}, msg : Messages]
  /\ request_id \in 0..MaxAsks /\ daemon \in {"running", "exited"}
  /\ owner \in [Conns -> Pids \cup {0}] /\ closed \subseteq Conns
  /\ \A c \in Conns : /\ \A i \in DOMAIN outbox[c] : outbox[c][i].size \in Nat
                      /\ \A i \in DOMAIN inbox[c] : inbox[c][i].size \in Nat \ {0}
  /\ link \in {"up", "down"}
  /\ client_of \in [Ids -> Conns \cup {0}] /\ granted \subseteq Ids \X Offsets /\ lost \subseteq Ids
  /\ app \in [Pids -> [conn : Conns \cup {0}, at : {"idle", "drained", "waiting"},
                       amount : Nat, ask : Asks \cup {0}, got : Nat, late : BOOLEAN]]

(* Parts of request i on their way, each of one granule. *)
InFlight(i) ==
  Granularity * (Cardinality({ k \in DOMAIN responses : responses[k].id = i })
                   + (IF orch.at = "found" /\ orch.msg.id = i THEN 1 ELSE 0))

(***************************************************************************)
(* As long as the client is registered, a response to it finds its request *)
(* pending, with room for this and all further parts: requests that were   *)
(* refused, denied or written by others never disturb it, and nothing that *)
(* was granted to a registered client is dropped as unexpected.            *)
(***************************************************************************)
ResponseFindsRequest ==
  \A i \in Ids :
    InFlight(i) > 0 /\ Registered(client_of[i]) =>
      /\ pending[client_of[i]].id = i
      /\ pending[client_of[i]].received + InFlight(i) <= pending[client_of[i]].requested

(* A sum, as the number of units: size[k] of them for each k. *)
Units(size) == UNION { {k} \X (1..size[k]) : k \in DOMAIN size }

SumSizes(s) == Cardinality(Units([k \in DOMAIN s |-> s[k].size]))

(* Granules granted to a request of client c that was completed, and whose *)
(* offset is in the client's allocations.                                  *)
Backed(c) == { g \in granted : /\ client_of[g[1]] = c /\ pending[c].id # g[1]
                               /\ g[2] \in allocations[c] }

(***************************************************************************)
(* Every granule that libephmem_reserve returned to a process, or may      *)
(* still return from the socket, comes from a grant of its own to a        *)
(* request of that connection, and the daemon has its offset among the     *)
(* client's allocations.  The grants are counted, not the entries: after a *)
(* revoke and a second grant of an offset the set has one entry for both.  *)
(***************************************************************************)
ReservedIsBacked ==
  \A p \in Pids : app[p].conn # 0 =>
    LET c == app[p].conn
    IN  app[p].got + SumSizes(outbox[c]) <= Granularity * Cardinality(Backed(c))

(***************************************************************************)
(* A process that is connected stays registered, whatever an earlier       *)
(* process with its pid, or that one's close handler, does.                *)
(***************************************************************************)
StaysRegistered ==
  \A p \in Pids :
    LET c == app[p].conn
    IN  c # 0 /\ reader[c].at \notin {"none", "done"} => clients[p] = c

(***************************************************************************)
(* An answer that libephmem_reserve takes belongs to the request it wrote, *)
(* except after a timeout of the process, or for a request left behind by  *)
(* an earlier process with the same pid.                                   *)
(***************************************************************************)
AnswerIsOwn ==
  [][\A p \in Pids :
       Receive(p) => \/ Head(outbox[app[p].conn]).ask = app[p].ask
                     \/ app[p].late
                     \/ \E c \in closed : owner[c] = p]_vars

(***************************************************************************)
(* A pending request is completed, unless the orchestrator never answered  *)
(* it, the device of its last part could not be set up, or the client or   *)
(* the daemon is gone.                                                     *)
(***************************************************************************)
Stuck(c) == /\ Registered(c) /\ link = "up"
            /\ pending[c] # NoRequest /\ pending[c].id \notin lost

PendingCompletes == \A c \in Conns : []<>(~Stuck(c))

(***************************************************************************)
(* The client of a process that ended is removed from the list.  (The      *)
(* connection stays closed, so this is what leads-to would say.)           *)
(***************************************************************************)
EndedIsForgotten ==
  \A c \in Conns : []<>(c \in closed => ~Registered(c) \/ daemon = "exited")
=============================================================================
