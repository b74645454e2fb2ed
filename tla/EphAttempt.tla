----------------------------- MODULE EphAttempt -----------------------------
(***************************************************************************)
(* Handles and attempts of libephmem/libephmem.cpp: ephemeral memory may   *)
(* be revoked at any time, and an access to it then raises SIGBUS.  Inside *)
(* an attempt the library's handler jumps back to libephmem_attempt;       *)
(* anywhere else the process dies.                                         *)
(*                                                                         *)
(* A handle is a mapped file.  The attempt context and the access rights   *)
(* (PKRU) belong to a thread, the disposition of SIGBUS to the process.    *)
(* What a thread does between two accesses to ephemeral memory cannot      *)
(* fault, so entering and leaving an attempt is one step each.             *)
(***************************************************************************)
EXTENDS Integers, Sequences

CONSTANTS
  Threads,      (* threads of the application                               *)
  Handles,      (* libephmem_handles, that is, mapped files of ephmfs       *)
  UsingPkey     (* pkey_alloc succeeded                                     *)

ASSUME AttemptAssumption == UsingPkey \in BOOLEAN

VARIABLES
  ctx,          (* cur_attempt_context of each thread                       *)
  frames,       (* handles whose fn is on the thread's stack, innermost first *)
  rights,       (* threads whose PKRU allows access to ephemeral memory     *)
  allocated,    (* handles made by libephmem_alloc and not freed            *)
  handler,      (* what SIGBUS does: "libephmem" or "default"               *)
  process,      (* "running", "exited" or "killed" by a signal              *)
  revoked       (* external: handles whose memory is gone                   *)

attemptVars == <<ctx, frames, rights, allocated, handler, process, revoked>>

AttemptInit ==
  /\ ctx \in [Threads -> [in_attempt : {FALSE}, handle : Handles]]
  /\ frames = [t \in Threads |-> <<>>]
  /\ rights = IF UsingPkey THEN {} ELSE Threads
  /\ allocated = {} /\ revoked = {}
  /\ handler = "libephmem" /\ process = "running"

(* libephmem_alloc and libephmem_free of handle h.  A handle that is       *)
(* allocated again is a new file.                                          *)
libephmem_alloc(h) ==
  /\ h \notin allocated
  /\ allocated' = allocated \cup {h}
  /\ UNCHANGED <<ctx, frames, rights, handler, process, revoked>>

Free(h) == allocated' = allocated \ {h} /\ revoked' = revoked \ {h}

(***************************************************************************)
(* libephmem_attempt, up to the call of fn.  A thread that is in an        *)
(* attempt already gets -1 and nothing changes.                            *)
(***************************************************************************)
Refused_Never(t) == FALSE

Refused(t) == ctx[t].in_attempt

EnterAttempt_OldHandle(t, h) ==
  /\ h \in allocated /\ ~Refused(t)
  /\ ctx' = [ctx EXCEPT ![t].in_attempt = TRUE]
  /\ frames' = [frames EXCEPT ![t] = <<h>> \o @]
  /\ rights' = rights \cup {t}

EnterAttempt(t, h) ==
  /\ h \in allocated
  /\ IF Refused(t) THEN UNCHANGED <<ctx, frames, rights>>
     ELSE /\ ctx' = [ctx EXCEPT ![t] = [in_attempt |-> TRUE, handle |-> h]]
          /\ frames' = [frames EXCEPT ![t] = <<h>> \o @]
          /\ rights' = rights \cup {t}

(* The end of libephmem_attempt, after fn returned or was jumped out of. *)
LeaveAttempt(t) ==
  /\ ctx' = [ctx EXCEPT ![t].in_attempt = FALSE]
  /\ frames' = [frames EXCEPT ![t] = Tail(@)]
  /\ rights' = IF UsingPkey THEN rights \ {t} ELSE rights

(***************************************************************************)
(* libephmem_sig_handler, for the SIGBUS of an access of thread t to h.    *)
(***************************************************************************)
Recoverable(t, h) ==
  handler = "libephmem" /\ ctx[t].in_attempt /\ ctx[t].handle = h

(* A SIGBUS without a faulting access.  The handler restores the default   *)
(* disposition and returns, so only a second one kills the process.        *)
OtherSigbus ==
  /\ handler' = "default"
  /\ process' = IF handler = "default" THEN "killed" ELSE process
  /\ UNCHANGED <<ctx, frames, rights, allocated, revoked>>

(* An access outside the attempt of h: it is refused by the protection key *)
(* or faults, and either kills the process.                                *)
StrayAccess(t, h) ==
  /\ h \in allocated
  /\ t \notin rights \/ (h \in revoked /\ ~Recoverable(t, h))
  /\ process' = "killed"
  /\ UNCHANGED <<ctx, frames, rights, allocated, handler, revoked>>

(* The hypervisor takes the memory of h away. *)
Revoke(h) ==
  /\ h \in allocated \ revoked
  /\ revoked' = revoked \cup {h}
  /\ UNCHANGED <<ctx, frames, rights, allocated, handler, process>>
=============================================================================
