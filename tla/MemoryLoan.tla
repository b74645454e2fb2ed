------------------------------ MODULE MemoryLoan ------------------------------
(***************************************************************************)
(* What the orchestrator promises about one granule of a donor's memory,   *)
(* whatever its threads do: it is lent once, by one region; it is recalled *)
(* at most once; and when it is given up it goes back to its lender        *)
(* exactly once, or is lost because its lender exited or did not answer.   *)
(*                                                                         *)
(* Nothing is said here of threads, locks, maps, guests or events.         *)
(***************************************************************************)
EXTENDS Integers

CONSTANTS
  Regions,           (* where donors lend from                              *)
  MaxRequestSize     (* bound: granules asked for at once                   *)

VARIABLES
  count,     (* granules that consumers asked for                           *)
  phase,     (* how far each of them is                                     *)
  lender,    (* the region that lends it, or 0                              *)
  gone       (* regions whose donor exited                                  *)

loanVars == <<count, phase, lender, gone>>

Ids == 1..count

Init == count = 0 /\ phase = <<>> /\ lender = <<>> /\ gone = {}

Moves(i, from, to) ==
  /\ i \in Ids /\ phase[i] \in from
  /\ phase' = [phase EXCEPT ![i] = to]
  /\ UNCHANGED <<count, gone>>

(* A consumer asks for some more granules. *)
Ask ==
  \E n \in 1..MaxRequestSize :
    /\ count' = count + n
    /\ phase' = [i \in 1..(count + n) |-> IF i \in Ids THEN phase[i] ELSE "asked"]
    /\ lender' = [i \in 1..(count + n) |-> IF i \in Ids THEN lender[i] ELSE 0]
    /\ UNCHANGED gone

(* The consumer gives up before anybody lent the granule. *)
Cancel(i) == Moves(i, {"asked"}, "cancelled") /\ UNCHANGED lender

(* Region r lends it; if it was cancelled meanwhile, it is to go back.      *)
Lend(i, r) ==
  /\ Moves(i, {"asked"}, "lent") \/ Moves(i, {"cancelled"}, "returning")
  /\ lender[i] = 0
  /\ lender' = [lender EXCEPT ![i] = r]

(* The lender wants it back. *)
Recall(i) == Moves(i, {"lent"}, "recalled") /\ UNCHANGED lender

(* Somebody takes it from the consumer, to give it back. *)
GiveUp(i) == Moves(i, {"lent", "recalled"}, "returning") /\ UNCHANGED lender

(* It is taken from the consumer, but its lender is gone. *)
Lose(i) ==
  /\ i \in Ids /\ lender[i] \in gone
  /\ Moves(i, {"lent", "recalled"}, "lost") /\ UNCHANGED lender

(* The granules S of one lender go back to it together, or not at all. *)
Return(S) ==
  /\ S # {} /\ \A i, j \in S : phase[i] = "returning" /\ lender[i] = lender[j]
  /\ \E to \in {"returned", "lost"} :
       phase' = [i \in Ids |-> IF i \in S THEN to ELSE phase[i]]
  /\ UNCHANGED <<count, lender, gone>>

(* The return is booked: the lender may lend the memory again. *)
Settle(i) == Moves(i, {"returned"}, "settled") /\ UNCHANGED lender

(* A donor exits. *)
Leave(S) == gone' = gone \cup S /\ UNCHANGED <<count, phase, lender>>

Next ==
  \/ Ask
  \/ \E i \in Ids : \/ Cancel(i) \/ Recall(i) \/ GiveUp(i) \/ Lose(i) \/ Settle(i)
                    \/ \E r \in Regions : Lend(i, r)
  \/ \E S \in SUBSET Ids : Return(S)
  \/ \E S \in SUBSET Regions : Leave(S)

Spec == Init /\ [][Next]_loanVars
=============================================================================
