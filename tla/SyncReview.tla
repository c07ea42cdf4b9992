----------------------------- MODULE SyncReview -----------------------------
(***************************************************************************)
(* What reviewing promises a person who settles a conflict, undoes that or *)
(* goes back to an older version: the decision takes effect on the version *)
(* that was looked at, or not at all, and no decision takes effect twice.  *)
(***************************************************************************)
EXTENDS Naturals, Sequences, SequencesExt

CONSTANTS
  Entity,      \* logical entities
  Operation    \* operation ids

VARIABLES
  history,   \* the operations behind the versions of each entity, in order
  decided    \* the decisions: their operation, the entity, the version they replaced

vars == <<history, decided>>

\* The operations that took effect; only another one may.
Used == UNION {ToSet(history[e]) : e \in Entity}

Extend(e, op) == history' = [history EXCEPT ![e] = Append(@, op)]

\* Another device pushes a version.
Edit(e, op) ==
  /\ Extend(e, op)
  /\ UNCHANGED decided

\* A decision about version n, which is still the latest.
Decide(e, op, n) ==
  /\ n = Len(history[e])
  /\ Extend(e, op)
  /\ decided' = decided \cup {[op |-> op, entity |-> e, replaced |-> n]}

Next ==
  \E op \in Operation \ Used, e \in Entity :
    \/ Edit(e, op)
    \/ \E n \in 0 .. Len(history[e]) : Decide(e, op, n)

Spec == decided = {} /\ [][Next]_vars
=============================================================================
