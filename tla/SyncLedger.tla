----------------------------- MODULE SyncLedger -----------------------------
(***************************************************************************)
(* What a push promises its clients, whatever fails or races: a batch key  *)
(* is answered once and for all, and an operation reported as applied has  *)
(* taken effect exactly once, in the history of its entity, together with  *)
(* its answer.                                                             *)
(***************************************************************************)
EXTENDS Sequences, SequencesExt

CONSTANTS
  Key,         \* batch keys
  Operation,   \* operation ids
  Entity       \* logical entities

VARIABLES
  history,   \* the operations accepted for each entity, in order
  answered   \* for each batch key, whether it is answered and which operations applied

vars == <<history, answered>>

Unanswered == [done |-> FALSE, applied |-> {}]

Accepted(h) == UNION {ToSet(h[e]) : e \in Entity}

\* h extends g by the operations in A, each of them once and none accepted before.
Extends(g, h, A) ==
  /\ \A e \in Entity : IsPrefix(g[e], h[e]) /\ IsInjective(h[e])
  /\ Accepted(h) \ Accepted(g) = A
  /\ Accepted(g) \cap A = {}
  /\ \A e, f \in Entity : e # f => ToSet(h[e]) \cap ToSet(h[f]) = {}

Init ==
  /\ history = [e \in Entity |-> <<>>]
  /\ answered = [k \in Key |-> Unanswered]

\* A batch is answered with the operations it applied.
Answer(k) ==
  /\ ~ answered[k].done
  /\ answered'[k].done
  /\ answered'[k].applied \subseteq Operation
  /\ answered' = [answered EXCEPT ![k] = answered'[k]]
  /\ Extends(history, history', answered'[k].applied)

Next == \E k \in Key : Answer(k)

Spec == Init /\ [][Next]_vars
=============================================================================
