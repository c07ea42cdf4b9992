----------------------------- MODULE MCSyncPush -----------------------------
(* Instances of SyncPush for TLC. *)
EXTENDS SyncPush, TLC

Write(op, e, kind, base, baseContent, content, deps) ==
  [op |-> op, entity |-> e, kind |-> kind, base |-> base, baseContent |-> baseContent,
   content |-> content, dependsOn |-> deps, flaw |-> "none"]

CreateA   == Write("o1", 1, "create", 0, NoContent, "a", {})
UpdateA   == Write("o2", 1, "update", 1, "a", "b", {"o1"})
CreateB   == Write("o3", 1, "create", 0, NoContent, "b", {})
CreateTwo == Write("o4", 2, "create", 0, NoContent, "a", {"o3"})
UpdateB   == Write("o5", 1, "rename", 1, "b", "c", {})
DeleteA   == Write("o6", 1, "delete", 2, "b", NoContent, {})
RestoreA  == Write("o7", 1, "restore", 3, NoContent, "a", {"o6"})

\* The answers that write nothing: a type the account may not write, a schema
\* the server does not know, a base version the server does not have, content
\* that is there already.
Forbidden == [Write("o8", 2, "create", 0, NoContent, "a", {}) EXCEPT !.flaw = "forbidden"]
Future    == [Write("o9", 2, "create", 0, NoContent, "a", {}) EXCEPT !.flaw = "schema"]
Unknown   == Write("o10", 1, "update", 7, "c", "d", {})
Again     == Write("o11", 1, "create", 0, NoContent, "a", {})
Stale     == Write("o12", 1, "update", 1, "a", "b", {})
Same      == Write("o13", 1, "update", 1, "a", "a", {})
Late      == Write("o14", 1, "create", 0, NoContent, "c", {"o12"})
Other     == Write("o15", 2, "create", 0, NoContent, "b", {})

\* Two devices create the same entity and go on from there; one resends an
\* operation of the other batch under a key of its own; one key is used twice.
Requests ==
  {[key |-> "k1", ops |-> <<CreateA, UpdateA>>],
   [key |-> "k1", ops |-> <<UpdateB>>],
   [key |-> "k2", ops |-> <<CreateB, CreateTwo, Forbidden, Future>>],
   [key |-> "k3", ops |-> <<[UpdateA EXCEPT !.dependsOn = {}], UpdateB>>],
   [key |-> "k4", ops |-> <<DeleteA, RestoreA, Unknown, Again, Same, Stale, Late>>]}

\* A create that meets an entity with a longer history, after another operation.
EdgeRequests ==
  {[key |-> "k1", ops |-> <<CreateA, UpdateA>>],
   [key |-> "k4", ops |-> <<Other, Stale, Late>>],
   [key |-> "k5", ops |-> <<[Late EXCEPT !.dependsOn = {}]>>]}

Symmetry == Permutations(Worker)
=============================================================================
