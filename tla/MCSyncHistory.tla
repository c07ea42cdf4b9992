---------------------------- MODULE MCSyncHistory ----------------------------
(* Instances of SyncHistory for TLC. *)
EXTENDS SyncHistory, TLC

Version(e, n, content, kind, op) ==
  [entity |-> e, version |-> n, content |-> content, tombstone |-> kind = "delete",
   kind |-> kind, op |-> op]

\* Entity 1 was created and updated; entity 2 is the one copies are saved to.
History == {Version(1, 1, "a", "create", "v1"), Version(1, 2, "b", "update", "v2")}

Candidate(content) == [content |-> content, tombstone |-> content = NoContent]
Divergent == [id |-> "c1", entity |-> 1, local |-> Candidate("x"), cloud |-> Candidate("b")]
Deletion  == [id |-> "c2", entity |-> 1, local |-> Candidate(NoContent), cloud |-> Candidate("b")]
Conflicts == {Divergent, Deletion}

\* A request on a conflict about a version and content, and one on the entity itself.
Ask(op, c, action, version, content) ==
  [op |-> op, conflict |-> c, entity |-> c.entity, action |-> action, version |-> version,
   content |-> content, target |-> 0, payload |-> NoContent, copy |-> 0, undoes |-> NoOp]
Undo(op, c, undone, version, content) ==
  [Ask(op, c, "undo", version, content) EXCEPT !.undoes = undone]
SaveCopy(op, c, version, content) == [Ask(op, c, "saveCopy", version, content) EXCEPT !.copy = 2]
Restore(op, version, content, target) ==
  [op |-> op, conflict |-> NoConflict, entity |-> 1, action |-> "restoreVersion",
   version |-> version, content |-> content, target |-> target, payload |-> NoContent,
   copy |-> 0, undoes |-> NoOp]

\* Keeping the local candidate, undoing that and undoing the undo, while another
\* device goes back to a version or pushes; saved copies; a conflict whose local
\* candidate is a deletion; an operation id is used twice.
Requests ==
  {Ask("o1", Divergent, "keepLocal", 2, "b"),
   Undo("o3", Divergent, "o1", 3, "x"),
   Undo("o4", Divergent, "o1", 4, "b"),
   Undo("o5", Divergent, "o3", 4, "b"),
   Restore("o5", 3, "x", 2),
   SaveCopy("o7", Divergent, 2, "b"),
   Undo("o8", Divergent, "o7", 2, "b"),
   Ask("o9", Deletion, "keepLocal", 2, "b"),
   Undo("o6", Deletion, "o9", 3, NoContent),
   [Ask("o2", Deletion, "restoreVersion", 4, "b") EXCEPT !.target = 3]}

Symmetry == Permutations(Worker)
=============================================================================
