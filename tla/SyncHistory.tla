---------------------------- MODULE SyncHistory ----------------------------
(***************************************************************************)
(* Deciding about the past of an account's entities: resolve_conflict      *)
(* settles a preserved conflict, or undoes the latest settlement, and      *)
(* restore_version goes back to an older version.  Requests race each      *)
(* other, their own retries and the pushes of other devices, and any of    *)
(* them may be cut short.                                                  *)
(*                                                                         *)
(* The database behaves as in SyncPush: READ COMMITTED, row locks and      *)
(* unique keys that make others wait.  A push is one step here, an         *)
(* operation accepted while no one holds its entity.  A resolution names   *)
(* the one it undoes by its operation id, which is as unique as the public *)
(* id in the code.                                                         *)
(***************************************************************************)
EXTENDS Integers, Sequences, FiniteSets, SequencesExt

CONSTANTS
  Worker,      \* request handlers of the account
  Request,     \* the requests its clients may send
  Conflict,    \* its rows of sync_conflicts, which never change
  Stored,      \* its version rows in the beginning
  NEntity,     \* number of logical entities
  Attached,    \* the entities that are attachments with a reference
  PushOp,      \* operation ids of the pushes
  PushContent, \* what they write
  MaxVersion   \* bound: versions of an entity

Entity == 1 .. NEntity

\* The digest of the null payload of a tombstone.
NoContent  == "null"
NoConflict == [id |-> "none"]
NoOp       == "none"

\* restore_version is called for an entity, resolve_conflict for a conflict.
IsRestore(r) == r.conflict = NoConflict

Action == {"keepLocal", "useCloud", "saveCopy", "manualMerge", "restoreVersion", "undo"}
Kind   == {"create", "update", "rename", "delete", "restore"}

Operation == {r.op : r \in Request} \cup PushOp \cup {v.op : v \in Stored}
Content ==
  {r.payload : r \in Request} \cup PushContent \cup {v.content : v \in Stored}
    \cup {c.local.content : c \in Conflict} \cup {c.cloud.content : c \in Conflict} \cup {NoContent}

\* SyncConflictResolutionRequest validates a request before the handler runs.
WellFormed(r) ==
  /\ r.conflict \in Conflict \cup {NoConflict}
  /\ r.entity = IF IsRestore(r) THEN r.entity ELSE r.conflict.entity
  /\ r.entity \in Entity /\ r.copy \in Entity \cup {0}
  /\ r.action \in Action
  /\ IsRestore(r) => r.action = "restoreVersion"
  /\ r.action = "saveCopy" <=> r.copy # 0
  /\ r.action = "undo" <=> r.undoes # NoOp
  /\ r.action = "manualMerge" => r.payload # NoContent
  /\ r.version \in Nat \ {0} /\ r.target \in Nat

ASSUME RequestAssumption ==
  /\ NEntity \in Nat /\ MaxVersion \in Nat
  /\ \A r \in Request : WellFormed(r)
  /\ \A c \in Conflict : c # NoConflict /\ {c.local.tombstone, c.cloud.tombstone} \subseteq BOOLEAN

VersionRow ==
  [entity : Entity, version : Nat \ {0}, content : Content, tombstone : BOOLEAN,
   kind : Kind, op : Operation]

\* The histories in the beginning are what pushes leave: each operation is there
\* once, the versions of an entity are numbered from 1, and a reference belongs to
\* an entity that exists.
ASSUME StoredAssumption ==
  /\ Stored \subseteq VersionRow
  /\ \A p, q \in Stored : p.op = q.op => p = q
  /\ \A p, q \in Stored : p.entity = q.entity /\ p.version = q.version => p = q
  /\ \A e \in Entity :
       LET R == {v \in Stored : v.entity = e}
       IN  IsFiniteSet(R) /\ {v.version : v \in R} = 1 .. Cardinality(R)
  /\ Attached \subseteq {v.entity : v \in Stored}

VARIABLES
  versions,     \* committed rows of sync_entity_versions
  resolutions,  \* committed rows of sync_conflict_resolutions, by id
  restores,     \* committed rows of sync_version_restores
  references,   \* the attachment reference of each entity
  tx            \* the open transaction of each worker

storeVars == <<versions, resolutions, restores, references>>
vars == <<versions, resolutions, restores, references, tx>>

-----------------------------------------------------------------------------
(* Records.                                                                *)

\* An audit row: what was asked, and the version that was accepted for it.
Decision == [request : Request, entity : Entity, version : Nat \ {0}]

\* What an entity becomes: a candidate of the conflict, an older version, a tombstone.
State   == [content : Content, tombstone : BOOLEAN]
Deleted == [content |-> NoContent, tombstone |-> TRUE]
StateOf(v) == [content |-> v.content, tombstone |-> v.tombstone]

Stage == {"idle", "conflict", "recheck", "entity", "review", "copy", "write", "commit"}

\* A transaction for request r, with the entity rows it locked and what it wrote.
Tx(stage, r, locks, rows) == [stage |-> stage, request |-> r, locks |-> locks, rows |-> rows]
Idle == Tx("idle", <<>>, {}, {})

-----------------------------------------------------------------------------
(* What a transaction sees and what it must wait for.                      *)

RowsOf(e)     == {v \in versions : v.entity = e}
Row(e, n)     == CHOOSE v \in RowsOf(e) : v.version = n
HasRow(e, n)  == \E v \in RowsOf(e) : v.version = n
Length(e)     == Cardinality(RowsOf(e))
Latest(e)     == Row(e, Length(e))

Others(w) == Worker \ {w}

\* SELECT ... FOR UPDATE of an entity row.
LockFree(w, e) == \A v \in Others(w) : e \notin tx[v].locks

\* SELECT ... FOR UPDATE of a conflict row, held from its stage to the end.
ConflictFree(w, c) ==
  \A v \in Others(w) : tx[v].stage \notin {"idle", "conflict"} => tx[v].request.conflict # c

\* The unique keys of the version rows, and of the entity row of a copy.
Clash(p, q)   == p.op = q.op \/ (p.entity = q.entity /\ p.version = q.version)
RowFree(W, v) == \A u \in W : \A q \in tx[u].rows : ~ Clash(q, v)
RowTaken(v)   == \E q \in versions : Clash(q, v)

\* The audit rows of the requests like r, and the one its operation id has.
Audit(r)    == IF IsRestore(r) THEN restores ELSE ToSet(resolutions)
Settled(r)  == \E d \in Audit(r) : d.request.op = r.op

\* The places of a conflict's resolutions: their ids are drawn, and their times
\* taken, while the conflict row is locked.
Of(c)          == {i \in DOMAIN resolutions : resolutions[i].request.conflict = c}
Settlements(c) == {resolutions[i] : i \in Of(c)}

Become(w, t) == tx' = [tx EXCEPT ![w] = t]
To(w, stage) == Become(w, Tx(stage, tx[w].request, tx[w].locks, tx[w].rows))

-----------------------------------------------------------------------------
Init ==
  /\ versions = Stored
  /\ resolutions = <<>>
  /\ restores = {}
  /\ references = [e \in Entity |->
       IF e \notin Attached THEN "none" ELSE IF Latest(e).tombstone THEN "deleted" ELSE "live"]
  /\ tx = [w \in Worker |-> Idle]

-----------------------------------------------------------------------------
(* Before the version is written.                                          *)

\* A settled operation id is answered from its audit row, or refused as a mismatch.
Begin(w, r) ==
  /\ tx[w].stage = "idle"
  /\ ~ Settled(r)
  /\ Become(w, Tx(IF IsRestore(r) THEN "entity" ELSE "conflict", r, {}, {}))
  /\ UNCHANGED storeVars

LockConflict(w) ==
  /\ tx[w].stage = "conflict"
  /\ ConflictFree(w, tx[w].request.conflict)
  /\ To(w, "recheck")
  /\ UNCHANGED storeVars

NoRecheck(w) ==  \* mutant: the lookup before the lock is trusted
  /\ tx[w].stage = "recheck"
  /\ To(w, IF IsRestore(tx[w].request) THEN "review" ELSE "entity")
  /\ UNCHANGED storeVars

\* The lookup again, under the first lock: of the conflict, or of the entity.
Recheck(w) ==
  /\ tx[w].stage = "recheck"
  /\ \/ Settled(tx[w].request) /\ Become(w, Idle)
     \/ /\ ~ Settled(tx[w].request)
        /\ To(w, IF IsRestore(tx[w].request) THEN "review" ELSE "entity")
  /\ UNCHANGED storeVars

\* An entity that restore_version does not find ends the request.
LockEntity(w) ==
  LET r == tx[w].request
  IN
  /\ tx[w].stage = "entity"
  /\ \/ RowsOf(r.entity) = {} /\ Become(w, Idle)
     \/ /\ RowsOf(r.entity) # {}
        /\ LockFree(w, r.entity)
        /\ Become(w, Tx(IF IsRestore(r) THEN "recheck" ELSE "review", r, {r.entity}, {}))
  /\ UNCHANGED storeVars

HashUnchanged(r) == Latest(r.entity).content = r.content  \* mutant: the version is not compared
\* The entity is still what the client reviewed.
Unchanged(r) == Length(r.entity) = r.version /\ Latest(r.entity).content = r.content

\* The resolution that r undoes.
Prior(r) == CHOOSE d \in Settlements(r.conflict) : d.request.op = r.undoes

AnyUndoable(r) == r.undoes \in {d.request.op : d \in Settlements(r.conflict)}  \* mutant: not only the latest
Undoable(r) == \E i \in Of(r.conflict) :
                 resolutions[i].request.op = r.undoes /\ \A j \in Of(r.conflict) : j <= i

\* An undo of a saved copy is about the copy, which has to be locked as well.
UndoesCopy(r) == r.action = "undo" /\ Prior(r).request.action = "saveCopy"

\* What is asked for exists.
Available(r) ==
  /\ r.action = "restoreVersion" => HasRow(r.entity, r.target)
  /\ r.action = "undo" =>
       Undoable(r) /\ (UndoesCopy(r) \/ HasRow(r.entity, Prior(r).version - 1))

Review(w) ==
  LET r == tx[w].request
  IN
  /\ tx[w].stage = "review"
  /\ \/ /\ ~ (Unchanged(r) /\ Available(r))
        /\ Become(w, Idle)
     \/ /\ Unchanged(r) /\ Available(r)
        /\ To(w, IF UndoesCopy(r) THEN "copy" ELSE "write")
  /\ UNCHANGED storeVars

CopyUnchanged(d) == Length(d.entity) = d.version

\* The copy must be as it was saved.
LockCopy(w) ==
  LET d == Prior(tx[w].request)
  IN
  /\ tx[w].stage = "copy"
  /\ LockFree(w, d.entity)
  /\ \/ ~ CopyUnchanged(d) /\ Become(w, Idle)
     \/ /\ CopyUnchanged(d)
        /\ Become(w, Tx("write", tx[w].request, tx[w].locks \cup {d.entity}, {}))
  /\ UNCHANGED storeVars

-----------------------------------------------------------------------------
(* The version.                                                            *)

\* The entity that is written: the saved copy, the copy to be deleted again, or
\* the entity of the conflict.
Target(r) == IF r.action = "saveCopy" THEN r.copy
             ELSE IF UndoesCopy(r) THEN Prior(r).entity
             ELSE r.entity

UndoneItself(r) == StateOf(Row(r.entity, Prior(r).version))  \* mutant: not its predecessor
\* What an undo goes back to.  The version number of the undone resolution is
\* looked up in the history of the conflict's entity, whatever entity it wrote.
Before(r) == StateOf(Row(r.entity, Prior(r).version - 1))

Source(r) ==
  CASE r.action \in {"keepLocal", "saveCopy"} -> r.conflict.local
    [] r.action = "useCloud"       -> r.conflict.cloud
    [] r.action = "manualMerge"    -> [content |-> r.payload, tombstone |-> FALSE]
    [] r.action = "restoreVersion" -> StateOf(Row(r.entity, r.target))
    [] r.action = "undo"           -> IF UndoesCopy(r) THEN Deleted ELSE Before(r)

KindByAction(action, tombstone) ==  \* mutant: a tombstone that is restored counts as a restore
  IF action \in {"restoreVersion", "undo"} THEN "restore"
  ELSE IF tombstone THEN "delete" ELSE "update"
KindFor(action, tombstone) ==
  IF tombstone THEN "delete"
  ELSE IF action \in {"restoreVersion", "undo"} THEN "restore" ELSE "update"

\* The row a decision adds: the first version of a copy, or the next of its target.
NewRow(r) ==
  [entity |-> Target(r), version |-> IF r.action = "saveCopy" THEN 1 ELSE Length(Target(r)) + 1,
   content |-> Source(r).content, tombstone |-> Source(r).tombstone,
   kind |-> IF r.action = "saveCopy" THEN "create" ELSE KindFor(r.action, Source(r).tombstone),
   op |-> r.op]

\* The flush of the version; a unique key taken meanwhile is not caught.
Write(w) ==
  LET row == NewRow(tx[w].request)
  IN
  /\ tx[w].stage = "write"
  /\ row.version <= MaxVersion
  /\ RowFree(Others(w), row)
  /\ \/ RowTaken(row) /\ Become(w, Idle)
     \/ /\ ~ RowTaken(row)
        /\ Become(w, Tx("commit", tx[w].request, tx[w].locks, {row}))
  /\ UNCHANGED storeVars

-----------------------------------------------------------------------------
(* The end of a transaction, and the pushes of other devices.              *)

\* apply_attachment_reference_lifecycle for an accepted version.
Lifecycle(reference, kind) ==
  CASE reference = "live" /\ kind = "delete"     -> "deleted"
    [] reference = "deleted" /\ kind = "restore" -> "live"
    [] OTHER -> reference
Accept(row) ==
  /\ versions' = versions \cup {row}
  /\ references' = [references EXCEPT ![row.entity] = Lifecycle(@, row.kind)]

\* The audit row is inserted with the commit.
Commit(w) ==
  LET r == tx[w].request
  IN
  /\ tx[w].stage = "commit"
  /\ \E row \in tx[w].rows :
       LET d == [request |-> r, entity |-> row.entity, version |-> row.version]
       IN /\ Accept(row)
          /\ IF IsRestore(r)
             THEN restores' = restores \cup {d} /\ UNCHANGED resolutions
             ELSE resolutions' = Append(resolutions, d) /\ UNCHANGED restores
  /\ Become(w, Idle)

\* The transaction ends without a trace: a lost connection, a crash, a deadlock
\* that PostgreSQL breaks.
Abort(w) ==
  /\ tx[w].stage # "idle"
  /\ Become(w, Idle)
  /\ UNCHANGED storeVars

\* The kinds a push may write to an entity as it is.
PushKinds(e) == IF RowsOf(e) = {} THEN {"create"}
                ELSE IF Latest(e).tombstone THEN {"restore"} ELSE {"update", "delete"}

Push(op, e, kind, content) ==
  LET row == [entity |-> e, version |-> Length(e) + 1, content |-> content,
              tombstone |-> kind = "delete", kind |-> kind, op |-> op]
  IN
  /\ kind \in PushKinds(e)
  /\ kind = "delete" <=> content = NoContent
  /\ row.version <= MaxVersion
  /\ \A w \in Worker : e \notin tx[w].locks
  /\ RowFree(Worker, row)
  /\ ~ RowTaken(row)
  /\ Accept(row)
  /\ UNCHANGED <<resolutions, restores, tx>>

Handle(w) ==
  \/ LockConflict(w) \/ LockEntity(w) \/ Recheck(w)
  \/ Review(w) \/ LockCopy(w) \/ Write(w) \/ Commit(w) \/ Abort(w)

Next ==
  \/ \E w \in Worker : (\E r \in Request : Begin(w, r)) \/ Handle(w)
  \/ \E op \in PushOp, e \in Entity, kind \in Kind, content \in PushContent \cup {NoContent} :
       Push(op, e, kind, content)

Spec == Init /\ [][Next]_vars

-----------------------------------------------------------------------------
(* Properties.                                                             *)

Transaction ==
  [stage : Stage, request : Request \cup {<<>>}, locks : SUBSET Entity, rows : SUBSET VersionRow]

\* Every variable keeps its type.
TypeOK ==
  /\ versions \subseteq VersionRow
  /\ resolutions \in Seq(Decision)
  /\ restores \subseteq Decision
  /\ references \in [Entity -> {"none", "live", "deleted"}]
  /\ tx \in [Worker -> Transaction]

\* The retry of a settled request always finds its answer: no transaction that
\* passed the second lookup works for a request that is settled meanwhile, so
\* none is refused because the entity changed, by the request itself.
RetryMeetsAnswer ==
  \A w \in Worker : tx[w].stage \in {"review", "copy", "write", "commit"} =>
    \A d \in Audit(tx[w].request) : d.request # tx[w].request

\* An audit row never meets a unique key when it is committed: every race for an
\* operation id, or for undoing one resolution, is decided before.  The handler
\* of IntegrityError around the commit has nothing to catch.
CommitMeetsNoKey ==
  \A w \in Worker : tx[w].stage = "commit" =>
    \A d \in ToSet(resolutions) \cup restores :
      /\ d.request.op # tx[w].request.op
      /\ tx[w].request.undoes # NoOp => d.request.undoes # tx[w].request.undoes

\* Resolutions of a conflict are undone like a stack of one: an undo undoes the
\* resolution just before it, whatever else is settled or pushed around it.
UndoesTheLatest ==
  \A i \in DOMAIN resolutions : resolutions[i].request.action = "undo" =>
    \E j \in Of(resolutions[i].request.conflict) :
      /\ j < i
      /\ resolutions[j].request.op = resolutions[i].request.undoes
      /\ \A k \in Of(resolutions[i].request.conflict) : ~ (j < k /\ k < i)

UndoneBy(d) == CHOOSE p \in ToSet(resolutions) : p.request.op = d.request.undoes
Predecessor(d) == IF d.version = 1 THEN Deleted ELSE StateOf(Row(d.entity, d.version - 1))
Restores(d, p) == d.entity = p.entity /\ StateOf(Row(d.entity, d.version)) = Predecessor(p)

\* An undo gives the entity that the undone resolution wrote the state it had
\* before, whatever was pushed in between: a saved copy is deleted again, and the
\* undo of an undo brings back what was undone, unless that was a saved copy.
\* Nor does undoing a saved copy discard what other devices pushed to the copy.
UndoRestores ==
  \A d \in ToSet(resolutions) : d.request.action = "undo" =>
    LET p == UndoneBy(d)
    IN /\ Restores(d, p) \/ (p.request.action = "undo" /\ p.entity # p.request.entity)
       /\ p.request.action = "saveCopy" => d.version = p.version + 1

\* A deleted attachment cannot be downloaded, however it was deleted: by a push,
\* by keeping a local deletion, by going back to a deleted version, by an undo.
DeletedStaysHidden ==
  \A e \in Entity : RowsOf(e) # {} /\ Latest(e).tombstone => references[e] # "live"

\* What the conflict transactions leave is consistent at every step: every
\* variable has its type, no unique key is left for the commit to meet, and the
\* attachments of deleted entities are hidden.
Consistent == TypeOK /\ CommitMeetsNoKey /\ DeletedStaysHidden

-----------------------------------------------------------------------------
(* Refinement.                                                             *)

\* The version a decision was to replace: the one reviewed, or of a copy the one before.
Replaced(d) == IF d.entity = d.request.entity THEN d.request.version ELSE d.version - 1

Reviewed == INSTANCE SyncReview WITH
  history <- [e \in Entity |-> [n \in 1 .. Length(e) |-> Row(e, n).op]],
  decided <- {[op |-> d.request.op, entity |-> d.entity, replaced |-> Replaced(d)] :
                d \in ToSet(resolutions) \cup restores}

\* A decision takes effect on the version that was reviewed while that is the
\* latest, at once with its audit row, and once.
ImplementsReview == Reviewed!Spec
=============================================================================
