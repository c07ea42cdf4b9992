------------------------------ MODULE SyncPush ------------------------------
(***************************************************************************)
(* POST /sync/push for one account: push_mutations runs one transaction    *)
(* per request, with a savepoint per operation, and answers a batch key    *)
(* once.  Requests race each other and themselves (a client that got no    *)
(* reply sends the batch again), and any of them may be cut short.         *)
(*                                                                         *)
(* PostgreSQL runs at READ COMMITTED: a statement sees the committed rows  *)
(* and those of its own transaction; a row lock and a unique key held by   *)
(* an open transaction make others wait; a unique key that is committed    *)
(* raises IntegrityError.  The projection sync_entities is not kept apart  *)
(* from the version rows: both are written in one savepoint, and it is the *)
(* latest version row.  A content hash stands for the content.             *)
(***************************************************************************)
EXTENDS Integers, Sequences, FiniteSets, FiniteSetsExt

CONSTANTS
  Worker,       \* request handlers of the account
  Request,      \* the requests its clients may send
  NEntity,      \* number of logical entities
  MaxSeq        \* bound: sequence numbers drawn in a behaviour

Entity == 1 .. NEntity

\* The digest of the null payload of a tombstone.
NoContent == "null"

Key       == {r.key : r \in Request}
Mutation  == UNION {{r.ops[i] : i \in DOMAIN r.ops} : r \in Request}
Operation == {m.op : m \in Mutation}
Content   == {m.content : m \in Mutation} \cup {NoContent}
Kind      == {"create", "update", "rename", "delete", "restore"}

\* SyncMutation and SyncPushRequest validate a request before the handler runs.
WellFormed(m) ==
  /\ m.entity \in Entity
  /\ m.kind \in Kind    \* attach and detach are treated as update throughout
  /\ m.base \in Nat
  /\ m.base = 0 <=> m.kind = "create"
  /\ m.kind = "create" => m.baseContent = NoContent
  /\ m.content = NoContent <=> m.kind = "delete"
  /\ m.flaw \in {"none", "forbidden", "schema"}

ASSUME RequestAssumption ==
  /\ NEntity \in Nat /\ MaxSeq \in Nat
  /\ \A m \in Mutation : WellFormed(m)
  /\ \A r \in Request : r.key # "none" /\ r.ops \in Seq(Mutation)
  /\ \A r \in Request : \A i, j \in DOMAIN r.ops : r.ops[i].op = r.ops[j].op => i = j
  /\ \A r \in Request : \A i \in DOMAIN r.ops :
       r.ops[i].dependsOn \subseteq {r.ops[j].op : j \in 1 .. i - 1}

VARIABLES
  versions,    \* committed rows of sync_entity_versions, with their change-log sequence
  results,     \* committed rows of sync_operation_results
  conflicts,   \* committed rows of sync_conflicts
  batches,     \* committed row of sync_idempotency_batches for each key
  seqCounter,  \* last value drawn from the identity column sync_change_log.sequence
  tx,          \* the open transaction of each worker
  replies      \* responses sent so far

storeVars == <<versions, results, conflicts, batches>>
vars == <<versions, results, conflicts, batches, seqCounter, tx, replies>>

-----------------------------------------------------------------------------
(* Records.                                                                *)

VersionRow ==
  [entity : Entity, version : Nat \ {0}, content : Content, tombstone : BOOLEAN,
   kind : Kind, op : Operation, base : Content, seq : Nat]

\* The row of an entity that does not exist.
Absent == [version |-> 0, content |-> NoContent, tombstone |-> FALSE, kind |-> "none"]

ResultRow == [op : Operation, key : Key]

\* base is the version of the base snapshot, 0 for none; cloud that of the entity.
ConflictRow == [op : Operation, entity : Entity, base : Nat, cloud : Nat]

Status == {"applied", "noop", "conflict", "rejected", "dependency_failed"}
Answer == [op : Operation, status : Status, version : Nat, evidence : BOOLEAN]

AnswerTo(m, status, version) ==
  [op |-> m.op, status |-> status, version |-> version, evidence |-> FALSE]
Rejected(m)   == AnswerTo(m, "rejected", 0)
NoAnswer      == [op |-> "none", status |-> "none", version |-> 0, evidence |-> FALSE]
NoRequest     == [key |-> "none", ops |-> <<>>]
NoBatch       == [request |-> NoRequest, answers |-> <<>>]
NoSavepoint   == [rows |-> {}, evidence |-> {}, locks |-> {}]

Stage == {"idle", "claim", "check", "lookup", "apply", "record", "handle", "rehandle",
          "commit", "failed"}

\* A transaction before its first operation; idle ones have no request.
Fresh(stage, r) ==
  [stage |-> stage, request |-> r, answers |-> <<>>, rows |-> {}, recorded |-> {},
   evidence |-> {}, locks |-> {}, found |-> FALSE, cached |-> Absent, draft |-> NoAnswer,
   saved |-> NoSavepoint]

Idle == Fresh("idle", NoRequest)

-----------------------------------------------------------------------------
(* What a transaction sees and what it must wait for.                      *)

RowsOf(R, e)  == {r \in R : r.entity = e}
Latest(R, e)  == IF RowsOf(R, e) = {} THEN Absent
                 ELSE CHOOSE r \in RowsOf(R, e) : \A q \in RowsOf(R, e) : q.version <= r.version
Visible(w)    == versions \cup tx[w].rows
Current(w, e) == Latest(Visible(w), e)

\* The mutation worker w is at.
At(w) == tx[w].request.ops[Len(tx[w].answers) + 1]

\* SELECT ... FOR UPDATE: a row that w sees must not be locked by another.
LockFree(w, e) ==
  RowsOf(Visible(w), e) # {} => \A v \in Worker \ {w} : e \notin tx[v].locks
LockOf(w, e) == IF RowsOf(Visible(w), e) # {} THEN {e} ELSE {}

\* uq_sync_entities_owner_type_public_id, uq_sync_entity_versions_entity_version,
\* uq_sync_entity_versions_owner_operation.
Clash(q, r) == q.op = r.op \/ (q.entity = r.entity /\ q.version = r.version)
RowFree(w, r)  == \A v \in Worker \ {w} : \A q \in tx[v].rows : ~ Clash(q, r)
RowTaken(r)    == \E q \in versions : Clash(q, r)

\* uq_sync_operation_results_owner_operation
ResultFree(w, op)  == \A v \in Worker \ {w} : op \notin {q.op : q \in tx[v].recorded}
ResultTaken(op)    == op \in {q.op : q \in results}

\* uq_sync_batches_owner_device_key: the key of a batch row that is not committed yet.
NoUniqueKey(w, k) == FALSE  \* mutant: no unique key
KeyClaimed(w, k) == \E v \in Worker \ {w} : tx[v].stage \notin {"idle", "claim"} /\ tx[v].request.key = k

-----------------------------------------------------------------------------
(* Savepoints.                                                             *)

Savepoint(t) == [rows |-> t.rows, evidence |-> t.evidence, locks |-> t.locks]

\* Mutants: what a handler without the savepoint would leave behind.
RolledBackKeepingRows(t) == [t EXCEPT !.stage = "handle", !.found = FALSE, !.draft = NoAnswer]
RolledBackKeepingEvidence(t) ==
  [t EXCEPT !.stage = "handle", !.rows = t.saved.rows, !.found = FALSE, !.draft = NoAnswer]

\* ROLLBACK TO SAVEPOINT after an IntegrityError; the handler takes over.
RolledBack(t) ==
  [t EXCEPT !.stage = "handle", !.rows = t.saved.rows, !.evidence = t.saved.evidence,
            !.locks = t.saved.locks, !.found = FALSE, !.draft = NoAnswer]

\* The operation is answered with a; the next one starts in its own savepoint.
Answered(t, a) ==
  LET stage == IF Len(t.answers) + 1 = Len(t.request.ops) THEN "commit" ELSE "check"
  IN [t EXCEPT !.stage = stage, !.answers = Append(@, a), !.found = FALSE,
               !.cached = Absent, !.draft = NoAnswer, !.saved = Savepoint(t)]

Become(w, t) == tx' = [tx EXCEPT ![w] = t]

-----------------------------------------------------------------------------
Init ==
  /\ versions = {}
  /\ results = {}
  /\ conflicts = {}
  /\ batches = [k \in Key |-> NoBatch]
  /\ seqCounter = 0
  /\ tx = [w \in Worker |-> Idle]
  /\ replies = {}

-----------------------------------------------------------------------------
(* The batch row.                                                          *)

\* A settled batch is answered from its row; other content under its key is refused.
ReplyFor(r) ==
  IF batches[r.key].request = r THEN {[request |-> r, answers |-> batches[r.key].answers]} ELSE {}

\* A request for another protocol or device, or above the size limits, has been refused before.
Begin(w, r) ==
  /\ tx[w].stage = "idle"
  /\ IF batches[r.key] = NoBatch
     THEN Become(w, Fresh("claim", r)) /\ UNCHANGED replies
     ELSE replies' = replies \cup ReplyFor(r) /\ UNCHANGED tx
  /\ UNCHANGED <<storeVars, seqCounter>>

\* The insert of the batch row; when another request settled the key meanwhile,
\* the transaction rolls back and answers from that row.
ClaimBatch(w) ==
  LET r == tx[w].request
  IN
  /\ tx[w].stage = "claim"
  /\ ~ KeyClaimed(w, r.key)
  /\ IF batches[r.key] = NoBatch
     THEN /\ Become(w, Fresh(IF r.ops = <<>> THEN "commit" ELSE "check", r))
          /\ UNCHANGED replies
     ELSE /\ Become(w, Idle)
          /\ replies' = replies \cup ReplyFor(r)
  /\ UNCHANGED <<storeVars, seqCounter>>

-----------------------------------------------------------------------------
(* One operation: _apply_mutation and its result row, in a savepoint.      *)

RejectedDependencies(t, m) ==  \* mutant: a conflict counts as success
  {t.answers[i].op : i \in {j \in DOMAIN t.answers :
     t.answers[j].op \in m.dependsOn /\ t.answers[j].status = "rejected"}}
FailedDependencies(t, m) ==
  {t.answers[i].op : i \in {j \in DOMAIN t.answers :
     t.answers[j].op \in m.dependsOn /\ t.answers[j].status \notin {"applied", "noop"}}}

\* _can_mutate: the account holds the permission that the type of the entity asks for.
CanMutate(m) == m.flaw # "forbidden"

\* Settled without a look at the entity: a dependency failed, the account may
\* not write this type, or the operation was answered in another batch.
Check(w) ==
  LET m == At(w)
      t == tx[w]
  IN
  /\ t.stage = "check"
  /\ \/ /\ FailedDependencies(t, m) # {}
        /\ Become(w, [t EXCEPT !.stage = "record", !.draft = AnswerTo(m, "dependency_failed", 0)])
     \/ /\ FailedDependencies(t, m) = {}
        /\ ~ CanMutate(m) \/ ResultTaken(m.op)
        /\ Become(w, [t EXCEPT !.stage = "record", !.draft = Rejected(m)])
     \/ /\ FailedDependencies(t, m) = {}
        /\ CanMutate(m) /\ ~ ResultTaken(m.op)
        /\ Become(w, [t EXCEPT !.stage = "lookup"])
  /\ UNCHANGED <<storeVars, seqCounter, replies>>

\* _entity_query: waits for the row lock of an entity that is there.
Lookup(w) ==
  LET e == At(w).entity
  IN
  /\ tx[w].stage = "lookup"
  /\ LockFree(w, e)
  /\ Become(w, [tx[w] EXCEPT !.stage = "apply", !.locks = @ \cup LockOf(w, e),
                             !.found = RowsOf(Visible(w), e) # {}])
  /\ UNCHANGED <<storeVars, seqCounter, replies>>

BaseMatches(m, c) == m.base = c.version /\ m.baseContent = c.content

\* How a mutation relates to the entity, found (as c) or not.
Refused(m, found) == m.flaw = "schema" \/ (~ found /\ m.kind # "create")
Diverged(m, found, c) ==
  /\ ~ Refused(m, found)
  /\ found
  /\ IF m.kind = "create" THEN c.tombstone \/ c.content # m.content
                          ELSE ~ BaseMatches(m, c) \/ (m.kind = "restore") # c.tombstone
InEffect(m, found, c) ==
  /\ ~ Refused(m, found) /\ found /\ ~ Diverged(m, found, c)
  /\ m.kind # "delete"
  /\ c.content = m.content
Acceptable(m, found, c) ==
  ~ Refused(m, found) /\ ~ Diverged(m, found, c) /\ ~ InEffect(m, found, c)

NextVersion(found, c) == IF found THEN c.version + 1 ELSE 1
AfterCommitted == Max({r.seq : r \in versions} \cup {0}) + 1  \* mutant: max(sequence) + 1
DrawSequence == seqCounter + 1

\* The version row, with the sequence of the change row behind it.
RowFor(m, found, c) ==
  [entity |-> m.entity, version |-> NextVersion(found, c), content |-> m.content,
   tombstone |-> m.kind = "delete", kind |-> m.kind, op |-> m.op,
   base |-> m.baseContent, seq |-> DrawSequence]

\* The mutation is written; a unique key taken meanwhile rolls the savepoint back.
Accept(w) ==
  LET m == At(w)
      row == RowFor(m, tx[w].found, Current(w, m.entity))
  IN
  /\ tx[w].stage = "apply"
  /\ Acceptable(m, tx[w].found, Current(w, m.entity))
  /\ RowFree(w, row)
  /\ \/ /\ ~ RowTaken(row)
        /\ seqCounter < MaxSeq
        /\ seqCounter' = row.seq
        /\ Become(w, [tx[w] EXCEPT !.stage = "record", !.rows = @ \cup {row},
                                   !.locks = @ \cup {m.entity},
                                   !.draft = AnswerTo(m, "applied", row.version)])
     \/ /\ RowTaken(row)
        /\ Become(w, RolledBack(tx[w]))
        /\ UNCHANGED seqCounter
  /\ UNCHANGED <<storeVars, replies>>

\* The mutation is settled without a write: noop or rejected.
Settle(w) ==
  LET m == At(w)
  IN
  /\ tx[w].stage = "apply"
  /\ \/ /\ InEffect(m, tx[w].found, Current(w, m.entity))
        /\ Become(w, [tx[w] EXCEPT !.stage = "record",
                        !.draft = AnswerTo(m, "noop", Current(w, m.entity).version)])
     \/ /\ Refused(m, tx[w].found)
        /\ Become(w, [tx[w] EXCEPT !.stage = "record", !.draft = Rejected(m)])
  /\ UNCHANGED <<storeVars, seqCounter, replies>>

\* classify_sync_conflict
Reason(m, c) ==
  IF m.content = c.content THEN "none"
  ELSE IF m.kind = "create" /\ c.kind = "create" THEN "concurrentCreate"
  ELSE IF "delete" \in {m.kind, c.kind} THEN "tombstoneDivergence"
  ELSE IF "restore" \in {m.kind, c.kind} THEN "restoreDivergence"
  ELSE IF "rename" \in {m.kind, c.kind} THEN "renameDivergence"
  ELSE "divergentContent"

\* The version of the base snapshot, 0 when that version does not exist.
BaseFound(w, m) == IF \E r \in RowsOf(Visible(w), m.entity) : r.version = m.base THEN m.base ELSE 0

\* ck_sync_conflicts_baseline
BaselineHolds(w, m, c) == Reason(m, c) = "concurrentCreate" <=> BaseFound(w, m) = 0

Evidence(w, m, c) ==
  [op |-> m.op, entity |-> m.entity, base |-> BaseFound(w, m), cloud |-> c.version]

\* create_conflict against the entity as c: what it answers, and the rows it adds.
ConflictAnswer(m, c) ==
  IF Reason(m, c) = "none" THEN AnswerTo(m, "noop", c.version)
  ELSE [AnswerTo(m, "conflict", c.version) EXCEPT !.evidence = TRUE]
ConflictRows(w, m, c) == IF Reason(m, c) = "none" THEN {} ELSE {Evidence(w, m, c)}
ConflictStored(w, m, c) == Reason(m, c) = "none" \/ BaselineHolds(w, m, c)

\* When the conflict row is refused, the entity stays in the session's identity
\* map as it was read: unlike one that was written, it is not expired.
Diverge(w) ==
  LET m == At(w)
      c == Current(w, m.entity)
  IN
  /\ tx[w].stage = "apply"
  /\ Diverged(m, tx[w].found, c)
  /\ \/ /\ ConflictStored(w, m, c)
        /\ Become(w, [tx[w] EXCEPT !.stage = "record", !.evidence = @ \cup ConflictRows(w, m, c),
                                   !.draft = ConflictAnswer(m, c)])
     \/ /\ ~ ConflictStored(w, m, c)
        /\ Become(w, [RolledBack(tx[w]) EXCEPT !.cached = c])
  /\ UNCHANGED <<storeVars, seqCounter, replies>>

ResultOf(w) == [op |-> At(w).op, key |-> tx[w].request.key]

\* The result row closes the savepoint, unless its operation has one already.
Record(w) ==
  /\ tx[w].stage = "record"
  /\ ResultFree(w, At(w).op)
  /\ \/ /\ ~ ResultTaken(At(w).op)
        /\ Become(w, Answered([tx[w] EXCEPT !.recorded = @ \cup {ResultOf(w)}], tx[w].draft))
     \/ /\ ResultTaken(At(w).op)
        /\ Become(w, RolledBack(tx[w]))
  /\ UNCHANGED <<storeVars, seqCounter, replies>>

-----------------------------------------------------------------------------
(* The IntegrityError handler, outside the savepoint.                      *)

\* The operation was answered in another batch: rejected, with no row.
Handle(w) ==
  /\ tx[w].stage = "handle"
  /\ \/ /\ ResultTaken(At(w).op)
        /\ Become(w, Answered(tx[w], Rejected(At(w))))
     \/ /\ ~ ResultTaken(At(w).op)
        /\ Become(w, [tx[w] EXCEPT !.stage = "rehandle"])
  /\ UNCHANGED <<storeVars, seqCounter, replies>>

\* The entity as the handler sees it: the query locks the row, but the session
\* does not refresh an object it still holds.
Known(w, m) == IF tx[w].cached # Absent THEN tx[w].cached ELSE Current(w, m.entity)

\* What the handler answers once it has read and locked the entity again.
Retried(w, m) ==
  IF m.kind = "create" /\ RowsOf(Visible(w), m.entity) # {} THEN ConflictAnswer(m, Known(w, m))
  ELSE IF RowsOf(Visible(w), m.entity) # {}
       THEN AnswerTo(m, "conflict", Known(w, m).version)
       ELSE Rejected(m)
RetriedRows(w, m) == IF Retried(w, m).evidence THEN ConflictRows(w, m, Known(w, m)) ELSE {}

\* A second IntegrityError, from the conflict row or the result row, is not caught.
Rehandle(w) ==
  LET m == At(w)
      stored == (Retried(w, m).evidence => BaselineHolds(w, m, Known(w, m))) /\ ~ ResultTaken(m.op)
  IN
  /\ tx[w].stage = "rehandle"
  /\ LockFree(w, m.entity)
  /\ ResultFree(w, m.op)
  /\ \/ /\ stored
        /\ Become(w, Answered([tx[w] EXCEPT !.recorded = @ \cup {ResultOf(w)},
                                            !.evidence = @ \cup RetriedRows(w, m),
                                            !.locks = @ \cup LockOf(w, m.entity)],
                              Retried(w, m)))
     \/ /\ ~ stored
        /\ Become(w, [tx[w] EXCEPT !.stage = "failed"])
  /\ UNCHANGED <<storeVars, seqCounter, replies>>

-----------------------------------------------------------------------------
(* The end of a transaction.                                               *)

Commit(w) ==
  LET t == tx[w]
  IN
  /\ t.stage = "commit"
  /\ versions' = versions \cup t.rows
  /\ results' = results \cup t.recorded
  /\ conflicts' = conflicts \cup t.evidence
  /\ batches' = [batches EXCEPT ![t.request.key] = [request |-> t.request, answers |-> t.answers]]
  /\ replies' = replies \cup {[request |-> t.request, answers |-> t.answers]}
  /\ Become(w, Idle)
  /\ UNCHANGED seqCounter

\* The transaction ends without a trace: an uncaught error, a deadlock that
\* PostgreSQL breaks, a lost connection, a crash.
Abort(w) ==
  /\ tx[w].stage # "idle"
  /\ Become(w, Idle)
  /\ UNCHANGED <<storeVars, seqCounter, replies>>

Operate(w) ==
  \/ Check(w) \/ Lookup(w)
  \/ Accept(w) \/ Settle(w) \/ Diverge(w)
  \/ Record(w) \/ Handle(w) \/ Rehandle(w)

Next ==
  \E w \in Worker :
    \/ \E r \in Request : Begin(w, r)
    \/ ClaimBatch(w)
    \/ Operate(w)
    \/ Commit(w)
    \/ Abort(w)

Spec == Init /\ [][Next]_vars

-----------------------------------------------------------------------------
(* Properties.                                                             *)

Transaction ==
  [stage : Stage, request : Request \cup {NoRequest}, answers : Seq(Answer),
   rows : SUBSET VersionRow, recorded : SUBSET ResultRow, evidence : SUBSET ConflictRow,
   locks : SUBSET Entity, found : BOOLEAN, cached : VersionRow \cup {Absent},
   draft : Answer \cup {NoAnswer},
   saved : [rows : SUBSET VersionRow, evidence : SUBSET ConflictRow, locks : SUBSET Entity]]

Batch == [request : Request \cup {NoRequest}, answers : Seq(Answer)]

\* Every variable keeps its type.
TypeOK ==
  /\ versions \subseteq VersionRow
  /\ results \subseteq ResultRow
  /\ conflicts \subseteq ConflictRow
  /\ batches \in [Key -> Batch]
  /\ seqCounter \in Nat
  /\ tx \in [Worker -> Transaction]
  /\ replies \subseteq [request : Request, answers : Seq(Answer)]

\* The accepted versions of an entity are numbered 1, 2, ... without gap or
\* double; each was accepted against the content of the one before it; and the
\* order of versions is the order of the sequences in the change log, which is
\* what lets a replica that follows the log apply them in order.
LinearHistory ==
  \A r \in versions :
    /\ \A q \in versions : q.entity = r.entity /\ q.version = r.version => q = r
    /\ r.version > 1 => \E q \in versions : /\ q.entity = r.entity
                                            /\ q.version = r.version - 1
                                            /\ q.content = r.base
                                            /\ q.seq < r.seq

\* However often a batch is sent, raced against itself or cut short, all the
\* responses to its key answer the same request, and with the same results.
RepliesAgree ==
  \A p, q \in replies : p.request.key = q.request.key => p = q

\* What the push transaction leaves is consistent at every step: every variable
\* has its type, the histories are linear and the replies agree.
Consistent == TypeOK /\ LinearHistory /\ RepliesAgree

\* An operation takes effect only after the operations it depends on did: they
\* were applied or already in effect in the same batch, and their versions are
\* committed with it.
DependenciesInEffect ==
  \A k \in Key :
    LET ops == batches[k].request.ops
        answers == batches[k].answers
    IN \A i \in DOMAIN answers : answers[i].status \in {"applied", "noop"} =>
         \A j \in DOMAIN answers : ops[j].op \in ops[i].dependsOn =>
           /\ answers[j].status \in {"applied", "noop"}
           /\ \E r \in versions : r.entity = ops[j].entity /\ r.version = answers[j].version

\* Evidence is neither lost nor orphaned: a conflict row stays exactly when a
\* settled answer refers to it, of the entity and the base version its client
\* edited, and the version it quotes as the cloud's exists.
EvidenceMatchesAnswers ==
  /\ \A c \in conflicts :
       /\ \E r \in versions : r.entity = c.entity /\ r.version = c.cloud
       /\ \E k \in Key : \E i \in DOMAIN batches[k].answers :
            /\ batches[k].answers[i].evidence
            /\ batches[k].answers[i].op = c.op
            /\ batches[k].request.ops[i].entity = c.entity
            /\ batches[k].request.ops[i].base = c.base
  /\ \A k \in Key : \A i \in DOMAIN batches[k].answers :
       batches[k].answers[i].evidence => \E c \in conflicts : c.op = batches[k].answers[i].op

\* "Rolling back a savepoint removes its projection/version/change writes but
\* retains unrelated successful operations": no operation that applied is lost
\* because another operation of the batch failed.
SavepointsIsolate == \A w \in Worker : tx[w].stage = "failed" => tx[w].rows = {}

-----------------------------------------------------------------------------
(* Refinement.                                                             *)

\* The operations accepted for e, by version.
History(e) ==
  [n \in 1 .. Cardinality(RowsOf(versions, e)) |->
     (CHOOSE r \in RowsOf(versions, e) : r.version = n).op]

Ledger == INSTANCE SyncLedger WITH
  history  <- [e \in Entity |-> History(e)],
  answered <- [k \in Key |->
    [done    |-> batches[k] # NoBatch,
     applied |-> {batches[k].answers[i].op : i \in {j \in DOMAIN batches[k].answers :
                    batches[k].answers[j].status = "applied"}}]]

\* Every key is answered once, and the operations reported as applied are
\* exactly the versions that entered the history with that answer.
ImplementsLedger == Ledger!Spec

ChangeRows(R) == {[seq |-> r.seq, entity |-> r.entity] : r \in R}

\* A push touches no device.
NoDevices == [d \in {} |-> 0]

Stream == INSTANCE SyncStream WITH
  Writer <- Worker, Device <- {}, PageSize <- 1, MaxEpoch <- 0, MaxFaults <- 0,
  pending <- [w \in Worker |-> ChangeRows(tx[w].rows)],
  published <- ChangeRows(versions), log <- ChangeRows(versions),
  epoch <- 0, retained <- 0, aged <- 0,
  compaction <- [stage |-> "idle", boundary |-> 0, count |-> 0],
  devices <- NoDevices, clients <- NoDevices, faults <- 0

\* A push writes the change log as a Writer of SyncStream does: one row at a
\* time, never of an entity another open transaction has a row of, published
\* together at commit or dropped by a rollback.
ImplementsWriter == Stream!Init /\ [][\E w \in Worker : Stream!Write(w)]_(Stream!vars)
=============================================================================
