----------------------------- MODULE SyncStream -----------------------------
(***************************************************************************)
(* The change stream of one account (owner, scope "personal"): the table   *)
(* sync_change_log, the stream and device-cursor rows beside it, and the   *)
(* handlers that read, acknowledge, snapshot and compact it.               *)
(*                                                                         *)
(* PostgreSQL runs at READ COMMITTED.  A push, a resolution or a version   *)
(* restore is a Writer: a transaction that draws sequence numbers when it  *)
(* flushes a change row and publishes all of its rows when it commits.     *)
(* Writers never lock the row of sync_streams; pull, acknowledge, snapshot *)
(* and compaction do, for their whole transaction, so only commits and     *)
(* rollbacks of writers interleave with the statements of those handlers.  *)
(*                                                                         *)
(* A change row keeps its sequence and its entity.  Its version is left    *)
(* out: an entity's row lock makes the order of its versions the order of  *)
(* its sequences (module SyncPush).  Entities are numbered in the          *)
(* (entity_type, public_id) order the snapshot pages follow.               *)
(***************************************************************************)
EXTENDS Integers, FiniteSets, FiniteSetsExt

CONSTANTS
  Writer,      \* concurrent write transactions of the account
  Device,      \* devices of the account that replicate the stream
  NEntity,     \* number of logical entities
  PageSize,    \* rows in a page of a pull or of a snapshot
  MaxSeq,      \* bound: sequence numbers drawn in a behaviour
  MaxEpoch,    \* bound: stream epochs, so compactions, in a behaviour
  MaxFaults    \* bound: expiries, abandoned snapshots and lost cursors

ASSUME SizesAssumption ==
  /\ NEntity \in Nat
  /\ PageSize \in Nat \ {0}
  /\ MaxSeq \in Nat
  /\ MaxEpoch \in Nat
  /\ MaxFaults \in Nat

Entity == 1 .. NEntity

VARIABLES
  seqCounter,  \* last value drawn from the identity column sync_change_log.sequence
  pending,     \* rows flushed by each writer and not yet committed
  published,   \* every row ever committed (the immutable version rows outlive the log)
  log,         \* the committed rows of sync_change_log
  epoch,       \* sync_streams.epoch, in order of rotation; 0: there is no stream row
  retained,    \* sync_streams.retainedFromSequence
  aged,        \* committed rows up to this sequence are older than the retention cutoff
  compaction,  \* local state of a running compact_sync_stream
  devices,     \* sync_device_cursors; epoch 0: the device has no row
  clients,     \* what each device holds
  faults       \* number of faults so far

writeVars  == <<seqCounter, pending, published>>
streamVars == <<epoch, retained>>
vars == <<seqCounter, pending, published, log, epoch, retained, aged,
          compaction, devices, clients, faults>>

-----------------------------------------------------------------------------
(* Records.                                                                *)

Row    == [seq : Nat, entity : Entity]
Cursor == [epoch : Nat, seq : Nat]

\* A cursor the client does not have: no stream ever carries epoch 0.
NoCursor == [epoch |-> 0, seq |-> 0]

DeviceRow == [epoch : Nat, seq : Nat, expired : BOOLEAN]

\* What a client gathers while it pages through a snapshot.
SnapshotProgress ==
  [epoch : Nat, boundary : Nat, last : Nat, view : [Entity -> Nat], skipped : SUBSET Nat]

\* view[e] is the sequence of the newest change of e the client has applied,
\* skipped the rows that were in flight when its cursor moved past them, ack
\* an acknowledgement on its way to the server.
Client ==
  [stage   : {"pull", "recover", "pinned", "paging"},
   cursor  : Cursor,
   ack     : Cursor,
   view    : [Entity -> Nat],
   skipped : SUBSET Nat,
   snap    : SnapshotProgress]

Compaction == [stage : {"idle", "counting", "deleting"}, boundary : Nat, count : Nat]

EmptyView  == [e \in Entity |-> 0]
NoSnapshot == [epoch |-> 0, boundary |-> 0, last |-> 0, view |-> EmptyView, skipped |-> {}]
Idle       == [stage |-> "idle", boundary |-> 0, count |-> 0]

-----------------------------------------------------------------------------
(* Reading a set of rows.                                                  *)

Seqs(R)      == {r.seq : r \in R}
RowsOf(R, e) == {r \in R : r.entity = e}
LastSeqOrNull(R) == IF R = {} THEN -1 ELSE Max(Seqs(R))  \* mutant: no coalesce
LastSeq(R)   == IF R = {} THEN 0 ELSE Max(Seqs(R))
UpTo(R, n)   == {r \in R : r.seq <= n}

InFlight == UNION {pending[w] : w \in Writer}

\* The rows a reader leaves behind for good when it moves to sequence n.
Overtaken(n) == Seqs(UpTo(InFlight, n))

\* The row of sync_streams is locked by the handlers that take several steps.
StreamFree ==
  /\ compaction.stage = "idle"
  /\ \A d \in Device : clients[d].stage # "pinned"

-----------------------------------------------------------------------------
Init ==
  /\ seqCounter = 0
  /\ pending = [w \in Writer |-> {}]
  /\ published = {}
  /\ log = {}
  /\ epoch = 0
  /\ retained = 0
  /\ aged = 0
  /\ compaction = Idle
  /\ devices = [d \in Device |-> [epoch |-> 0, seq |-> 0, expired |-> FALSE]]
  /\ clients = [d \in Device |->
                  [stage |-> "pull", cursor |-> NoCursor, ack |-> NoCursor,
                   view |-> EmptyView, skipped |-> {}, snap |-> NoSnapshot]]
  /\ faults = 0

-----------------------------------------------------------------------------
(* Write transactions.                                                     *)

\* An operation is accepted: the writer holds the entity's row lock (or the
\* unique key of its new row) and flushes a change row, which draws a sequence.
Append(w, e) ==
  /\ seqCounter < MaxSeq
  /\ \A v \in Writer \ {w} : RowsOf(pending[v], e) = {}
  /\ seqCounter' = seqCounter + 1
  /\ pending' = [pending EXCEPT ![w] = @ \cup {[seq |-> seqCounter', entity |-> e]}]
  /\ UNCHANGED <<published, log, streamVars, aged, compaction, devices, clients, faults>>

\* The savepoint of the latest operation rolls back; its sequence stays drawn.
RollbackSavepoint(w) ==
  /\ pending[w] # {}
  /\ pending' = [pending EXCEPT ![w] = {r \in @ : r.seq # LastSeq(@)}]
  /\ UNCHANGED <<seqCounter, published, log, streamVars, aged, compaction, devices,
                 clients, faults>>

\* The whole transaction fails (error, deadlock, lost connection).
Rollback(w) ==
  /\ pending[w] # {}
  /\ pending' = [pending EXCEPT ![w] = {}]
  /\ UNCHANGED <<seqCounter, published, log, streamVars, aged, compaction, devices,
                 clients, faults>>

Commit(w) ==
  /\ pending[w] # {}
  /\ log' = log \cup pending[w]
  /\ published' = published \cup pending[w]
  /\ pending' = [pending EXCEPT ![w] = {}]
  /\ UNCHANGED <<seqCounter, streamVars, aged, compaction, devices, clients, faults>>

Write(w) ==
  \/ \E e \in Entity : Append(w, e)
  \/ RollbackSavepoint(w)
  \/ Rollback(w)
  \/ Commit(w)

-----------------------------------------------------------------------------
(* Device rows and cursors.                                                *)

\* _stream: get or create.
CurrentEpoch == IF epoch = 0 THEN 1 ELSE epoch

\* _device_cursor: the row the handler works on, created when absent.
DeviceOf(d) ==
  IF devices[d].epoch = 0
  THEN [epoch |-> CurrentEpoch, seq |-> 0, expired |-> FALSE]
  ELSE devices[d]

DeviceLive(d) == ~DeviceOf(d).expired /\ DeviceOf(d).epoch = CurrentEpoch

\* What a handler that accepts the device leaves in its row.  Recovery binds
\* the row to the current epoch and keeps cursor_sequence.
RenewedAtHead(d) ==  \* mutant: recovery takes the snapshot for an acknowledgement
  IF DeviceLive(d) THEN DeviceOf(d)
  ELSE [epoch |-> CurrentEpoch, seq |-> LastSeq(log), expired |-> FALSE]
Renewed(d) == [DeviceOf(d) EXCEPT !.epoch = CurrentEpoch, !.expired = FALSE]

\* _validate_change_cursor
CursorAccepted(c) == c.epoch = CurrentEpoch /\ c.seq >= retained

-----------------------------------------------------------------------------
(* pull_changes, and the client that applies the page with its cursor in   *)
(* one local transaction.  A response that is lost leaves no trace: the    *)
(* server stored nothing the next request depends on.                      *)

PullFrom(d) ==
  IF clients[d].cursor = NoCursor THEN DeviceOf(d).seq ELSE clients[d].cursor.seq

PullAccepted(d) ==
  /\ DeviceLive(d)
  /\ clients[d].cursor = NoCursor \/ CursorAccepted(clients[d].cursor)
  /\ PullFrom(d) >= retained

\* The first PageSize committed rows after sequence n.
PageInAnyOrder(n) ==  \* mutant: the newest rows first
  {r \in log : r.seq > n /\ Cardinality({q \in log : r.seq < q.seq}) < PageSize}
PageAfter(n) ==
  {r \in log : /\ r.seq > n
               /\ Cardinality({q \in log : n < q.seq /\ q.seq < r.seq}) < PageSize}

\* nextCursor: the last row of the page, or where the pull started.
NextCursor(n, page) == IF page = {} THEN n ELSE LastSeq(page)

\* The client's view once the rows of a page are applied in order.  A change
\* carries its version, so the client skips one older than what it holds.
Applied(view, page) ==
  [e \in Entity |-> IF LastSeq(RowsOf(page, e)) > view[e] THEN LastSeq(RowsOf(page, e)) ELSE view[e]]

Pull(d) ==
  /\ StreamFree
  /\ clients[d].stage = "pull"
  /\ PullAccepted(d)
  /\ LET page == PageAfter(PullFrom(d))
         next == NextCursor(PullFrom(d), page)
     IN clients' = [clients EXCEPT
                      ![d].cursor = [epoch |-> CurrentEpoch, seq |-> next],
                      ![d].view = Applied(@, page),
                      ![d].skipped = @ \cup Overtaken(next)]
  /\ devices' = [devices EXCEPT ![d] = Renewed(d)]
  /\ epoch' = CurrentEpoch
  /\ UNCHANGED <<writeVars, log, retained, aged, compaction, faults>>

\* SYNC_CURSOR_EXPIRED: nothing is stored, the client turns to the snapshot.
PullExpired(d) ==
  /\ StreamFree
  /\ clients[d].stage = "pull"
  /\ ~PullAccepted(d)
  /\ clients' = [clients EXCEPT ![d].stage = "recover"]
  /\ UNCHANGED <<writeVars, log, streamVars, aged, compaction, devices, faults>>

-----------------------------------------------------------------------------
(* acknowledge_cursor.  The request may be delayed past newer ones.        *)

SendAck(d) ==
  /\ clients[d].cursor # NoCursor
  /\ clients' = [clients EXCEPT ![d].ack = clients[d].cursor]
  /\ UNCHANGED <<writeVars, log, streamVars, aged, compaction, devices, faults>>

\* cursor_sequence after an accepted acknowledgement of sequence n.
AckRegardless(current, n) == n  \* mutant: the request that arrives last wins
AckedSeq(current, n) == IF n > current THEN n ELSE current

Acknowledge(d, c) ==
  /\ StreamFree
  /\ c # NoCursor
  /\ DeviceLive(d)
  /\ CursorAccepted(c)
  /\ devices' = [devices EXCEPT ![d] = [Renewed(d) EXCEPT !.seq = AckedSeq(@, c.seq)]]
  /\ UNCHANGED <<writeVars, log, streamVars, aged, compaction, clients, faults>>

-----------------------------------------------------------------------------
(* snapshot_entities.  The first page pins the boundary in one statement   *)
(* and reads the page in the next; both run under the stream lock.         *)

SnapshotPin(d) ==
  /\ StreamFree
  /\ clients[d].stage = "recover"
  /\ clients' = [clients EXCEPT
                   ![d].stage = "pinned",
                   ![d].snap = [epoch |-> CurrentEpoch, boundary |-> LastSeq(log),
                                last |-> 0, view |-> EmptyView,
                                skipped |-> Overtaken(LastSeq(log))]]
  /\ UNCHANGED <<writeVars, log, streamVars, aged, compaction, devices, faults>>

\* Sequence of the newest row of each entity at or below the boundary, 0 if none.
LatestVersion(e, boundary) == LastSeq(RowsOf(log, e))  \* mutant: boundary ignored
VersionAt(e, boundary) == LastSeq(RowsOf(UpTo(log, boundary), e))

\* Entities of the next page, in order, after entity "last".
RemainingFrom(boundary, last) ==  \* mutant: the last entity of a page opens the next
  {e \in Entity : e >= last /\ RowsOf(UpTo(log, boundary), e) # {}}
Remaining(boundary, last) ==
  {e \in Entity : e > last /\ RowsOf(UpTo(log, boundary), e) # {}}
SnapshotPageOf(boundary, last) ==
  {e \in Remaining(boundary, last) :
     Cardinality({f \in Remaining(boundary, last) : f < e}) < PageSize}

SnapshotPage(d) ==
  LET snap == clients[d].snap
      page == SnapshotPageOf(snap.boundary, snap.last)
      view == [e \in Entity |-> IF e \in page THEN VersionAt(e, snap.boundary) ELSE snap.view[e]]
      hasMore == page # Remaining(snap.boundary, snap.last)
  IN
  /\ \/ clients[d].stage = "pinned"
     \/ clients[d].stage = "paging" /\ StreamFree /\ snap.epoch = epoch
  /\ clients' =
       IF hasMore
       THEN [clients EXCEPT ![d].stage = "paging",
                            ![d].snap.view = view,
                            ![d].snap.last = Max(page)]
       ELSE [clients EXCEPT ![d].stage = "pull",
                            ![d].cursor = [epoch |-> snap.epoch, seq |-> snap.boundary],
                            ![d].view = view,
                            ![d].skipped = snap.skipped,
                            ![d].snap = NoSnapshot]
  /\ devices' = [devices EXCEPT ![d] = Renewed(d)]
  /\ epoch' = CurrentEpoch
  /\ UNCHANGED <<writeVars, log, retained, aged, compaction, faults>>

\* SYNC_SNAPSHOT_EXPIRED: the epoch rotated between two pages.
SnapshotExpired(d) ==
  /\ StreamFree
  /\ clients[d].stage = "paging"
  /\ clients[d].snap.epoch # epoch
  /\ clients' = [clients EXCEPT ![d].stage = "recover", ![d].snap = NoSnapshot]
  /\ UNCHANGED <<writeVars, log, streamVars, aged, compaction, devices, faults>>

-----------------------------------------------------------------------------
(* compact_sync_stream: lock the stream and choose the boundary, count the *)
(* rows to delete, then move the horizon, rotate the epoch and delete.     *)

\* Time passes: committed rows up to a sequence leave the retention window.
\* No transaction stays open for that long.
RetentionPasses ==
  /\ InFlight = {}
  /\ StreamFree
  /\ \E n \in Seqs(published) : n > aged /\ aged' = n
  /\ UNCHANGED <<writeVars, log, streamVars, compaction, devices, clients, faults>>

\* Just below the first committed row inside the retention window.
Boundary ==
  LET recent == {n \in Seqs(log) : n > aged}
  IN IF recent = {} THEN LastSeq(log) ELSE Min(recent) - 1

\* Row r has a successor of the same entity at or below the horizon.
SupersededByAny(r, horizon) ==  \* mutant: by a row beyond the horizon, as before revision 0027
  \E l \in log : l.entity = r.entity /\ l.seq > r.seq
Superseded(r, horizon) ==
  \E l \in log : l.entity = r.entity /\ l.seq > r.seq /\ l.seq <= horizon

\* The rows _deletable_predicate selects.
Doomed(boundary) == {r \in UpTo(log, boundary) : Superseded(r, boundary)}

\* The trigger guard_sync_change_log_mutation lets row r be deleted.
GuardAllows(r, horizon) == r.seq <= horizon /\ Superseded(r, horizon)

CompactBegin ==
  /\ StreamFree
  /\ epoch > 0
  /\ epoch < MaxEpoch
  /\ Boundary > retained
  /\ compaction' = [stage |-> "counting", boundary |-> Boundary, count |-> 0]
  /\ UNCHANGED <<writeVars, log, streamVars, aged, devices, clients, faults>>

CompactCount ==
  /\ compaction.stage = "counting"
  /\ compaction' = [compaction EXCEPT !.stage = "deleting",
                                      !.count = Cardinality(Doomed(compaction.boundary))]
  /\ UNCHANGED <<writeVars, log, streamVars, aged, devices, clients, faults>>

\* The epoch rotates with every move of the horizon.
SameEpoch == epoch  \* mutant
NextEpoch == epoch + 1

CompactDelete ==
  LET boundary == compaction.boundary
      doomed == Doomed(boundary)
  IN
  /\ compaction.stage = "deleting"
  /\ Cardinality(doomed) = compaction.count
  /\ \A r \in doomed : GuardAllows(r, boundary)
  /\ retained' = boundary
  /\ epoch' = NextEpoch
  /\ log' = log \ doomed
  /\ compaction' = Idle
  /\ UNCHANGED <<writeVars, aged, devices, clients, faults>>

\* A dry run, a candidate count that changed, or a lost connection: the
\* transaction ends without a write.
CompactRollback ==
  /\ compaction.stage = "deleting"
  /\ compaction' = Idle
  /\ UNCHANGED <<writeVars, log, streamVars, aged, devices, clients, faults>>

Compact == CompactBegin \/ CompactCount \/ CompactDelete \/ CompactRollback

-----------------------------------------------------------------------------
(* Faults.                                                                 *)

\* The row of a device outlives expires_at.
ExpireDevice(d) ==
  /\ faults < MaxFaults
  /\ StreamFree
  /\ devices[d].epoch # 0
  /\ devices' = [devices EXCEPT ![d].expired = TRUE]
  /\ faults' = faults + 1
  /\ UNCHANGED <<writeVars, log, streamVars, aged, compaction, clients>>

\* The client loses its cursor and falls back on the acknowledged one.
ForgetCursor(d) ==
  /\ faults < MaxFaults
  /\ clients[d].stage = "pull"
  /\ clients[d].cursor # NoCursor
  /\ clients' = [clients EXCEPT ![d].cursor = NoCursor]
  /\ faults' = faults + 1
  /\ UNCHANGED <<writeVars, log, streamVars, aged, compaction, devices>>

\* A snapshot ends before its last page: the request fails, the client restarts.
AbandonSnapshot(d) ==
  /\ faults < MaxFaults
  /\ clients[d].stage \in {"pinned", "paging"}
  /\ clients' = [clients EXCEPT ![d].stage = "recover", ![d].snap = NoSnapshot]
  /\ faults' = faults + 1
  /\ UNCHANGED <<writeVars, log, streamVars, aged, compaction, devices>>

-----------------------------------------------------------------------------
Read(d) == Pull(d) \/ PullExpired(d) \/ SnapshotPin(d) \/ SnapshotPage(d) \/ SnapshotExpired(d)

Ack(d) ==
  \/ SendAck(d)
  \/ Acknowledge(d, clients[d].cursor)
  \/ Acknowledge(d, clients[d].ack)

Fault(d) == ExpireDevice(d) \/ ForgetCursor(d) \/ AbandonSnapshot(d)

Next ==
  \/ \E w \in Writer : Write(w)
  \/ \E d \in Device : Read(d) \/ Ack(d) \/ Fault(d)
  \/ RetentionPasses
  \/ Compact

Spec == Init /\ [][Next]_vars

(***************************************************************************)
(* Open transactions end: each one serves a single request, and Rollback    *)
(* stays possible; a running compaction reaches its end; and a device that  *)
(* keeps polling is served again and again, however often the stream row is *)
(* locked by others: PostgreSQL queues the waiters of a row lock.           *)
(***************************************************************************)
Fairness ==
  /\ \A w \in Writer : WF_vars(Rollback(w) \/ Commit(w))
  /\ WF_vars(CompactCount) /\ WF_vars(CompactDelete \/ CompactRollback)
  /\ \A d \in Device : SF_vars(Read(d))

FairSpec == Spec /\ Fairness

-----------------------------------------------------------------------------
(* Properties.                                                             *)

\* Every variable keeps its type.
TypeOK ==
  /\ seqCounter \in Nat
  /\ pending \in [Writer -> SUBSET Row]
  /\ published \subseteq Row
  /\ log \subseteq Row
  /\ epoch \in Nat
  /\ retained \in Nat
  /\ aged \in Nat
  /\ compaction \in Compaction
  /\ devices \in [Device -> DeviceRow]
  /\ clients \in [Device -> Client]
  /\ faults \in Nat

\* The anchor invariant of compaction: whatever boundary at or above the
\* retained horizon a snapshot pins, the compacted log holds, for each row ever
\* committed up to it, that row or a later one of its entity up to the boundary.
\* So a snapshot reads from the compacted log what it would from the full one.
SnapshotExact ==
  \A r \in published : \A b \in retained .. seqCounter :
    r.seq <= b => \E l \in log : /\ l.entity = r.entity
                                /\ r.seq <= l.seq
                                /\ l.seq <= b

\* Client d has applied row r or a later row of the same entity.
Holds(d, r) == clients[d].view[r.entity] >= r.seq

\* What "an opaque cursor encodes the last committed sequence" promises: every
\* row committed up to a client's cursor has reached that client.
CursorCovers ==
  \A d \in Device, r \in published : r.seq <= clients[d].cursor.seq => Holds(d, r)

\* What pull, snapshot, expiry and compaction do guarantee: a client can only
\* miss a row that was still in flight when the client's cursor moved past it.
\* cursor_sequence runs no further ahead of the client: falling back on it (a
\* pull without a cursor) loses no other row.
CoveredUnlessOvertaken ==
  \A d \in Device, r \in published :
    r.seq <= clients[d].cursor.seq \/ r.seq <= devices[d].seq
      => Holds(d, r) \/ r.seq \in clients[d].skipped

\* The epoch rotates with every move of the horizon, so a cursor of the current
\* epoch never precedes retained history: a completed snapshot can be resumed.
CurrentCursorRetained ==
  \A d \in Device :
    /\ clients[d].cursor.epoch = epoch => clients[d].cursor.seq >= retained
    /\ clients[d].snap.epoch = epoch => clients[d].snap.boundary >= retained

\* The pages of one snapshot reconstruct the state at its boundary: each entity
\* already paged has its newest version up to the boundary, whatever was
\* committed or compacted between the pages, unless one of its rows was
\* overtaken by the boundary.
PagesReconstructBoundary ==
  \A d \in Device, e \in Entity :
    LET snap == clients[d].snap
    IN  /\ clients[d].stage = "paging"
        /\ e <= snap.last
        /\ Seqs(RowsOf(published, e)) \cap snap.skipped = {}
        => snap.view[e] = LastSeq(RowsOf(UpTo(published, snap.boundary), e))

\* The acknowledged sequence of a device only moves forward, under delayed and
\* repeated acknowledgements, expiry, recovery and epoch rotation.
AckMonotone == [][\A d \in Device : devices'[d].seq >= devices[d].seq]_devices

\* A device that keeps polling gets every committed change, whatever expires,
\* is compacted or is restarted on the way (one writer: nothing is overtaken).
CatchesUp ==
  \A d \in Device, e \in Entity : \A n \in 1 .. MaxSeq :
    [seq |-> n, entity |-> e] \in published ~> clients[d].view[e] >= n
=============================================================================
