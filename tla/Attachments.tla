---------------------------- MODULE Attachments ----------------------------
(***************************************************************************)
(* The bytes of sync attachments: uploads in chunks, the content-addressed *)
(* blob row and its file, the references to it, and the maintenance job    *)
(* (services/attachment_transfers.py, attachment_maintenance.py,           *)
(* attachment_storage.py, the triggers of alembic 0021).                   *)
(*                                                                         *)
(* All references of the model have one content, so they share one blob:   *)
(* different contents meet only in the checks of their metadata.           *)
(* Transactions are READ COMMITTED.  A step that waits is a step that      *)
(* takes a row lock; rows written are seen by others after the commit,     *)
(* which is the last step of a transaction and gives its locks back.       *)
(* Files belong to no transaction.                                         *)
(***************************************************************************)
EXTENDS Naturals, FiniteSets

CONSTANTS
    Worker,      \* threads that serve requests
    Ref,         \* attachments: the sync entity and its reference row
    Key,         \* idempotency keys of one device
    NChunk,      \* chunks of an upload
    MaxUpload,   \* bound on the upload prefixes in use
    TTL, Grace, Retention,  \* UPLOAD_TTL_HOURS, EXPIRED_UPLOAD_GRACE_DAYS, ATTACHMENT_RETENTION_DAYS
    MaxTime,     \* bound on the clock
    None         \* no row, no time

ASSUME ChunkAssumption == NChunk \in Nat \ {0}
ASSUME TimeAssumption == {TTL, Grace, Retention} \subseteq Nat \ {0} /\ MaxTime \in Nat
ASSUME BoundAssumption == IsFiniteSet(Ref) /\ MaxUpload \in Nat

Collector == "collector"
ASSUME CollectorAssumption == Collector \notin Worker
Actor == Worker \cup {Collector}
UploadId == 1..MaxUpload
Time == 0..(MaxTime + TTL + Retention)

VARIABLES
    clock,       \* days, coarsely
    deleted,     \* the attachments whose sync entity is a tombstone
    ref,         \* attachment_references
    blob,        \* attachment_blobs: the row of the content
    file,        \* the blob file is in the store
    upload,      \* attachment_upload_sessions with their chunk rows
    chunkFile,   \* chunk files in the store: <<upload, ordinal>>
    job,         \* what each worker is doing
    sweep,       \* what the maintenance job is doing
    held,        \* the row locks of every transaction
    sweptLate    \* for the properties: a file went after its content had been uploaded again

rows == <<deleted, ref, blob, upload>>
vars == <<clock, rows, file, chunkFile, job, sweep, held, sweptLate>>

RefRow == [bound: BOOLEAN, tombstone: BOOLEAN, retention: Time]
BlobRow == [status: {"pending", "available", "quarantined"}, count: 0..Cardinality(Ref),
            created: Time, gc: Time \cup {None}]
UploadRow == [key: Key, ref: Ref, status: {"initiated", "uploading", "completed", "expired"},
              chunks: SUBSET (1..NChunk), expires: Time]
ASSUME NoneAssumption == None \notin RefRow \cup BlobRow \cup UploadRow
Lock == {<<"blob">>} \cup ({"ref"} \X Ref) \cup ({"upload"} \X UploadId)
Blob == <<"blob">>
RefLock(r) == <<"ref", r>>
UploadLock(u) == <<"upload", u>>

Idle == [pc |-> "idle"]
Job == {Idle}
       \cup [pc: {"identify", "insert", "lock"}, key: Key, ref: Ref]
       \cup [pc: {"assembled", "bind"}, up: UploadId]
       \cup [pc: {"lifecycle"}, ref: Ref, kind: {"delete", "restore"}, at: Time]
       \cup [pc: {"damaged"}]

(***************************************************************************)
(* The type invariant: every row, job and lock is of its kind.             *)
(***************************************************************************)
TypeOK ==
    /\ clock \in 0..MaxTime
    /\ deleted \subseteq Ref
    /\ ref \in [Ref -> RefRow \cup {None}]
    /\ blob \in BlobRow \cup {None}
    /\ file \in BOOLEAN
    /\ upload \in [UploadId -> UploadRow \cup {None}]
    /\ chunkFile \subseteq UploadId \X (1..NChunk)
    /\ job \in [Worker -> Job]
    /\ sweep \in [pc: {"idle", "blobs", "collect", "files"}, now: Time, keys: SUBSET ({Blob} \cup chunkFile)]
    /\ held \in [Actor -> SUBSET Lock]
    /\ sweptLate \in BOOLEAN

Init ==
    /\ clock = 0
    /\ deleted = {}
    /\ ref = [r \in Ref |-> None]
    /\ blob = None
    /\ file = FALSE
    /\ upload = [u \in UploadId |-> None]
    /\ chunkFile = {}
    /\ job = [w \in Worker |-> Idle]
    /\ sweep = [pc |-> "idle", now |-> 0, keys |-> {}]
    /\ held = [a \in Actor |-> {}]
    /\ sweptLate = FALSE

(***************************************************************************)
(* Rows and locks.                                                         *)
(***************************************************************************)
Free(a, l) == \A b \in Actor \ {a} : l \notin held[b]
Take(a, locks) == held' = [held EXCEPT ![a] = @ \cup locks]
Release(a) == held' = [held EXCEPT ![a] = {}]
Goto(w, j) == job' = [job EXCEPT ![w] = j]
End(w) == Goto(w, Idle) /\ Release(w)

Uploads == {u \in UploadId : upload[u] # None}
\* A new upload has a public id, and so a storage prefix, never used before.
Unused == {u \in UploadId : upload[u] = None /\ \A o \in 1..NChunk : <<u, o>> \notin chunkFile}
Owned(r) == r \notin deleted
OfKey(k) == {u \in Uploads : upload[u].key = k}
Missing(u) == 1..NChunk \ upload[u].chunks
Expired(u, now) == upload[u].expires <= now
Live(row) == row # None /\ row.bound /\ ~row.tombstone
Latest(a, b) == IF a = None \/ a < b THEN b ELSE a

NewRef == [bound |-> FALSE, tombstone |-> FALSE, retention |-> 0]
NewBlob == [status |-> "pending", count |-> 0, created |-> clock, gc |-> None]

\* The reference after an initiation: what it was bound to stays.
ReboundAfresh(old, shared) == [NewRef EXCEPT !.bound = shared]  \* mutant: the row found is overwritten
Rebound(old, shared) == [(IF old = None THEN NewRef ELSE old) EXCEPT !.bound = @ \/ shared]

NewUpload(k, r, done) ==
    [key |-> k, ref |-> r, status |-> IF done THEN "completed" ELSE "initiated",
     chunks |-> {}, expires |-> clock + TTL]

\* maintain_attachment_blob_reference_count: the trigger after a reference
\* row changed from old to new.  The bound on collection only grows.
Counted(b, old, new) ==
    IF Live(old) /\ ~Live(new)
    THEN [b EXCEPT !.count = @ - 1, !.gc = Latest(@, new.retention)]
    ELSE IF Live(new) /\ ~Live(old) THEN [b EXCEPT !.count = @ + 1] ELSE b

\* FilesystemAttachmentStorage: a file is written aside and renamed, so it is
\* there whole or not at all; content that is there already is kept.
WriteChunk(u, o) == chunkFile' = chunkFile \cup {<<u, o>>}
CanAssemble(u) == file \/ ({u} \X (1..NChunk)) \subseteq chunkFile
Remove(key) ==
    IF key = Blob THEN file' = FALSE /\ UNCHANGED chunkFile
                  ELSE chunkFile' = chunkFile \ {key} /\ UNCHANGED file

(***************************************************************************)
(* initiate_attachment_upload.  The lookup answers a key that is known     *)
(* (the receipt, 409 for another request, 410 when expired): no row        *)
(* changes.  Otherwise the sync entity must be alive.                      *)
(***************************************************************************)
Initiate(w, k, r) ==
    /\ job[w] = Idle
    /\ OfKey(k) = {}
    /\ Owned(r)
    /\ Unused # {}
    /\ Goto(w, [pc |-> "identify", key |-> k, ref |-> r])
    /\ UNCHANGED <<clock, rows, file, chunkFile, sweep, held, sweptLate>>

\* _reference: insert or find the row and lock it.  A lock on the reference
\* stands for its entity row too, which the trigger of the insert locks and
\* a push locks before the reference.
Identify(w) ==
    /\ job[w].pc = "identify"
    /\ LET r == job[w].ref IN
        /\ Free(w, RefLock(r))
        /\ IF ref[r] # None /\ ref[r].tombstone
           THEN End(w)
           ELSE Goto(w, [job[w] EXCEPT !.pc = "insert"]) /\ Take(w, {RefLock(r)})
    /\ UNCHANGED <<clock, rows, file, chunkFile, sweep, sweptLate>>

\* The rest of the transaction once the blob row is locked.  A file that
\* verifies is shared; an available blob without it is quarantined.  A key
\* that was committed meanwhile violates its unique constraint: rollback,
\* and the receipt of the winner.
Initiated(w, b) ==
    LET j == job[w]
        shared == b.status = "available" /\ file
        old == ref[j.ref]
        new == Rebound(old, shared)
        u == CHOOSE i \in Unused : \A k \in Unused : i <= k
    IN  IF OfKey(j.key) # {}
        THEN UNCHANGED <<ref, blob, upload>>
        ELSE /\ Unused # {}
             /\ ref' = [ref EXCEPT ![j.ref] = new]
             /\ blob' = IF b.status = "available" /\ ~shared
                        THEN [b EXCEPT !.status = "quarantined"]
                        ELSE Counted(b, old, new)
             /\ upload' = [upload EXCEPT ![u] = NewUpload(j.key, j.ref, shared)]

\* INSERT ... ON CONFLICT DO NOTHING: either this transaction inserts the
\* blob row and owns it, or the row it met is locked next.
InsertBlob(w) ==
    /\ job[w].pc = "insert"
    /\ IF blob = None
       THEN /\ Free(w, Blob)
            /\ Initiated(w, NewBlob)
            /\ End(w)
       ELSE /\ Goto(w, [job[w] EXCEPT !.pc = "lock"])
            /\ UNCHANGED <<ref, blob, upload, held>>
    /\ UNCHANGED <<clock, deleted, file, chunkFile, sweep, sweptLate>>

\* The row may be gone when the lock is granted: 422, nothing is kept.
LockBlob(w) ==
    /\ job[w].pc = "lock"
    /\ Free(w, Blob)
    /\ IF blob = None THEN UNCHANGED <<ref, blob, upload>> ELSE Initiated(w, blob)
    /\ End(w)
    /\ UNCHANGED <<clock, deleted, file, chunkFile, sweep, sweptLate>>

(***************************************************************************)
(* upload_attachment_chunk.  The file is written before the row; a crash   *)
(* between the two leaves the file, and the retry finds it.                *)
(***************************************************************************)
Chunk(w, u, o) ==
    /\ job[w] = Idle
    /\ u \in Uploads
    /\ Free(w, UploadLock(u))
    /\ upload[u].status # "completed" /\ ~Expired(u, clock)
    /\ o \notin upload[u].chunks
    /\ WriteChunk(u, o)
    /\ \/ upload' = [upload EXCEPT ![u].chunks = @ \cup {o}, ![u].status = "uploading"]
       \/ UNCHANGED upload
    /\ UNCHANGED <<clock, deleted, ref, blob, file, job, sweep, held, sweptLate>>

AssembleLater(w, u) ==  \* mutant: the file is left to the first download
    /\ job[w] = Idle
    /\ u \in Uploads
    /\ Free(w, UploadLock(u))
    /\ upload[u].status # "completed" /\ ~Expired(u, clock)
    /\ Missing(u) = {}
    /\ Goto(w, [pc |-> "assembled", up |-> u])
    /\ Take(w, {UploadLock(u)})
    /\ UNCHANGED <<clock, rows, file, chunkFile, sweep, sweptLate>>

(***************************************************************************)
(* complete_attachment_upload.  The upload row is locked, then the file is *)
(* assembled (or found) before the blob row is looked at.                  *)
(***************************************************************************)
Assemble(w, u) ==
    /\ job[w] = Idle
    /\ u \in Uploads
    /\ Free(w, UploadLock(u))
    /\ upload[u].status # "completed" /\ ~Expired(u, clock)
    /\ Missing(u) = {}
    /\ CanAssemble(u)
    /\ file' = TRUE
    /\ Goto(w, [pc |-> "assembled", up |-> u])
    /\ Take(w, {UploadLock(u)})
    /\ UNCHANGED <<clock, rows, chunkFile, sweep, sweptLate>>

\* No blob row is 422; a tombstoned reference, read without its lock, 409.
\* Both roll back.
Verify(w) ==
    /\ job[w].pc = "assembled"
    /\ Free(w, Blob)
    /\ IF blob = None \/ ref[upload[job[w].up].ref].tombstone
       THEN End(w)
       ELSE Goto(w, [job[w] EXCEPT !.pc = "bind"]) /\ Take(w, {Blob})
    /\ UNCHANGED <<clock, rows, file, chunkFile, sweep, sweptLate>>

\* The update of the reference waits for its lock and runs its triggers on
\* the row it then finds.
Bind(w) ==
    /\ job[w].pc = "bind"
    /\ LET u == job[w].up
           r == upload[u].ref
           new == [ref[r] EXCEPT !.bound = TRUE]
       IN  /\ Free(w, RefLock(r))
           /\ ref' = [ref EXCEPT ![r] = new]
           /\ blob' = Counted([blob EXCEPT !.status = "available"], ref[r], new)
           /\ upload' = [upload EXCEPT ![u].status = "completed"]
    /\ End(w)
    /\ UNCHANGED <<clock, deleted, file, chunkFile, sweep, sweptLate>>

(***************************************************************************)
(* apply_attachment_reference_lifecycle, called by a push or a resolution  *)
(* that deletes or restores the attachment entity and holds its row.       *)
(***************************************************************************)
\* The reference row after a deletion or a restoration at time t.
Marked(row, kind, t) ==
    IF kind = "delete" /\ ~row.tombstone
    THEN [row EXCEPT !.tombstone = TRUE, !.retention = t + Retention]
    ELSE IF kind = "restore" /\ row.tombstone
    THEN [row EXCEPT !.tombstone = FALSE, !.retention = 0]
    ELSE row

Toggle(r, kind) == deleted' = IF kind = "delete" THEN deleted \cup {r} ELSE deleted \ {r}

Lifecycle(w, r, kind) ==
    /\ job[w] = Idle
    /\ Free(w, RefLock(r))
    /\ (kind = "delete") <=> (r \notin deleted)
    /\ IF ref[r] # None /\ ref[r].bound /\ Marked(ref[r], kind, clock) # ref[r]
       THEN /\ Goto(w, [pc |-> "lifecycle", ref |-> r, kind |-> kind, at |-> clock])
            /\ Take(w, {RefLock(r)})
            /\ UNCHANGED <<deleted, ref>>
       ELSE /\ Toggle(r, kind)
            /\ ref' = IF ref[r] = None THEN ref ELSE [ref EXCEPT ![r] = Marked(@, kind, clock)]
            /\ UNCHANGED <<job, held>>
    /\ UNCHANGED <<clock, blob, file, upload, chunkFile, sweep, sweptLate>>

\* The trigger changes the count and so waits for the blob row.
LifecycleCount(w) ==
    /\ job[w].pc = "lifecycle"
    /\ Free(w, Blob)
    /\ LET r == job[w].ref
           new == Marked(ref[r], job[w].kind, job[w].at)
       IN  /\ ref' = [ref EXCEPT ![r] = new]
           /\ blob' = Counted(blob, ref[r], new)
           /\ Toggle(r, job[w].kind)
    /\ End(w)
    /\ UNCHANGED <<clock, file, upload, chunkFile, sweep, sweptLate>>

(***************************************************************************)
(* download_attachment: the grant is read without locks; content that does *)
(* not verify quarantines the blob in an update that may come late.  The   *)
(* grant joins the entity the attachment hangs on: whether that one is a   *)
(* tombstone is left open, so a download of a live reference may be        *)
(* refused at any time, and is allowed at any time.                        *)
(***************************************************************************)
Granted(r) == Live(ref[r]) /\ blob.status = "available"

Damaged(w, r) ==
    /\ job[w] = Idle
    /\ Granted(r)
    /\ ~file
    /\ Goto(w, [pc |-> "damaged"])
    /\ UNCHANGED <<clock, rows, file, chunkFile, sweep, held, sweptLate>>

Quarantine(w) ==
    /\ job[w].pc = "damaged"
    /\ Free(w, Blob)
    /\ blob' = [blob EXCEPT !.status = "quarantined"]
    /\ End(w)
    /\ UNCHANGED <<clock, deleted, ref, file, upload, chunkFile, sweep, sweptLate>>

\* A crash, a lost connection or the victim of a deadlock: the transaction
\* is rolled back, files stay.
Abort(w) ==
    /\ job[w] # Idle
    /\ End(w)
    /\ UNCHANGED <<clock, rows, file, chunkFile, sweep, sweptLate>>

(***************************************************************************)
(* run_attachment_maintenance.  First transaction: mark expired uploads,   *)
(* delete those beyond the grace.  Locked rows are skipped.                *)
(***************************************************************************)
Overdue == {u \in Uploads : upload[u].status # "completed" /\ Expired(u, clock) /\ Free(Collector, UploadLock(u))}

SweepUploads ==
    /\ sweep.pc = "idle"
    /\ LET gone == {u \in Overdue : upload[u].expires + Grace <= clock} IN
        /\ upload' = [u \in UploadId |-> IF u \in gone THEN None
                                         ELSE IF u \in Overdue THEN [upload[u] EXCEPT !.status = "expired"]
                                         ELSE upload[u]]
        /\ sweep' = [pc |-> "blobs", now |-> clock,
                     keys |-> {c \in chunkFile : c[1] \in gone /\ c[2] \in upload[c[1]].chunks}]
    /\ UNCHANGED <<clock, deleted, ref, blob, file, chunkFile, job, held, sweptLate>>

\* Second transaction: lock the blob when nothing counts it and its time
\* has come.
Collectable(b, now) ==
    /\ b # None /\ b.count = 0
    /\ \/ b.gc # None /\ b.gc <= now
       \/ b.status # "available" /\ b.created + Grace <= now

SelectBlob ==
    /\ sweep.pc = "blobs"
    /\ IF Collectable(blob, sweep.now) /\ Free(Collector, Blob)
       THEN sweep' = [sweep EXCEPT !.pc = "collect"] /\ Take(Collector, {Blob})
       ELSE sweep' = [sweep EXCEPT !.pc = "files"] /\ UNCHANGED held
    /\ UNCHANGED <<clock, rows, file, chunkFile, job, sweptLate>>

InUseByReferences(now) ==  \* mutant: uploads in progress are not asked for
    \/ \E r \in Ref : Live(ref[r])
    \/ \E r \in Ref : ref[r] # None /\ ref[r].bound /\ ref[r].retention > now

\* The counts are read again, in the rows and not in the counter.
InUse(now) ==
    \/ \E r \in Ref : Live(ref[r])
    \/ \E r \in Ref : ref[r] # None /\ ref[r].bound /\ ref[r].retention > now
    \/ \E u \in Uploads : ~Expired(u, now)

\* Completed uploads of the blob go, tombstones are detached, and the row
\* is deleted; a quarantine on its way finds no row.
CollectBlob ==
    /\ sweep.pc = "collect"
    /\ LET detached == {r \in Ref : ref[r] # None /\ ref[r].bound} IN
        IF InUse(sweep.now)
        THEN sweep' = [sweep EXCEPT !.pc = "files"] /\ UNCHANGED <<ref, blob, upload, job>>
        ELSE /\ \A r \in detached : Free(Collector, RefLock(r))
             /\ ref' = [r \in Ref |-> IF r \in detached THEN [ref[r] EXCEPT !.bound = FALSE] ELSE ref[r]]
             /\ upload' = [u \in UploadId |-> IF u \in Uploads /\ upload[u].status = "completed"
                                              THEN None ELSE upload[u]]
             /\ blob' = None
             /\ job' = [w \in Worker |-> IF job[w].pc = "damaged" THEN Idle ELSE job[w]]
             /\ sweep' = [sweep EXCEPT !.pc = "files", !.keys = @ \cup {Blob}]
    /\ Release(Collector)
    /\ UNCHANGED <<clock, deleted, file, chunkFile, sweptLate>>

\* After the commits the files are deleted, without any lock.
DeleteFile(key) ==
    /\ sweep.pc = "files"
    /\ key \in sweep.keys
    /\ sweep' = [sweep EXCEPT !.keys = @ \ {key}]
    /\ Remove(key)
    /\ sweptLate' = \/ sweptLate
                    \/ /\ key = Blob
                       /\ blob # None \/ \E w \in Worker : job[w].pc \in {"assembled", "bind"}
    /\ UNCHANGED <<clock, rows, job, held>>

\* The run ends, or the process dies and the keys are forgotten.
EndSweep ==
    /\ sweep.pc # "idle"
    /\ sweep.pc = "files" => sweep.keys = {}
    /\ sweep' = [sweep EXCEPT !.pc = "idle", !.keys = {}, !.now = 0]
    /\ Release(Collector)
    /\ UNCHANGED <<clock, rows, file, chunkFile, job, sweptLate>>

Tick ==
    /\ clock < MaxTime
    /\ clock' = clock + 1
    /\ UNCHANGED <<rows, file, chunkFile, job, sweep, held, sweptLate>>

Transfer(w) ==
    \/ \E k \in Key, r \in Ref : Initiate(w, k, r)
    \/ Identify(w) \/ InsertBlob(w) \/ LockBlob(w)
    \/ \E u \in UploadId, o \in 1..NChunk : Chunk(w, u, o)
    \/ \E u \in UploadId : Assemble(w, u)
    \/ Verify(w) \/ Bind(w)
    \/ \E r \in Ref, kind \in {"delete", "restore"} : Lifecycle(w, r, kind)
    \/ LifecycleCount(w)
    \/ \E r \in Ref : Damaged(w, r)
    \/ Quarantine(w)
    \/ Abort(w)

Maintain ==
    \/ SweepUploads \/ SelectBlob \/ CollectBlob
    \/ \E key \in sweep.keys : DeleteFile(key)
    \/ EndSweep

Next == (\E w \in Worker : Transfer(w)) \/ Maintain \/ Tick

Spec == Init /\ [][Next]_vars

(***************************************************************************)
(* Properties.                                                             *)
(***************************************************************************)

\* The counter of the blob is the number of live references bound to it,
\* whatever deletes, restores and completions interleave
\* (alembic 0021: the two triggers).
CountExact ==
    /\ blob # None => blob.count = Cardinality({r \in Ref : Live(ref[r])})
    /\ blob = None => \A r \in Ref : ref[r] # None => ~ref[r].bound

\* An upload that has not expired can be completed: its blob row is not
\* collected while it lasts (attachment_maintenance.py:173-185).
UploadKeepsBlob ==
    \A u \in Uploads : ~Expired(u, clock) \/ upload[u].status = "completed" => blob # None

\* A chunk that has a row has its file: the file is written first and goes
\* after the row (attachment_transfers.py:353-370, attachment_maintenance.py:117-131, 206).
ChunksStored ==
    \A u \in Uploads : upload[u].status # "completed" => ({u} \X upload[u].chunks) \subseteq chunkFile

\* The rows and files of the attachments are consistent at every step: every
\* variable has its type, the counter is exact, uploads have their blob and
\* chunk rows their files.
Consistent == TypeOK /\ CountExact /\ UploadKeepsBlob /\ ChunksStored

\* Available means the bytes are there, except when a collector deleted the
\* file of a row it had removed after the content was uploaded again.
AvailableUnlessSwept == blob # None /\ blob.status = "available" => file \/ sweptLate

\* A reference that is live, or whose retention has not passed, keeps the
\* blob it was given (docs/attachment-storage.md:28-30).
KeepsBindings ==
    \A r \in Ref : ref[r] # None /\ ref[r].bound /\ (~ref[r].tombstone \/ ref[r].retention > clock)
                  => ref'[r].bound
KeepsRetained == [][KeepsBindings]_vars
=============================================================================
