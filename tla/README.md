# A formal model of TestPaper-backend

TLA+ modules, TLC configurations and TLAPS proofs about the server in `src/`: a
FastAPI application over PostgreSQL (SQLAlchemy, `READ COMMITTED`), Redis and
Celery that keeps questions, papers, shared drafts, question banks and, for
offline clients, a synchronisation protocol.  Its correctness is decided by
interleavings: of transactions that read without locks, of the coroutines of an
event loop, of rows and files, of requests and their retries.

Run everything from this directory: `tlc -config MCSyncStream.cfg MCSyncStream`
model-checks a configuration, `tlapm SyncStreamProofs.tla` checks the proofs.
`PROJECT.json` lists the runs, the source lines behind each definition, the
hazards of the code and the mutation that shows each property able to fail.

## Inventory

Paths are under `src/testpaper_backend/` unless they start with `alembic` or
`scripts`.

| Component | State | Operations | Hard behaviour | Correct when |
|---|---|---|---|---|
| Sync push: `services/sync_push.py` | idempotency batches, operation results, entities, immutable versions, change log | `push_mutations`, one savepoint per operation | races on batch keys, operation ids, new entities; `IntegrityError` after a partial write; resent batches; crash before commit | one answer per key; an operation takes effect once or leaves nothing; versions of an entity form one chain |
| Sync conflicts: `services/sync_conflicts.py`, `services/conflict_rules.py` | conflicts with three-way evidence, resolutions, restorations | `create_conflict`, `resolve_conflict` (use local or cloud, merge, copy, restore, undo), `restore_version` | resolution against a changed entity; undo after undo; operation ids shared with push | evidence is kept exactly for answered conflicts; a resolution is applied once, to the version reviewed |
| Sync read: `services/sync_read.py` | stream row (epoch, horizon), device rows (acknowledged sequence, expiry), opaque cursors held by clients | `pull_changes`, `acknowledge_cursor`, `snapshot_entities` | rows that commit out of sequence order; delayed acknowledgements; expiry; compaction between pages | a client misses nothing; acknowledgements only advance; a snapshot shows one boundary |
| Sync compaction: `services/sync_compaction.py`, `scripts/compact_sync_change_log.py`, revisions 0026 and 0027 | stream row, change log | `compact_sync_stream`, the trigger on deletion | writers between the count and the deletion; cursors issued before | what remains answers every snapshot as before |
| Attachments: `services/attachment_*.py`, revision 0021 | blobs with reference counts (triggers), references, upload sessions, chunks, files | initiate, upload chunk, complete, download, maintenance | files and rows are not one transaction; the collector races uploads; lock order | a live reference to an available blob has its file |
| Authentication: `services/auth_sessions.py`, `security.py`, `users.py`, `profiles.py` | token rows with families, devices | register, log in, refresh, reuse detection, revoke, change password, deactivate | revocation misses rows of a refresh in flight | after a revocation answers, no token of the device or family works |
| Shared drafts: `services/drafts.py` | draft with revision, review status, collaborators, comments | update by base revision, collaborators, comments | rows are read without a lock | no update of a revision is lost; an approved draft has no open comment |
| Question banks: `services/banks.py` | banks, items, members, publications, subscriptions | edit, publish, withdraw, subscribe, fork | some operations lock the bank row, some do not | one active publication; versions only grow |
| Papers and questions: `services/papers.py`, `questions.py`, `metadata.py`, `repositories.py` | ordered question lists, questions, the metadata cache; corrections, revisions | create, rename, add, remove, reorder, replace, export; create, update, delete questions; correct | read and write back in separate sessions | no lost update; no dangling question |
| Paper generation: `services/paper_generation.py` | none (a function of its inputs and a random source) | marks, targets, genetic search | rounding at boundaries | the marks add up; candidates are distinct |
| Realtime: `services/realtime.py`, `api/routes/websocket.py` | connections, rooms, presence (local and Redis) | connect, subscribe, presence, broadcast, evict, disconnect | coroutines interleave at every `await` | no closed socket stays in a room; the limit per address holds |
| Rate limiting: `services/rate_limit.py` | a Redis counter, a local fallback | `check_rate_limit` | Redis fails; the fallback evicts | at most the limit in a window |
| Background tasks: `services/task_access.py`, `worker/` | task owner keys, Celery results | dispatch, status, exports, clean-up | two stores, partial failure | only the owner reads a result |
| Metrics, uploads of images, document layout, HTTP surface, configuration, migrations | - | - | formatting and input or output | not modelled |

How they interact: push and conflict resolution append to the change log which
read and compaction consume; both call the attachment reference lifecycle;
compaction expires the cursors of read by rotating the epoch; every handler
authenticates with a token; draft and paper handlers broadcast through realtime
after their commit.

## Modules

| Module | Role |
|---|---|
| `SyncStream` | the change stream: writers, pull, acknowledge, snapshot, compaction, clients, faults |
| `SyncStreamProofs` | the inductive invariants of `SyncStream`, of its writers and of its readers, and seven properties |
| `SyncLedger` | abstract: what a push promises (each key answered once, each operation effective once) |
| `SyncPush` | `push_mutations` with `create_conflict`, statement by statement; implements `SyncLedger` and the writers of `SyncStream` |
| `SyncReview` | abstract: what reviewing promises (a decision takes effect on the version looked at, or not at all, and once) |
| `SyncHistory` | `resolve_conflict` with undo, and `restore_version`; implements `SyncReview` |
| `SyncPushProofs` | the push transaction, and the two refinements |
| `AuthTokensProofs`, `AttachmentsProofs`, `BanksProofs`, `RealtimeProofs` | the inductive invariant of each component and the properties that follow |
| `PapersAndDraftsProofs` | the same for `Papers` and for `Drafts`, whose requests have one pattern: they read without a lock, decide, and write later; and for `PaperGeneration`, with lemmas on sums, orders, recursive functions and dealing in turns |
| `SyncHistoryProofs` | the locks of `SyncHistory`, that a retry meets its answer, what is read under the locks, and the refinement |
| `Attachments` | uploads, the blob row and its file, references with their triggers, the maintenance job |
| `AuthTokens` | registration, logins, rotation, reuse detection, revocations and expiry on the rows of `auth_tokens` |
| `Drafts` | shared drafts: updates under a revision, collaborators, comments, approval, announced revisions |
| `Banks` | question banks: items, members, publications, subscriptions, and who is shown what |
| `Realtime` | sockets, rooms, presence, broadcasts and evictions as coroutines of several processes |
| `Papers` | the question list of a paper across the sessions of a request, exports, questions, the metadata cache |
| `PaperGeneration` | candidates, targets, the genetic search and the distribution of marks |
| `MC<module>` | the instance of each that TLC checks; `MCSyncStream` and `MCSyncPush` have two configurations |

The modules do not share variables.  Where components meet, one module takes the
other's part as the code leaves it: `SyncPush` is shown to write the change log
as `SyncStream` assumes of its writers (`ImplementsWriter`); `SyncHistory` treats
a push as one step under the entity's lock, which `SyncPush` shows; `Attachments`
contains the call that a push or a resolution makes
(`apply_attachment_reference_lifecycle`) as `Lifecycle`; `Realtime` contains the
background tasks of the draft routes, and `Drafts` the revisions they announce.

### SyncStream

One account, scope `personal`.  `log` holds the committed rows of
`sync_change_log`, `pending[w]` the rows a transaction has flushed, `published`
every row ever committed (the version rows, which compaction never touches).
`seqCounter` is the identity column: a sequence is drawn when a row is flushed
(`Append`) and becomes visible when the writer commits (`Commit`), so rows
become visible out of sequence order.  `epoch` numbers the random epochs of
`sync_streams` in order of rotation, 0 meaning that the row does not exist yet
(`_stream` creates it on first use: `CurrentEpoch`).  `retained` is
`retainedFromSequence`.  `devices` holds the rows of `sync_device_cursors`,
`clients` what each device keeps.

| Action | Code |
|---|---|
| `Append`, `RollbackSavepoint`, `Rollback`, `Commit` | a writing transaction: push, resolution or restoration |
| `Pull`, `PullExpired` | `pull_changes` with `_stream`, `_device_cursor`, `_validate_change_cursor`, and the client that applies the page |
| `SendAck`, `Acknowledge` | the client's acknowledgement, kept in flight and repeatable; `acknowledge_cursor` |
| `SnapshotPin`, `SnapshotPage`, `SnapshotExpired` | `snapshot_entities`: the boundary and the page are two statements, so writers commit between them |
| `CompactBegin`, `CompactCount`, `CompactDelete`, `CompactRollback` | `compact_sync_stream` in three statements, deletion subject to the trigger `guard_sync_change_log_mutation` (`GuardAllows`) |
| `RetentionPasses`, `ExpireDevice` | the clock against the retention cutoff and `expiresAt` |
| `ForgetCursor`, `AbandonSnapshot` | a client that loses its cursor or restarts a snapshot |

Pull, acknowledge and a later snapshot page are single steps: they hold the lock
of the stream row throughout and read the log in one statement, which is the
only statement that a committing writer can affect.  The first snapshot page and
compaction read the log in several statements and take several steps, during
which `StreamFree` keeps the other handlers out.  A request whose answer is
lost needs no action of its own: nothing the server stores in pull or snapshot
depends on the client's having received the answer.  `Applied` states what the
protocol expects of a client (apply a page and its cursor in one local
transaction, skip a version older than the one held); clients are not part of
the repository and are marked external in the map, as is the clock.
`skipped` and `Overtaken` are history: the sequences that were in flight when a
cursor moved past them.

### SyncPush and SyncLedger

`versions`, `results`, `conflicts` and `batches` hold the committed rows of
their tables; `tx[w]` is the open transaction of a request handler, with the
rows it has written, the locks it holds, the answers so far and what its latest
savepoint would restore.  An operation runs through `Check` (dependencies,
permission, reused id), `Lookup` (the row lock), one of `Accept`, `Settle` and
`Diverge` (`_apply_mutation` and `create_conflict`), and `Record` (its result
row), each a statement or group of statements between which other transactions
may commit.  Unique keys follow PostgreSQL: a key held by an open transaction
makes the writer wait (`RowFree`, `ResultFree`, `KeyClaimed`), a committed one
raises `IntegrityError`, which rolls the savepoint back (`RolledBack`) and
enters the handler (`Handle`, `Rehandle`).  A second error there is not caught:
the transaction fails.  `Abort` ends a transaction anywhere, which stands for an
error, a broken deadlock, a lost connection or a crash; PostgreSQL keeps
committed rows only, so a restart needs nothing more.

After a conflict row was refused, the session still holds the entity object it
had read (SQLAlchemy expires, at the end of a savepoint, only what was modified,
and a query does not refresh an object that is loaded), so the handler compares
with those attributes although it locks the row again: `cached` and `Known`.

The projection `sync_entities` is not a variable: it is written with the
version row in one savepoint and equals the latest one.  A content hash stands
for the content, `attach` and `detach` behave as `update`, a permission or
schema refusal is the field `flaw` of a mutation.

`SyncLedger` knows only a history per entity and the answered keys: one step
answers a key and extends the histories by exactly the operations reported as
applied, none of which was ever accepted before.  `ImplementsLedger` is the
refinement, with the history read off the version rows.  `ImplementsWriter`
shows that, mapped to `SyncStream`, every step of a push is a step of a writer
there or a stutter: this is what ties the two modules together, since
`SyncStream` relies on writers for one row per sequence, one open transaction
per entity, and publication all at once.

### SyncHistory and SyncReview

`versions`, `resolutions` and `restores` hold the committed rows of their tables,
`references` the state of each entity's attachment reference, `tx[w]` the open
transaction of a handler.  A resolution is `Begin` (the lookup of the operation
id), `LockConflict`, `Recheck` (the lookup again), `LockEntity`, `Review` (the
reviewed version is compared, and what the action asks for is looked up),
`LockCopy` for the undo of a saved copy, `Write` (the flush of the version row)
and `Commit` (the audit row with it).  `restore_version` takes the same steps
without the conflict: `LockEntity` comes before `Recheck`.  A request that is
refused, or answered from an audit row, ends in `Idle`; responses are not kept,
for an accepted one is read off the audit row.

The conflict rows never change and are a constant; `SyncPush` shows how they
come about.  A push of another device is one step, `Push`, while nobody holds
its entity.  The latest resolution of a conflict is the latest of the sequence:
the code orders by `resolvedAt` and then `id`, both drawn under the lock of the
conflict, so this assumes that the clocks of two server processes do not differ
by more than the time between two resolutions of one conflict.  A resolution is
named by its operation id instead of its public id.

The handler of `IntegrityError` around the commit is not an action, because
`CommitMeetsNoKey`, a part of `Consistent`, shows that it has nothing to catch:
an operation id used twice already fails at the flush of the version, outside
that handler, and answers 500, also when the retry would deserve
`SYNC_IDEMPOTENCY_MISMATCH`.

In `SyncReview` a decision appends to the history of an entity on condition that
its latest version is the one the decision replaces; `ImplementsReview` maps the
audit rows to the decisions, with the version that the client had reviewed.

### Attachments

All references of the model have one content and so share one blob row (`blob`)
and one file (`file`); different contents meet only in the checks of their
metadata.  `ref` and `upload` hold the rows of references and of upload sessions
with their chunks, `chunkFile` the chunk files, `deleted` the attachment entities
that are tombstones.  `held` holds row locks: a step that takes a lock waits for
it, the commit is the last step of a transaction and releases all, and files
belong to no transaction.

| Action | Code |
|---|---|
| `Initiate`, `Identify`, `InsertBlob`, `LockBlob` | `initiate_attachment_upload`: key lookup, reference row, `INSERT ... ON CONFLICT DO NOTHING`, blob lock and the rest |
| `Chunk` | `upload_attachment_chunk`; the file without the row stands for a crash in between |
| `Assemble`, `Verify`, `Bind` | `complete_attachment_upload`: file, blob lock, reference and its trigger |
| `Lifecycle`, `LifecycleCount` | `apply_attachment_reference_lifecycle`; the trigger waits for the blob row |
| `Damaged`, `Quarantine` | a download that finds no bytes |
| `SweepUploads`, `SelectBlob`, `CollectBlob`, `DeleteFile`, `EndSweep` | `run_attachment_maintenance`: two transactions, then the files without a lock |
| `Abort`, `Tick` | a crash, a broken deadlock or a lost connection; the clock |

Completion locks upload then blob, the collector blob then references: a wait
that would not end is ended by PostgreSQL, which `Abort` stands for.

### AuthTokens

One account.  `login` numbers the logins with the device of each, `row` holds the
rows of `auth_tokens`; the tokens are numbered in the order of their issue, and a
native login issues a refresh token and the access token after it.  A statement
that changes rows picks those that are committed when it starts and then waits
for what another transaction has changed; rows committed meanwhile are not among
them.  So a revocation is `Select` (what it sees; it takes effect at once when no
row is held) and `Revoke` (after the wait), and a rotation is `ConsumeRefresh`
(the `UPDATE ... RETURNING` that takes the row) and `Rotate`.  Browser sessions
are refreshed by a read and a later delete and insert (`RefreshSession`,
`ReplaceSession`), so two refreshes may both succeed.  `Logout` deletes the row of
whatever token it is given, and waits for one that a rotation has consumed.  Registration looks the
name up and inserts under a unique key (`Register`, `Registered`).  `ended`
remembers, for `EndedForGood`, the logins that a revocation has ended without a
request on the login in flight.

### Drafts

One draft; its state is the set of edits that it contains, which makes a lost
update visible.  A request reads the draft row, its collaborators and its
comments with three statements and no lock (`...Request`, `ReadCollaborators`,
`ReadComments`), decides, and flushes and commits (`Commit`, or `Fail` when the
row to change has gone or the key is taken).  The flush writes only the columns
that differ from what was read (`Written`), so a request may leave another's
review status in place while it replaces its edits.  `Answer` is the answer of
the route with the event that its background task broadcasts.  `served` holds
the details clients have, from which they build updates; `raced` marks what an
overlapping update may have touched.

### Banks

A request reads the bank row, with its lock for `publish`, `withdraw` and the
change of a subscription, then each collection it needs with a statement of its
own in any order (`Load`), decides on what it read (`Changes`, `Shown`) and
commits.  A commit that writes the bank row or inserts a row that refers to it
waits for the lock (`Waits`).  `Witness` records, for a request that reads
versions, which versions were open at some moment of it and in which ways its
user could read the bank throughout: `ReadsAsOne` compares the answer with them.
A fork is a read that then copies the snapshot into a bank of its own.

### Realtime

What lies between two awaits of a coroutine is one step.  `todo[a]` is what
coroutine a has still to do: a socket's endpoint, the background tasks of a route
on each server, and each server's Redis listener.  `Check` and `Accept` are the
two sides of the await in the endpoint that the limit per address is tested
before; `Subscribe`, `Unsubscribe`, `Update`, `Hear`, `Reject` serve a message;
`RunSend` is one `await` of `_local_send`; `RunEvict` and `RunRemove` are
`evict_user_from_draft` and `unsubscribe_draft`; `Relay` takes a published message.
The rooms, the drafts of a socket and the local presence are one variable each,
changed as the methods change them.  The presence kept in Redis is `shared`, the
entries that the index of each draft lists, and `sessions`, the sockets that have a
session key: a member is shown (`Shown`) when the draft lists it and its key is
there.  The key is one for all drafts of a socket (`realtime.py:257-258`), so leaving
any draft deletes it (`:278-284`), also one the client is not in
(`websocket.py:84-85`), and hides the client in its own room until it writes its
presence again; `strayed` holds those clients for the properties.  Redis is
followed until Redis loses something (`RedisForgets`, or a publication that is
lost), and for a socket until another coroutine than its own endpoint takes it
out of a room (`crossed`): a broadcast that disconnects a socket removes no entry
(`realtime.py:158-177`), and an eviction may remove it before the subscription
has written it (`:218-246`); such an entry stays until it expires.

### Papers

A request about a paper reads it into an entity, with a statement each for the
row, the links and the names of the questions (`StartPaper`, `ReadLinks`,
`ReadNames`), changes the entity, and a second session resolves the names
(`Resolve`) and writes the whole of it back (`SavePaper`, or `RefusePaper`), but for
a title that the row has when that session reads it.
`SavePaper` models the flush: updates of numbers row by row, then insertions, then deletions, under a
unique key that is checked at every row, and `merge` semantics for what changed
meanwhile.  An export takes the same reads and one more (`ExportNames`, `Expand`,
`AnswerExport`).  Questions are created, updated and deleted with the
invalidation of the cached metadata after the commit, which may fail or be
forgotten; `LoadMetadata` and `StoreMetadata` are the read and the later write of
the cache.  `raced` marks a request that another commit overlapped, `unsure` a
cache entry whose load overlapped one.

### PaperGeneration

One process and no shared state.  The random generator is a choice among what it
can return, so a run covers every outcome.  Weights are whole numbers in the
model (counted in a unit that makes them so), so that a fraction is exact except where it is compared or rounded at a
half, where both results are taken.  The search goes through `Target`, `Sample`,
`Rank`, `Breed`, `Succeed` and `TakeBest`; `RefusePayload` and `TakeAll` are the
requests with too few or just enough candidates; `BuildResult` shares out the marks.
What the code computes in a loop (`Dealt`, `Candidates`, `FirstDistinct`, `Mutated`)
is a recursive function of the number of rounds.  The children of the last generation are
never scored, and when every candidate is taken the fitness is the constant 1000,
as in the code.

## Runs

A property named `Consistent` (in `Papers` and `PaperGeneration`, `PapersConsistent`
and `GenerationConsistent`) is the type invariant of its module together with
the invariants on its state that have names of their own in the module; each of
these is listed here.  The same holds for `ReadsAsOne` and `SettlesRight`.

| Run | Shows |
|---|---|
| `sync_stream` (two writers, one device, two entities, pages of one, three sequences, two compactions, one fault) | `SnapshotExact`: the compacted log answers every boundary from the horizon on as the full log would. `CoveredUnlessOvertaken`: a client can miss only rows in flight when its cursor passed them, also when it falls back on the acknowledged sequence. `CurrentCursorRetained`: a cursor of the current epoch is never below the horizon. `PagesReconstructBoundary`: pages of one snapshot agree, except for entities with an overtaken row. `AckMonotone`. |
| `sync_stream_live` (one writer, fair) | `CursorCovers`: with transactions one at a time a cursor covers every committed row, so overtaking is the only defect. `CatchesUp`: every committed change reaches a device that keeps polling. |
| `sync_push` (two handlers; requests that race, contradict or repeat each other, depend on each other, or are refused) | `Consistent`: versions of an entity form one chain in the order of their sequences (`LinearHistory`), every answer under a key is the same (`RepliesAgree`). `DependenciesInEffect`, `EvidenceMatchesAnswers`, `ImplementsLedger`, `ImplementsWriter`. |
| `sync_history` (two handlers, a push; ten requests on two conflicts, an entity and a saved copy, an operation id used twice) | `RetryMeetsAnswer`, `UndoesTheLatest`, `UndoRestores` (a saved copy is deleted only as it was saved), `ImplementsReview`: a decision takes effect on what was reviewed or not at all, its retry finds it, and undos form a stack. `Consistent`: the commit meets no key (`CommitMeetsNoKey`), a tombstone hides its attachment however it came about (`DeletedStaysHidden`). |
| `auth` (two handlers, one device, two logins, six tokens) | `Consistent`: the tokens of a login that count are one pair (`OnePair`). `EndedForGood`: a login at rest that a revocation ended stays so; a refresh in flight may escape it. `DeadStaysDead`. |
| `attachments` (two handlers, two references of one content, one chunk, two keys, the maintenance job) | `Consistent`: the counter of the triggers is exact (`CountExact`), an upload in time keeps its blob row (`UploadKeepsBlob`), a chunk row has its file (`ChunksStored`). `AvailableUnlessSwept`: an available blob has its file except when the collector deletes it, after its commit, behind a new upload of the same content. `KeepsRetained`. |
| `drafts` (two handlers, an owner and a collaborator, four requests, two edits, a comment) | `Consistent`: a revision names one content unless two updates overlapped (`RevisionNamesContent`). `KeepsEdits`: an edit is lost only by such an overlap. `ApprovedOverLateCommentsOnly`. `RevisionAnnounced`: at rest the latest revision has been broadcast. |
| `banks` (two handlers, an owner and a reader who may be a member, two versions) | `Consistent`: only the latest version is ever active (`ActiveIsLatest`). `ReadsAsOne`: nothing is shown or subscribed to that was not open during the request (`OpenWhenTaken`), and who could read all along is not told 404 (`SteadyReadersServed`). `MovesToActive`. |
| `realtime` (two sockets of one user on one process, a second process whose routes change collaborators, two drafts, one change of collaborators, one token that ends, one connection per address) | `Consistent`: rooms, drafts and presence agree at every await (`MapsAgree`), an ended endpoint leaves nothing (`NothingLeft`). `SettlesRight`: when all is quiet and Redis has lost nothing, removed collaborators are out of the rooms on every process (`RemovedLeaveRoom`) and Redis shows nobody who is not there, and everybody who is but for a client that gave up another draft and has not renewed its presence since (`PresenceTrue`). `ReadersOnly`: no message to who may not read. `OverLimitByRacesOnly`. |
| `papers` (two threads, two questions, two titles) | `PapersConsistent`: no link dangles (`LinksExist`), the cache is stale only where its load raced or its invalidation failed (`CacheTrueUnlessUnsure`). `AloneExact`: a save that met no other is stored as asked, and refused only for a number that another question has. `ExportWhole`: an export has every question that stays, once and in order. |
| `paper_generation` (searches over four questions with a population of three; all sets of up to four questions with weights 1 to 4) | `GenerationConsistent`: individuals select what the targets ask, without repetition (`IndividualsExact`), targets add up (`TargetsExact`), marks add up, are at least one and follow the weights (`MarksShared`). `BestKept`. |
| `sync_push_savepoint` (a violation) | A create of an entity that has been updated or deleted violates `ck_sync_conflicts_baseline`, in the savepoint and again in the handler: the batch and its unrelated operations are lost, on every retry. |

### Where the code departs from its documents

`sync_push_savepoint` exhibits one such case; its sentence is quoted in
`PROJECT.json`.  The others shape a property, which states exactly what the code
does keep:

* A row drawn before and committed after another is never returned to a client
  whose cursor passed it (`docs/sync-persistence-cle63.md:127`, `:155`;
  `sync_push.py:277-292`, `sync_read.py:243`): the exception in
  `CoveredUnlessOvertaken`.  Below a pinned boundary the same row makes two pages
  of a snapshot disagree (`:153-154`; `sync_read.py:293-304`): the exception in
  `PagesReconstructBoundary`.  Between count and deletion it makes the compactor
  abort with the error for an immutable log (`sync_compaction.py:168-171`):
  `CompactRollback`.
* The undo of the undo of a saved copy goes back to a version that is looked up in
  the history of the original entity, while the copy stays deleted
  (`sync_conflicts.py:410-421`): `UndoRestores` excepts that undo.
* The collector deletes a file after its commit (`attachment_maintenance.py:206`),
  possibly the file of the same content uploaded anew: the exception in
  `AvailableUnlessSwept`.  A completion that has read its reference as live binds
  it after a deletion; the count stays exact, but such a blob, bound to a
  tombstone only and never decremented, gets no collection time
  (`docs/attachment-storage.md:25-26`).  The chunk files of completed uploads are
  never deleted (`attachment_maintenance.py:98-132`, `:186`).
* Two updates of one base revision can both be accepted (`drafts.py:241`): the
  exception in `KeepsEdits`; the revision may then go back.
* A reorder that gives a question a number another one has is refused with 422
  also when the result is valid, a swap for instance (`repositories.py:354-362`;
  `README.md:250`): the exception in `AloneExact`.  Any change of a paper writes
  its whole question list back (`papers.py:53`), and an update of a question that
  was deleted meanwhile inserts it again.
* When a bank published as private or team is made public, the listing of
  visible banks answers 404 to every reader without a role instead of leaving the
  bank out
  (`banks.py:157-160`, `:293-307`), and a subscription is renewed by a version
  whatever its visibility (`update_subscription`): `Readable`, `Changes`.
* A client that unsubscribes from a draft it is not in, for instance from the one
  it has just changed from by subscribing to another, deletes its session key and
  disappears from the presence of its own room before it leaves or its entry
  expires (`README.md:317-319`; `realtime.py:257-258`, `:278-284`;
  `websocket.py:84-85`): the exception in `PresenceTrue`.
* Connections of one address that are accepted at once exceed the limit
  (`README.md:322`): the exception in `OverLimitByRacesOnly`.
* A fork of a bank creates questions and does not invalidate the metadata cache:
  `Fork` in `Papers`.

### Bounds

`SyncStream`: two entities are needed for a snapshot of several pages and to tell
an overtaken entity from its neighbour, and pages of one row make every position a
page boundary.  Three sequences allow an entity to be superseded, a compaction to
delete, and a row in flight below the boundary; the third epoch allows a second
compaction over the result of the first.  Two writers are enough for commits out
of order, and devices share only `epoch`, through the stream lock, so one is
checked and the proofs take any number.  `MaxFaults` bounds expiries, abandoned
snapshots and lost cursors together; the live run has two sequences and two epochs
because every fair behaviour has to be explored to its cycles.

`SyncPush`, `SyncHistory`: `MaxSeq = 5` exceeds the versions that the requests can
add between two aborts that waste sequences, `MaxVersion = 5` leaves room for a
settlement, its undo, the undo of that and a push.  The requests contain each kind
of mutation, dependencies inside a batch, an operation in two batches, one key with
two contents, a create against each state of an entity, an unknown base, saved
copies and a deletion.

`Attachments`: two uploads and two references let one content be counted twice,
shared, and collected while another upload is on its way; each period is one step
of the clock and the clock has two, so all three periods can pass.

`AuthTokens`: six tokens are three pairs, enough for a rotation of a rotation beside
a second login.  Only tokens that count expire, and `MaxOverdue` bounds those at
one time: a row that is revoked already changes nothing by expiring.  A logout with
a revoked token is explored while no more than `MaxGone` rows would be gone; such
a row counts for nothing, and its deletion only keeps its family from being condemned.

`Drafts`, `Banks`: two requests at a time are what an overlap takes; a third and a
fourth one (`MaxRequest`) set the scene and meet the result.  `Admin` is empty,
as an administrator has the rights of the owner; the reader of `/public/banks`
without an account is in the specification and not in the instance, since a user
without role and subscription reads the same.

`Realtime`: one address, one change of collaborators, one token that ends
(`MaxLogout`), a limit of one: an overlap of
`Accept`s exceeds it with two sockets.  The sockets belong to one user on one
process, so that one removal concerns both; the change is made there, where its
eviction finds them, or on the second process, from which only the relayed
message reaches them.  One route runs at a time.

`Papers`: two questions and two numbers contain the swap; two titles tell a title
that is kept from one that is written back.  `Asked` are the requests there are; a
reorder of less than two questions is left to the replacement that writes the same.  The type of a question is read
nondeterministically by an export.

`PaperGeneration`: a population of three with one elite leaves parents to choose;
three generations with a patience and a warm-up of one reach both ends of the
search.

Deadlock is not checked where the bounded number of requests, changes or tokens
may run out with nothing left to do (`auth`, `drafts`, `banks`, `realtime`).
Handlers are interchangeable, so the safety runs use symmetry where they are
named by model values; the live run does not.

### Fairness

`FairSpec` of `SyncStream` assumes that an open transaction ends (weak fairness of
a writer's commit or rollback, and of a running compaction): each serves one
request or one run of the script, and `Rollback` stays possible.  It assumes strong
fairness of a device's reads: a client polls again and again, and PostgreSQL
queues the waiters of the stream row's lock, so a handler that asks repeatedly is
served however often others hold it.  Nothing is assumed of compaction starting,
of faults (they are bounded), or of acknowledgements.  The other modules state
what holds at rest (`SettlesRight`, `RevisionAnnounced`) instead of that rest is
reached, as nothing in the code makes clients stop asking.

## Proofs

The proofs hold for every set of handlers, devices, users, requests and contents,
and for every bound.  What they assume of the constants is stated by named
assumptions in the modules and evaluated by TLC on every run: sizes and bounds are
naturals, distinguished values (`None`, `Null`, `Live`, the collector) are not rows, users
or workers, the owner is a user, the requests of `SyncPush` and `SyncHistory` have
passed the validation of their schema, as those of `Papers` are of its kinds, the versions that `SyncHistory` begins with
are numbered as pushes number them, in `Attachments` the references are finitely
many, as the blob row counts them, in `Realtime` no socket is a coroutine of a
server, and in `PaperGeneration` the rows of a table are different, with positive
weights and finitely many tags (`schemas/question.py:76`), and a request asks for at
least one question of each of its types, with a coefficient from 0 to 1 in
hundredths (`schemas/paper.py:99-120`).

| Module | Theorem | Property |
|---|---|---|
| `SyncStreamProofs` | `TypeCorrect`, `SnapshotsExact`, `AcksMonotone`, `CursorsRetained`, `NothingElseMissed`, `SnapshotsReconstruct` | `TypeOK`, `SnapshotExact`, `AckMonotone`, `CurrentCursorRetained`, `CoveredUnlessOvertaken`, `PagesReconstructBoundary` |
| | `SerialWritesCovered` (while write transactions do not overlap) | `CursorCovers` |
| `SyncPushProofs` | `ConsistentAlways`, `DependenciesTakeEffect`, `EvidenceKept`, `PushIsWriter`, `PushImplementsLedger` | `Consistent`, `DependenciesInEffect`, `EvidenceMatchesAnswers`, `ImplementsWriter`, `ImplementsLedger` |
| `SyncHistoryProofs` | `RetriesMeetAnswers`, `ConsistentAlways`, `UndoesTheLatestAlways`, `UndoRestoresAlways`, `HistoryImplementsReview` | `RetryMeetsAnswer`, `Consistent`, `UndoesTheLatest`, `UndoRestores`, `ImplementsReview` |
| `AuthTokensProofs` | `OnePairAlways`, `RevocationsLast`, `TheDeadStayDead` | `Consistent`, `EndedForGood`, `DeadStaysDead` |
| `AttachmentsProofs` | `ConsistentAlways`, `AvailableMeansStored`, `RetainedKept` | `Consistent`, `AvailableUnlessSwept`, `KeepsRetained` |
| `PapersAndDraftsProofs` | `RevisionsNameContents`, `RevisionsTold`, `EditsKept`, `ApprovalsSawNoComment` | `Consistent`, `RevisionAnnounced`, `KeepsEdits`, `ApprovedOverLateCommentsOnly` |
| | `PapersConsistentAlways`, `StoredAloneAlways`, `ExportsWholeAlways` | `PapersConsistent`, `AloneExact`, `ExportWhole` |
| | `GenerationConsistentAlways`, `BestKeptAlways` | `GenerationConsistent`, `BestKept` |
| `BanksProofs` | `ConsistentAlways`, `ReadsAsOneAlways`, `SubscriptionsMoveForward` | `Consistent`, `ReadsAsOne`, `MovesToActive` |
| `RealtimeProofs` | `ConsistentAlways`, `KeysAlways`, `SettlesRightAlways`, `ReadersOnlyAlways`, `OverLimitAlwaysByRaces` | `Consistent`, `SettlesRight`, `ReadersOnly`, `OverLimitByRacesOnly` |

Each rests on a theorem `Invariance` (in `SyncStreamProofs` also
`ReaderInvariance`, for `Papers` `PapersInvariance`, for `PaperGeneration` `GenerationInvariance`): an inductive invariant, checked by TLC before it was proved.
None of the properties is inductive; what the invariants add is what the code
relies on without saying so.

**SyncStream.**  `IInv` adds to the types: every row, committed or in flight, has a
sequence that was drawn (`Drawn`); a published row that has left the log has a
later row of its entity in it, at or below the horizon (`Anchored`); a running
compaction moves the horizon forward (`BoundaryAhead`); a device without a row has
acknowledged nothing (`RowlessAtZero`).  `CompactDelete` is the interesting step:
the newest row of an entity up to the new horizon survives, as nothing supersedes
it (`NewestSurvives`), and is at least as new as the row that is deleted.  That
there is a newest row is `HasGreatest`, from the well-foundedness of the naturals
(the least distance to a bound).  `RInv` is the part of the
readers: what a cursor, a snapshot page, an acknowledgement in flight or a device
row says lies within what was committed when it was made, and every row it has
passed is held, superseded or in `skipped`.  The hard step is a page of a snapshot:
its entities are covered up to the boundary, those after it are not yet.

`CursorCovers` is what the documents promise and what overlapping transactions
break: with two open at once the earlier sequence can commit last.  So the theorem
has this as its hypothesis, stated of the behaviour and not of the number of
handlers: `SerialWritesCovered` assumes only that no two transactions have rows
in flight at one time (`OneWriterOpen`); the run `sync_stream_live` checks it with
one writer.  `NothingOvertaken` is the invariant behind it: the
rows in flight are newer than every committed row, so no reader moves past them and
nothing is ever skipped.

**SyncPush.**  `IInv` says that no two rows, committed or of open transactions, have
one unique key (`RowsApart`), that every version but the first has the predecessor
it was accepted against (`Chained`), that batch keys and entity locks are held once
(`KeysApart`, `LocksApart`), and for each open transaction what it has learnt at its
stage (`Progress`), that its answers are right for the rows it sees (`AnswersFit`)
and that what it wrote since its savepoint is for the operation it is at
(`Drafted`).  The last two are what `RolledBack` must restore: the rollback of a
savepoint takes the row, its evidence and its claim back together.  The
refinements follow from the same invariant: `PushIsWriter` maps each statement to
a step of a writer of `SyncStream`, `PushImplementsLedger` maps `Commit` to the one
step that answers a key, where the histories grow by exactly the versions of the
operations reported as applied (`Chained` gives their order).

**AuthTokens.**  `AInv`: the counting tokens of a native login are a refresh token
and the access token issued after it (`RowsFit`); a consumed token is counting and
held by one rotation (`TxFits`, `TxsApart`); the tokens of the logins that a
revocation is sure of are all among those it saw, and no rotation works on them.
Only the last makes `EndedForGood` inductive: a rotation that is committed between
`Select` and `Revoke` takes its login out of `clean`.

**Attachments.**  `KInv`: each transaction holds exactly the locks of its step and no
lock is held twice (`LocksFit`), so what it has read under them stays so
(`JobFits`): the upload it completes has its row and its file, the reference it
deletes is bound, the blob it binds is there.  A sweep's chunk files are of uploads
that are gone (`SweepFits`).  The counter is exact by counting: `Cardinality` of the
live references changes by one exactly when the trigger changes the column.

**Drafts.**  No lock is taken, so `DInv` is about what overlaps leave alone: an update
that has not been overlapped read the row that is there, and the state it was built
on contains the edits of that row (`JobFits`); a served detail that no overlap has
touched is not ahead of the draft (`DetailsFit`); the revision of the draft has been
told or an update is about to tell one as high (`ToldOrDue`).

**Papers.**  No lock is taken here either.  `PInv` says what a request that no other
commit has overlapped (`raced` is false) still knows: the title and the links it
read are those of the paper, changed as the request asks from the second session
on (`RequestFits`); an export, overlapped or not, keeps every question that has
stayed with its number.  A load of the metadata that no commit overlapped has found
the questions there are (`LoadFits`).  `LinksExist` is the foreign key at work: the
statements of a flush refer to a row that is there, and the deletion of one
cascades.  For `AloneExact` the links of the paper are unique before and after, so
a number that is taken is that of another question.  `ExportWhole` needs that the
listing exists, for it is defined by `CHOOSE`: a finite set whose elements have
different keys can be listed in their order, by giving each the number of those
before it (its rank), which is a bijection.

**PaperGeneration.**  `GenerationInvariant` says at which stage of the search what is
there: populations of individuals (`Bred`), a best one with its fitness once there
was a generation (`Scored`), patience that bounds the generations without
improvement (`Counted`, `Goes`), and the part that makes `BestKept` hold: a
population about to be ranked has the best fitness so far at its head (`AtRank`),
because the elite, which is ranked, leads the children (`AtBreed`).  The rest is
about the functions the search is built from, for any input.

* An individual stays exact: crossover takes the first different questions of a
  sequence that contains every candidate, and there are enough of them
  (`CountBounds`: the numbers per type add up to at most the candidates);
  a mutation replaces by a question that is not there (`MutatedIndividual`).
* `DistributionsShare`: the marks add up.  Dealing in turns is counted: what each
  place has gained after k turns depends on k and its place in the order only
  (`DealtGains`), so the total is reached in the first round, where the larger
  fractions come first; lowering may take more rounds, as no mark falls below one
  (`DealtLoses`), and the bound of turns in the code suffices.  That a question of
  less weight never has more marks needs both orders: where the whole parts are
  equal, the larger fraction gains first and loses last.
* `DifficultyTargetsExact`: a scaled target is within a half of its quotient
  (`HalfEvenNear`), so at most one is missing, and it goes to the largest, which
  has weight; the nearest anchor always has weight (`NearestHasWeight`).

`SumFunction`, and the recursive functions of the module, are `CHOOSE`s of functions
that are defined by recursion: that these exist is `NumberRecursion` and
`PartialExists`, and what they compute is proved by induction over sets of numbers
(`NumberInduction`) and of subsets (`SubsetInduction`).

**Banks.**  `BInv`: the lock of the row is held by the one request at work that takes
it (`LockFits`), so the active version it has read stays the active one and its
row the row (`LockedFits`); a subscription is to a version that was published
(`PinsFit`).  For a reader, `TrackedFits` relates what it has loaded to what was
there at some time and all the time of the request: a version that was loaded is
among those ever open, a way of reading that was not found is not among those
there throughout.

**SyncHistory.**  `LInv` says that no conflict row and no entity row is held twice,
that a restoration holds its entity from its first lock on, and that a request past
its second lookup is not settled (`Unanswered`).  Only `Commit` settles a request;
another transaction for the same request would hold the same row.  `HInv` is about
what the locks are for: what a transaction has read stays so until it writes
(`TxFits`), as nobody else adds a version to an entity or a resolution to a conflict
it holds (`StillFits`, `OthersFit`).  Three parts of it are not about locks:
versions are numbered without a gap (`Numbered`), every audit row is the version
written for it (`DecisionFits`), and no two rows have one unique key, those of open
transactions included (`RowsApart`); that a saved copy needs no lock follows from
the last, for its first version would clash.  `HistoryImplementsReview` maps
`Commit` to `Decide` and `Push` to `Edit`.

**Realtime.**  `IInv` is what the awaits leave true.  A coroutine begins with what it
awaits now, and what only an endpoint does for its own socket (`enter`, `close`,
`end`) is its last step (`Todos`), so nothing is left to do when an endpoint is over.
An endpoint that has not begun or is over is in no map, and one whose client is
there is registered (`LinksFit`); with `MapsAgree` this gives `NothingLeft`, and
`ReadersOnly`: a recipient that is open is registered, so it was looked up.
`RoomsDue` is the part the code never says: at every await, whoever is in a room and
may not read its draft has the event in the queue of its server, or some coroutine
still has a step that tells it (`Tells`): a broadcast that will reach its server, a
message that still lists it, or the end of its endpoint.  A broadcast hands it on to
the message, the message to the list of stale sockets or, when the listing is of
another server, to the queue, and the relay to a broadcast of its own; a
subscription that overlaps the removal is told by its own snapshot.  `PresenceFits`
says the same of the indexes in Redis: their entries are those of the rooms, except
for the one write or erasure in flight of the socket's own endpoint.  The session
keys have an invariant of their own, `KeyInv` (`KeysAlways`), on top of it: a socket
is in one room at most and subscribes from none (`OneRoom`), so the key that its
endpoint deletes with the draft it leaves shows it nowhere else; whoever has an
entry has its key, unless it strayed or the write or erasure is in flight
(`KeysFit`).  Both need that Redis has lost
nothing, which `SettlesRight` states.  `ChecksFit` keeps the count that a check has
read until another socket of the address is accepted.

A proof that fails on the model as it was is a finding about the model.  Three did:
`Push` of `SyncHistory` waited for the open transactions of the others of each
handler, which is nobody when there is one handler, and so could take the key of a
row about to be committed; it now waits for all.
`Cleanup` of `AuthTokens` waited for no lock when there was one handler, and so
deleted a row that a transaction held; it now waits for the overdue rows a
transaction has consumed, as the `DELETE` does.  And several invariants needed the
bounds to be naturals and `None` to be no row, which the modules now assume by name.

Checked by TLC only: liveness (`CatchesUp`), which is out of this prover's reach.

## Not modelled

* Rate limiting: one atomic counter in Redis, one dictionary under one lock
  otherwise.
* The owner key of a background task, written before the task is sent; reports,
  which only read; metrics; uploads of images and documents; the HTTP surface and
  formats; migrations of data.
* Corrections and revisions of questions: rows inserted by one request in one
  transaction; a question is only its identity in `Papers`.  So the loss of the
  first of two overlapping updates of one question is not modelled either: each
  writes every column from the row it read before (`repositories.py:272-291`).
* In the modelled components: the first-use race on the row of `sync_streams` (the
  loser's request fails and is repeated), batch size limits, the audience checks of
  cursors, payload validation, `lastReplayedAt` and the expiry of idempotency rows
  (nothing deletes them), revocation of a device row (`revokedAt` is read and never
  set); password hashes, cookies and the login event log; the names, messages and
  timestamps of a draft; the content of bank snapshots and of their copies; the
  members that a presence snapshot lists, the reconnection to Redis and the
  shutdown of `realtime.py`; queries over papers and the layout of documents.

A candidate kept over a tombstone is written as an `update`
(`sync_conflicts.py:268`), which leaves the attachment reference tombstoned beside
a live entity.  In `Attachments` the entity and its reference change together,
as the calls with `delete` and `restore` make them, and no document of the
repository says what a download should answer there.
