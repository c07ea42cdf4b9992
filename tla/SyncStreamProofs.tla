-------------------------- MODULE SyncStreamProofs --------------------------
(***************************************************************************)
(* Proofs about SyncStream, for every set of writers and devices, any      *)
(* number of entities, any page size and any bounds.                       *)
(***************************************************************************)
EXTENDS SyncStream, FiniteSetTheorems, WellFoundedInduction, TLAPS

-----------------------------------------------------------------------------
(* Sets of naturals have a least and, when bounded, a greatest element.    *)

\* Naturals are well-founded.
LEMMA HasLeast ==
  ASSUME NEW S \in SUBSET Nat, S # {}
  PROVE  \E m \in S : \A n \in S : m <= n
<1>1. PICK m \in S : \A n \in S : ~ (<<n, m>> \in OpToRel(<, Nat))
  BY NatLessThanWellFounded, WFMin
<1>2. \A n \in S : ~ (n < m)
  BY <1>1 DEF OpToRel
<1> QED BY <1>2

\* The greatest is as far below the bound as the least distance to it.
LEMMA HasGreatest ==
  ASSUME NEW S \in SUBSET Nat, NEW b \in Nat, \A n \in S : n <= b, S # {}
  PROVE  \E m \in S : \A n \in S : n <= m
<1> DEFINE Distances == {b - n : n \in S}
<1>1. Distances \subseteq Nat
  OBVIOUS
<1>2. Distances # {}
  OBVIOUS
<1>3. PICK k \in Distances : \A j \in Distances : k <= j
  <2> HIDE DEF Distances
  <2> QED BY <1>1, <1>2, HasLeast
<1>4. PICK m \in S : k = b - m
  OBVIOUS
<1>5. ASSUME NEW n \in S
      PROVE  n <= m
  <2>1. b - m <= b - n
    BY <1>3, <1>4
  <2>2. m \in Nat /\ n \in Nat
    OBVIOUS
  <2> QED BY <2>1, <2>2
<1> QED BY <1>5

\* Max of a bounded set of naturals is one of them, and none is greater.
LEMMA MaxProperty ==
  ASSUME NEW S \in SUBSET Nat, NEW b \in Nat, \A n \in S : n <= b, S # {}
  PROVE  Max(S) \in S /\ \A n \in S : n <= Max(S)
<1>1. \E m \in S : \A n \in S : m >= n
  <2>1. PICK m \in S : \A n \in S : n <= m
    BY HasGreatest
  <2> QED BY <2>1
<1>2. Max(S) \in S /\ \A n \in S : Max(S) >= n
  BY <1>1 DEF Max
<1> QED BY <1>2

\* Min of a set of naturals is one of them, and none is less.
LEMMA MinProperty ==
  ASSUME NEW S \in SUBSET Nat, S # {}
  PROVE  Min(S) \in S /\ \A n \in S : Min(S) <= n
<1>1. \E m \in S : \A n \in S : m <= n
  BY HasLeast
<1> QED BY <1>1 DEF Min

-----------------------------------------------------------------------------
(* The inductive invariant.                                                *)

\* Every row carries a sequence that was drawn.
Drawn ==
  /\ \A r \in published : r.seq <= seqCounter
  /\ \A w \in Writer : \A r \in pending[w] : r.seq <= seqCounter

\* A committed row leaves the log only behind a later row of its entity, at or
\* below the horizon, that stays.
Anchored ==
  \A r \in published : r \notin log =>
    \E l \in log : l.entity = r.entity /\ r.seq < l.seq /\ l.seq <= retained

\* A running compaction moves the horizon forward.
BoundaryAhead == compaction.stage # "idle" => retained <= compaction.boundary

\* A device without a row has acknowledged nothing.
RowlessAtZero == \A d \in Device : devices[d].epoch = 0 => devices[d].seq = 0

IInv ==
  /\ TypeOK
  /\ Drawn
  /\ log \subseteq published
  /\ Anchored
  /\ BoundaryAhead
  /\ RowlessAtZero

-----------------------------------------------------------------------------
(* Operators on rows.                                                      *)

\* LastSeq of bounded rows is a natural; of a non-empty set, that of a row.
LEMMA LastSeqProperty ==
  ASSUME NEW R \in SUBSET Row, NEW b \in Nat, \A r \in R : r.seq <= b
  PROVE  /\ LastSeq(R) \in Nat
         /\ LastSeq(R) <= b
         /\ \A r \in R : r.seq <= LastSeq(R)
         /\ R # {} => \E r \in R : r.seq = LastSeq(R)
<1>1. Seqs(R) \in SUBSET Nat /\ \A n \in Seqs(R) : n <= b
  BY DEF Seqs, Row
<1>2. CASE R = {}
  BY <1>2 DEF LastSeq
<1>3. CASE R # {}
  <2>1. Seqs(R) # {}
    BY <1>3 DEF Seqs
  <2>2. Max(Seqs(R)) \in Seqs(R) /\ \A n \in Seqs(R) : n <= Max(Seqs(R))
    BY <1>1, <2>1, MaxProperty
  <2>3. LastSeq(R) = Max(Seqs(R))
    BY <1>3 DEF LastSeq
  <2>4. PICK m \in Seqs(R) : m = LastSeq(R) /\ \A n \in Seqs(R) : n <= m
    BY <2>2, <2>3
  <2>5. m \in Nat /\ m <= b
    BY <1>1
  <2>6. \E r \in R : r.seq = m
    BY DEF Seqs
  <2>7. \A r \in R : r.seq <= m
    BY <2>4 DEF Seqs
  <2> QED BY <2>4, <2>5, <2>6, <2>7
<1> QED BY <1>2, <1>3

\* Bounded rows are finitely many.
LEMMA BoundedRowsFinite ==
  ASSUME NEW R \in SUBSET Row, NEW b \in Nat, \A r \in R : r.seq <= b
  PROVE  IsFiniteSet(R) /\ Cardinality(R) \in Nat
<1> DEFINE P == (0 .. b) \X (1 .. NEntity)
           T == {[seq |-> p[1], entity |-> p[2]] : p \in P}
           f == [p \in P |-> [seq |-> p[1], entity |-> p[2]]]
<1>1. IsFiniteSet(P)
  <2>1. IsFiniteSet(0 .. b) /\ IsFiniteSet(1 .. NEntity)
    BY FS_Interval, SizesAssumption
  <2> QED BY <2>1, FS_Product
<1>2. f \in Surjection(P, T)
  BY DEF Surjection
<1>3. IsFiniteSet(T)
  BY <1>1, <1>2, FS_Surjection
<1>4. R \subseteq T
  <2> SUFFICES ASSUME NEW r \in R PROVE r \in T
    OBVIOUS
  <2>1. r.seq \in 0 .. b /\ r.entity \in 1 .. NEntity /\ r = [seq |-> r.seq, entity |-> r.entity]
    BY DEF Row, Entity
  <2>2. <<r.seq, r.entity>> \in P
    BY <2>1
  <2> QED BY <2>1, <2>2
<1> QED BY <1>3, <1>4, FS_Subset, FS_CardinalityType

\* Deleting the superseded rows up to a boundary keeps, for each row up to it,
\* that row or a later one of its entity: the newest one is superseded by none.
LEMMA NewestSurvives ==
  ASSUME NEW b \in Nat, NEW r \in UpTo(log, b), log \subseteq Row
  PROVE  \E l \in log \ Doomed(b) : l.entity = r.entity /\ r.seq <= l.seq /\ l.seq <= b
<1> DEFINE S == UpTo(RowsOf(log, r.entity), b)
<1>1. r \in S /\ S \in SUBSET Row /\ \A s \in S : s.seq <= b
  BY DEF UpTo, RowsOf
<1>2. PICK l \in S : l.seq = LastSeq(S)
  BY <1>1, LastSeqProperty
<1>3. \A s \in S : s.seq <= l.seq
  BY <1>1, <1>2, LastSeqProperty
<1>4. l \in log /\ l.entity = r.entity /\ l.seq <= b /\ l.seq \in Nat
  BY <1>1 DEF UpTo, RowsOf, Row
<1>5. ~ Superseded(l, b)
  <2> SUFFICES ASSUME NEW m \in log, m.entity = l.entity, m.seq > l.seq, m.seq <= b
               PROVE  FALSE
    BY DEF Superseded
  <2>1. m \in S
    BY <1>4 DEF UpTo, RowsOf
  <2>2. m.seq <= l.seq /\ m.seq \in Nat
    BY <1>1, <1>3, <2>1 DEF Row
  <2> QED BY <1>4, <2>2
<1>6. l \notin Doomed(b)
  BY <1>5 DEF Doomed
<1> QED BY <1>1, <1>3, <1>4, <1>6

\* Up to a boundary at or above the horizon, the compacted log holds each row
\* ever committed, or a later one of its entity.
LEMMA AnchorFound ==
  ASSUME IInv, NEW b \in Nat, retained <= b, NEW r \in published, r.seq <= b
  PROVE  \E l \in log : l.entity = r.entity /\ r.seq <= l.seq /\ l.seq <= b
<1>1. r.seq \in Nat /\ retained \in Nat
  BY DEF IInv, TypeOK, Row
<1>2. CASE r \in log
  BY <1>1, <1>2
<1>3. CASE r \notin log
  <2>1. PICK l \in log : l.entity = r.entity /\ r.seq < l.seq /\ l.seq <= retained
    BY <1>3 DEF IInv, Anchored
  <2>2. l.seq \in Nat
    BY DEF IInv, TypeOK, Row
  <2> QED BY <1>1, <2>1, <2>2
<1> QED BY <1>2, <1>3

-----------------------------------------------------------------------------
(* Types of what the handlers compute.                                     *)

LEMMA LogBounded ==
  ASSUME IInv
  PROVE  log \in SUBSET Row /\ seqCounter \in Nat /\ \A r \in log : r.seq <= seqCounter
BY DEF IInv, TypeOK, Drawn

\* The newest sequence of any part of the log is a natural.
LEMMA LogLastSeq ==
  ASSUME IInv, NEW R \in SUBSET log
  PROVE  LastSeq(R) \in Nat
BY LogBounded, LastSeqProperty

LEMMA OvertakenType ==
  ASSUME TypeOK, NEW n \in Nat
  PROVE  Overtaken(n) \in SUBSET Nat
BY DEF TypeOK, Overtaken, Seqs, UpTo, InFlight, Row

LEMMA AppliedType ==
  ASSUME IInv, NEW view \in [Entity -> Nat], NEW page \in SUBSET log
  PROVE  Applied(view, page) \in [Entity -> Nat]
<1>1. \A e \in Entity : LastSeq(RowsOf(page, e)) \in Nat
  BY LogLastSeq DEF RowsOf
<1> QED BY <1>1 DEF Applied

LEMMA BoundaryType ==
  ASSUME IInv, Boundary > retained
  PROVE  Boundary \in Nat
<1> DEFINE recent == {n \in Seqs(log) : n > aged}
<1>1. retained \in Nat /\ LastSeq(log) \in Nat
  BY LogLastSeq DEF IInv, TypeOK
<1>2. recent \in SUBSET Nat /\ \A n \in recent : n <= seqCounter
  BY LogBounded DEF Seqs, Row
<1>3. recent # {} => Min(recent) \in Nat
  BY <1>2, LogBounded, MinProperty
<1>4. Boundary = IF recent = {} THEN LastSeq(log) ELSE Min(recent) - 1
  BY DEF Boundary
<1> HIDE DEF recent
<1> QED BY <1>1, <1>3, <1>4

\* When more entities remain than fit the page, the page is not empty: it takes
\* the first of them.
LEMMA PageNotEmpty ==
  ASSUME NEW boundary \in Nat, NEW last \in Nat,
         SnapshotPageOf(boundary, last) # Remaining(boundary, last)
  PROVE  SnapshotPageOf(boundary, last) # {}
<1> DEFINE rest == Remaining(boundary, last)
<1>1. rest \in SUBSET Nat /\ \A e \in rest : e <= NEntity
  BY SizesAssumption DEF Remaining, Entity
<1>2. rest # {}
  BY DEF SnapshotPageOf
<1>3. PICK m \in rest : \A e \in rest : m <= e
  <2>1. NEntity \in Nat
    BY SizesAssumption
  <2> HIDE DEF rest
  <2> QED BY <1>1, <1>2, <2>1, HasLeast
<1>4. {f \in rest : f < m} = {}
  BY <1>1, <1>3
<1>5. m \in SnapshotPageOf(boundary, last)
  <2>1. Cardinality({f \in rest : f < m}) = 0
    BY <1>4, FS_EmptySet
  <2>2. 0 < PageSize
    BY SizesAssumption
  <2> QED BY <1>3, <2>1, <2>2 DEF SnapshotPageOf
<1> QED BY <1>5

\* So its greatest entity, where the next page starts, is defined.
LEMMA PageLastType ==
  ASSUME NEW boundary \in Nat, NEW last \in Nat,
         SnapshotPageOf(boundary, last) # Remaining(boundary, last)
  PROVE  Max(SnapshotPageOf(boundary, last)) \in Nat
<1> DEFINE page == SnapshotPageOf(boundary, last)
<1>1. page \in SUBSET Nat /\ (\A e \in page : e <= NEntity) /\ NEntity \in Nat
  BY SizesAssumption DEF SnapshotPageOf, Remaining, Entity
<1>2. page # {}
  BY PageNotEmpty
<1> HIDE DEF page
<1>3. Max(page) \in page
  BY <1>1, <1>2, MaxProperty
<1> QED BY <1>1, <1>3 DEF page

LEMMA DeviceRowType ==
  ASSUME TypeOK, NEW d \in Device
  PROVE  /\ CurrentEpoch \in Nat
         /\ DeviceOf(d) \in DeviceRow
         /\ Renewed(d) \in DeviceRow
         /\ clients[d] \in Client
         /\ PullFrom(d) \in Nat
<1>1. CurrentEpoch \in Nat /\ clients[d] \in Client
  BY DEF TypeOK, CurrentEpoch
<1>2. DeviceOf(d) \in DeviceRow
  BY <1>1 DEF TypeOK, DeviceOf, DeviceRow
<1>3. Renewed(d) \in DeviceRow
  BY <1>1, <1>2 DEF Renewed, DeviceRow
<1>4. PullFrom(d) \in Nat
  BY <1>1, <1>2 DEF PullFrom, DeviceRow, Client, Cursor
<1> QED BY <1>1, <1>2, <1>3, <1>4

-----------------------------------------------------------------------------
(* Type correctness is preserved, action by action.                        *)

LEMMA InitInvariant == Init => IInv
<1> SUFFICES ASSUME Init PROVE IInv
  OBVIOUS
<1>1. TypeOK
  BY DEF Init, TypeOK, Idle, Compaction, DeviceRow, Client, Cursor, NoCursor, EmptyView,
         NoSnapshot, SnapshotProgress
<1>2. Drawn /\ log \subseteq published /\ Anchored /\ BoundaryAhead /\ RowlessAtZero
  BY DEF Init, Drawn, Anchored, BoundaryAhead, RowlessAtZero, Idle
<1> QED BY <1>1, <1>2 DEF IInv

LEMMA WriteType ==
  ASSUME IInv, NEW w \in Writer, Write(w)
  PROVE  TypeOK'
<1>1. CASE \E e \in Entity : Append(w, e)
  <2>1. PICK e \in Entity : Append(w, e)
    BY <1>1
  <2>2. seqCounter' \in Nat /\ [seq |-> seqCounter', entity |-> e] \in Row
    BY <2>1 DEF IInv, TypeOK, Append, Row
  <2> QED BY <2>1, <2>2 DEF IInv, TypeOK, Append, streamVars
<1>2. CASE RollbackSavepoint(w)
  BY <1>2 DEF IInv, TypeOK, RollbackSavepoint, streamVars
<1>3. CASE Rollback(w)
  BY <1>3 DEF IInv, TypeOK, Rollback, streamVars
<1>4. CASE Commit(w)
  BY <1>4 DEF IInv, TypeOK, Commit, streamVars
<1> QED BY <1>1, <1>2, <1>3, <1>4 DEF Write

LEMMA PullType ==
  ASSUME IInv, NEW d \in Device, Pull(d)
  PROVE  TypeOK'
<1> DEFINE page == PageAfter(PullFrom(d))
           next == NextCursor(PullFrom(d), page)
           client == [clients[d] EXCEPT !.cursor = [epoch |-> CurrentEpoch, seq |-> next],
                                        !.view = Applied(@, page),
                                        !.skipped = @ \cup Overtaken(next)]
<1>1. TypeOK /\ clients[d] \in Client /\ CurrentEpoch \in Nat /\ Renewed(d) \in DeviceRow
  BY DeviceRowType DEF IInv
<1>2. page \in SUBSET log
  BY DEF PageAfter
<1>3. next \in Nat
  BY <1>1, <1>2, LogLastSeq, DeviceRowType DEF NextCursor
<1>4. Applied(clients[d].view, page) \in [Entity -> Nat]
  BY <1>1, <1>2, AppliedType DEF Client
<1>5. Overtaken(next) \in SUBSET Nat
  BY <1>1, <1>3, OvertakenType
<1>6. clients' = [clients EXCEPT ![d] = client]
  BY <1>1 DEF Pull, TypeOK
<1> HIDE DEF page, next
<1>7. client \in Client
  BY <1>1, <1>3, <1>4, <1>5 DEF Client, Cursor
<1>8. clients' \in [Device -> Client]
  BY <1>1, <1>6, <1>7 DEF TypeOK
<1>9. devices' \in [Device -> DeviceRow] /\ epoch' \in Nat
  BY <1>1 DEF Pull, TypeOK
<1> QED BY <1>1, <1>8, <1>9 DEF TypeOK, Pull, writeVars

LEMMA SnapshotPinType ==
  ASSUME IInv, NEW d \in Device, SnapshotPin(d)
  PROVE  TypeOK'
<1>1. TypeOK /\ clients[d] \in Client /\ CurrentEpoch \in Nat
  BY DeviceRowType DEF IInv
<1>2. LastSeq(log) \in Nat
  BY LogLastSeq
<1>3. Overtaken(LastSeq(log)) \in SUBSET Nat
  BY <1>1, <1>2, OvertakenType
<1>4. [epoch |-> CurrentEpoch, boundary |-> LastSeq(log), last |-> 0, view |-> EmptyView,
       skipped |-> Overtaken(LastSeq(log))] \in SnapshotProgress
  BY <1>1, <1>2, <1>3 DEF SnapshotProgress, EmptyView
<1>5. clients' \in [Device -> Client]
  BY <1>1, <1>4 DEF SnapshotPin, TypeOK, Client
<1> QED BY <1>1, <1>5 DEF TypeOK, SnapshotPin, writeVars, streamVars

LEMMA SnapshotPageType ==
  ASSUME IInv, NEW d \in Device, SnapshotPage(d)
  PROVE  TypeOK'
<1> DEFINE snap == clients[d].snap
           page == SnapshotPageOf(snap.boundary, snap.last)
           view == [e \in Entity |->
                      IF e \in page THEN VersionAt(e, snap.boundary) ELSE snap.view[e]]
           hasMore == page # Remaining(snap.boundary, snap.last)
<1>1. /\ TypeOK /\ clients[d] \in Client /\ snap \in SnapshotProgress
      /\ CurrentEpoch \in Nat /\ Renewed(d) \in DeviceRow
  BY DeviceRowType DEF IInv, Client
<1>2. \A e \in Entity : VersionAt(e, snap.boundary) \in Nat
  BY LogLastSeq DEF VersionAt, RowsOf, UpTo
<1>3. view \in [Entity -> Nat]
  BY <1>1, <1>2 DEF SnapshotProgress
<1>4. hasMore => Max(page) \in Nat
  BY <1>1, PageLastType DEF SnapshotProgress
<1>5. clients' =
        IF hasMore
        THEN [clients EXCEPT ![d].stage = "paging", ![d].snap.view = view,
                             ![d].snap.last = Max(page)]
        ELSE [clients EXCEPT ![d].stage = "pull",
                             ![d].cursor = [epoch |-> snap.epoch, seq |-> snap.boundary],
                             ![d].view = view, ![d].skipped = snap.skipped,
                             ![d].snap = NoSnapshot]
  BY DEF SnapshotPage
<1> HIDE DEF page, view, hasMore
<1>6. NoSnapshot \in SnapshotProgress
  BY DEF NoSnapshot, SnapshotProgress, EmptyView
<1>7. clients' \in [Device -> Client]
  <2>1. CASE hasMore
    <3>1. [snap EXCEPT !.view = view, !.last = Max(page)] \in SnapshotProgress
      BY <1>1, <1>3, <1>4, <2>1 DEF SnapshotProgress
    <3>2. [clients[d] EXCEPT !.stage = "paging",
                             !.snap = [snap EXCEPT !.view = view, !.last = Max(page)]] \in Client
      BY <1>1, <3>1 DEF Client
    <3>3. clients' = [clients EXCEPT ![d] =
                        [clients[d] EXCEPT !.stage = "paging",
                           !.snap = [snap EXCEPT !.view = view, !.last = Max(page)]]]
      BY <1>1, <1>5, <2>1 DEF TypeOK, Client, SnapshotProgress
    <3> QED BY <1>1, <3>2, <3>3 DEF TypeOK
  <2>2. CASE ~ hasMore
    <3>1. [clients[d] EXCEPT !.stage = "pull",
                             !.cursor = [epoch |-> snap.epoch, seq |-> snap.boundary],
                             !.view = view, !.skipped = snap.skipped,
                             !.snap = NoSnapshot] \in Client
      BY <1>1, <1>3, <1>6 DEF Client, SnapshotProgress, Cursor
    <3>2. clients' = [clients EXCEPT ![d] =
                        [clients[d] EXCEPT !.stage = "pull",
                           !.cursor = [epoch |-> snap.epoch, seq |-> snap.boundary],
                           !.view = view, !.skipped = snap.skipped, !.snap = NoSnapshot]]
      BY <1>1, <1>5, <2>2 DEF TypeOK
    <3> QED BY <1>1, <3>1, <3>2 DEF TypeOK
  <2> QED BY <2>1, <2>2
<1>8. devices' \in [Device -> DeviceRow] /\ epoch' \in Nat
  BY <1>1 DEF SnapshotPage, TypeOK
<1>9. UNCHANGED <<seqCounter, pending, published, log, retained, aged, compaction, faults>>
  BY DEF SnapshotPage, writeVars
<1> QED BY <1>1, <1>7, <1>8, <1>9 DEF TypeOK

LEMMA ReadType ==
  ASSUME IInv, NEW d \in Device, Read(d)
  PROVE  TypeOK'
<1>1. CASE Pull(d)
  BY <1>1, PullType
<1>2. CASE PullExpired(d)
  BY <1>2 DEF IInv, TypeOK, PullExpired, Client, writeVars, streamVars
<1>3. CASE SnapshotPin(d)
  BY <1>3, SnapshotPinType
<1>4. CASE SnapshotPage(d)
  BY <1>4, SnapshotPageType
<1>5. CASE SnapshotExpired(d)
  <2>1. NoSnapshot \in SnapshotProgress
    BY DEF NoSnapshot, SnapshotProgress, EmptyView
  <2> DEFINE c == [clients[d] EXCEPT !.stage = "recover", !.snap = NoSnapshot]
  <2>2. clients \in [Device -> Client]
    BY DEF IInv, TypeOK
  <2>3. clients' = [clients EXCEPT ![d] = c]
    BY <1>5, <2>2 DEF SnapshotExpired
  <2>4. c \in Client
    BY <2>1, <2>2 DEF Client
  <2> HIDE DEF c
  <2>6. clients' \in [Device -> Client]
    BY <2>2, <2>3, <2>4
  <2>5. UNCHANGED <<writeVars, log, streamVars, aged, compaction, devices, faults>>
    BY <1>5 DEF SnapshotExpired
  <2> QED BY <2>5, <2>6 DEF IInv, TypeOK, writeVars, streamVars
<1> QED BY <1>1, <1>2, <1>3, <1>4, <1>5 DEF Read

LEMMA AckType ==
  ASSUME IInv, NEW d \in Device, Ack(d)
  PROVE  TypeOK'
<1>1. CASE SendAck(d)
  BY <1>1 DEF IInv, TypeOK, SendAck, Client, writeVars, streamVars
<1>2. ASSUME NEW c \in Cursor, Acknowledge(d, c)
      PROVE  TypeOK'
  <2>1. TypeOK /\ Renewed(d) \in DeviceRow
    BY DeviceRowType DEF IInv
  <2>2. AckedSeq(Renewed(d).seq, c.seq) \in Nat
    BY <2>1 DEF AckedSeq, Cursor, DeviceRow
  <2>3. devices' \in [Device -> DeviceRow]
    BY <1>2, <2>1, <2>2 DEF Acknowledge, TypeOK, DeviceRow
  <2> QED BY <1>2, <2>1, <2>3 DEF Acknowledge, TypeOK, writeVars, streamVars
<1>3. clients[d].cursor \in Cursor /\ clients[d].ack \in Cursor
  BY DEF IInv, TypeOK, Client
<1> QED BY <1>1, <1>2, <1>3 DEF Ack

LEMMA CompactType ==
  ASSUME IInv, Compact
  PROVE  TypeOK'
<1>1. CASE CompactBegin
  <2>1. [stage |-> "counting", boundary |-> Boundary, count |-> 0] \in Compaction
    BY <1>1, BoundaryType DEF CompactBegin, Compaction
  <2> QED BY <1>1, <2>1 DEF IInv, TypeOK, CompactBegin, writeVars, streamVars
<1>2. CASE CompactCount
  <2>1. Cardinality(Doomed(compaction.boundary)) \in Nat
    <3>1. Doomed(compaction.boundary) \in SUBSET log
      BY DEF Doomed, UpTo
    <3> QED BY <3>1, LogBounded, BoundedRowsFinite
  <2>2. compaction' \in Compaction
    BY <1>2, <2>1 DEF CompactCount, IInv, TypeOK, Compaction
  <2> QED BY <1>2, <2>2 DEF IInv, TypeOK, CompactCount, writeVars, streamVars
<1>3. CASE CompactDelete
  BY <1>3 DEF IInv, TypeOK, CompactDelete, NextEpoch, Compaction, Idle, writeVars
<1>4. CASE CompactRollback
  BY <1>4 DEF IInv, TypeOK, CompactRollback, Compaction, Idle, writeVars, streamVars
<1> QED BY <1>1, <1>2, <1>3, <1>4 DEF Compact

LEMMA FaultType ==
  ASSUME IInv, NEW d \in Device, Fault(d)
  PROVE  TypeOK'
<1>1. TypeOK
  BY DEF IInv
<1>2. faults' \in Nat
  BY <1>1 DEF Fault, TypeOK, ExpireDevice, ForgetCursor, AbandonSnapshot
<1>3. devices' \in [Device -> DeviceRow]
  BY <1>1 DEF Fault, TypeOK, ExpireDevice, ForgetCursor, AbandonSnapshot, DeviceRow
<1>4. clients' \in [Device -> Client]
  <2>1. NoSnapshot \in SnapshotProgress /\ NoCursor \in Cursor
    BY DEF NoSnapshot, SnapshotProgress, EmptyView, NoCursor, Cursor
  <2>2. clients[d] \in Client /\ clients \in [Device -> Client]
    BY <1>1 DEF TypeOK
  <2>3. [clients[d] EXCEPT !.cursor = NoCursor] \in Client
    BY <2>1, <2>2 DEF Client
  <2>4. [clients[d] EXCEPT !.stage = "recover", !.snap = NoSnapshot] \in Client
    BY <2>1, <2>2 DEF Client
  <2>5. CASE ExpireDevice(d)
    BY <2>2, <2>5 DEF ExpireDevice
  <2>6. CASE ForgetCursor(d)
    BY <2>2, <2>3, <2>6 DEF ForgetCursor
  <2>7. CASE AbandonSnapshot(d)
    BY <2>2, <2>4, <2>7 DEF AbandonSnapshot
  <2> QED BY <2>5, <2>6, <2>7 DEF Fault
<1>5. UNCHANGED <<seqCounter, pending, published, log, epoch, retained, aged, compaction>>
  BY DEF Fault, ExpireDevice, ForgetCursor, AbandonSnapshot, writeVars, streamVars
<1> QED BY <1>1, <1>2, <1>3, <1>4, <1>5 DEF TypeOK

LEMMA TypeStep ==
  ASSUME IInv, [Next]_vars
  PROVE  TypeOK'
<1>1. CASE UNCHANGED vars
  BY <1>1 DEF vars, IInv, TypeOK
<1>2. ASSUME NEW w \in Writer, Write(w) PROVE TypeOK'
  BY <1>2, WriteType
<1>3. ASSUME NEW d \in Device, Read(d) \/ Ack(d) \/ Fault(d) PROVE TypeOK'
  BY <1>3, ReadType, AckType, FaultType
<1>4. CASE RetentionPasses
  BY <1>4 DEF IInv, TypeOK, RetentionPasses, Seqs, Row, writeVars, streamVars
<1>5. CASE Compact
  BY <1>5, CompactType
<1> QED BY <1>1, <1>2, <1>3, <1>4, <1>5 DEF Next

-----------------------------------------------------------------------------
(* The other parts of the invariant are preserved.                         *)

\* Which steps touch what: a writer draws and publishes, a compaction that
\* deletes moves the horizon, every other step leaves rows and horizon alone.
LEMMA RowsKept ==
  ASSUME [Next]_vars,
         ~ (\E w \in Writer : Write(w)), ~ CompactDelete
  PROVE  UNCHANGED <<seqCounter, pending, published, log, retained>>
<1>1. CASE UNCHANGED vars
  BY <1>1 DEF vars
<1>2. ASSUME NEW d \in Device, Read(d) \/ Ack(d) \/ Fault(d)
      PROVE  UNCHANGED <<seqCounter, pending, published, log, retained>>
  <2>1. CASE Read(d)
    BY <2>1 DEF Read, Pull, PullExpired, SnapshotPin, SnapshotPage, SnapshotExpired,
                writeVars, streamVars
  <2>2. CASE Ack(d)
    BY <2>2 DEF Ack, SendAck, Acknowledge, writeVars, streamVars
  <2>3. CASE Fault(d)
    BY <2>3 DEF Fault, ExpireDevice, ForgetCursor, AbandonSnapshot, writeVars, streamVars
  <2> QED BY <1>2, <2>1, <2>2, <2>3
<1>3. CASE RetentionPasses
  BY <1>3 DEF RetentionPasses, writeVars, streamVars
<1>4. CASE Compact
  BY <1>4 DEF Compact, CompactBegin, CompactCount, CompactRollback, writeVars, streamVars
<1> QED BY <1>1, <1>2, <1>3, <1>4 DEF Next

LEMMA DrawnStep ==
  ASSUME IInv, [Next]_vars
  PROVE  Drawn'
<1>1. ASSUME NEW w \in Writer, Write(w) PROVE Drawn'
  <2>1. CASE \E e \in Entity : Append(w, e)
    <3>1. PICK e \in Entity : Append(w, e)
      BY <2>1
    <3>2. seqCounter \in Nat /\ seqCounter' = seqCounter + 1
      BY <3>1 DEF Append, IInv, TypeOK
    <3>3. \A r \in published : r.seq <= seqCounter'
      BY <3>2 DEF IInv, TypeOK, Drawn, Row
    <3>4. \A v \in Writer : \A r \in pending[v] : r.seq <= seqCounter'
      BY <3>2 DEF IInv, TypeOK, Drawn, Row
    <3>5. published' = published
      BY <3>1 DEF Append
    <3>6. \A v \in Writer : pending'[v] \subseteq
                              pending[v] \cup {[seq |-> seqCounter', entity |-> e]}
      BY <3>1 DEF Append, IInv, TypeOK
    <3> QED BY <3>2, <3>3, <3>4, <3>5, <3>6 DEF Drawn
  <2>2. CASE RollbackSavepoint(w) \/ Rollback(w) \/ Commit(w)
    <3>1. seqCounter' = seqCounter /\ published' \subseteq published \cup pending[w]
      BY <2>2 DEF RollbackSavepoint, Rollback, Commit
    <3>2. \A v \in Writer : pending'[v] \subseteq pending[v]
      BY <2>2 DEF RollbackSavepoint, Rollback, Commit, IInv, TypeOK
    <3> QED BY <3>1, <3>2 DEF IInv, Drawn
  <2> QED BY <1>1, <2>1, <2>2 DEF Write
<1>2. CASE CompactDelete
  BY <1>2 DEF IInv, Drawn, CompactDelete, writeVars
<1>3. CASE ~ (\E w \in Writer : Write(w)) /\ ~ CompactDelete
  BY <1>3, RowsKept DEF IInv, Drawn
<1> QED BY <1>1, <1>2, <1>3

LEMMA LogPublishedStep ==
  ASSUME IInv, [Next]_vars
  PROVE  (log \subseteq published)'
<1>1. ASSUME NEW w \in Writer, Write(w) PROVE log' \subseteq published'
  BY <1>1 DEF Write, Append, RollbackSavepoint, Rollback, Commit, IInv
<1>2. CASE CompactDelete
  BY <1>2 DEF IInv, CompactDelete, writeVars
<1>3. CASE ~ (\E w \in Writer : Write(w)) /\ ~ CompactDelete
  BY <1>3, RowsKept DEF IInv
<1> QED BY <1>1, <1>2, <1>3

\* The heart of the anchor invariant: a row that a compaction deletes, or an
\* earlier one deleted, has a later row of its entity at or below the new
\* horizon, and the newest such row survives.
LEMMA AnchoredStep ==
  ASSUME IInv, [Next]_vars
  PROVE  Anchored'
<1>1. ASSUME NEW w \in Writer, Write(w) PROVE Anchored'
  <2>1. retained' = retained /\ log \subseteq log'
    BY <1>1 DEF Write, Append, RollbackSavepoint, Rollback, Commit, streamVars
  <2>2. \A r \in published' : r \notin log' => r \in published
    BY <1>1 DEF Write, Append, RollbackSavepoint, Rollback, Commit
  <2> QED BY <2>1, <2>2 DEF IInv, Anchored
<1>2. CASE CompactDelete
  <2> DEFINE b == compaction.boundary
  <2>1. /\ retained' = b /\ log' = log \ Doomed(b) /\ published' = published
        /\ compaction.stage = "deleting"
    BY <1>2 DEF CompactDelete, writeVars
  <2>2. retained <= b /\ b \in Nat /\ retained \in Nat
    BY <2>1 DEF IInv, TypeOK, Compaction, BoundaryAhead
  <2>3. log \in SUBSET Row /\ published \in SUBSET Row
    BY DEF IInv, TypeOK
  <2> SUFFICES ASSUME NEW r \in published, r \notin log'
               PROVE  \E l \in log' : l.entity = r.entity /\ r.seq < l.seq /\ l.seq <= b
    BY <2>1 DEF Anchored
  <2>4. PICK m \in log : m.entity = r.entity /\ r.seq < m.seq /\ m.seq <= b
    <3>1. CASE r \notin log
      <4>1. PICK m \in log : m.entity = r.entity /\ r.seq < m.seq /\ m.seq <= retained
        BY <3>1 DEF IInv, Anchored
      <4>2. m.seq \in Nat
        BY <2>3 DEF Row
      <4> QED BY <2>2, <4>1, <4>2
    <3>2. CASE r \in log
      <4>1. r \in Doomed(b)
        BY <2>1, <3>2
      <4> QED BY <2>3, <4>1 DEF Doomed, Superseded, UpTo, Row
    <3> QED BY <3>1, <3>2
  <2>5. m \in UpTo(log, b)
    BY <2>4 DEF UpTo
  <2>6. PICK l \in log \ Doomed(b) : l.entity = m.entity /\ m.seq <= l.seq /\ l.seq <= b
    BY <2>2, <2>3, <2>5, NewestSurvives
  <2>7. r.seq \in Nat /\ m.seq \in Nat /\ l.seq \in Nat
    BY <2>3 DEF Row
  <2> QED BY <2>1, <2>4, <2>6, <2>7
<1>3. CASE ~ (\E w \in Writer : Write(w)) /\ ~ CompactDelete
  BY <1>3, RowsKept DEF IInv, Anchored
<1> QED BY <1>1, <1>2, <1>3

LEMMA CompactionKept ==
  ASSUME [Next]_vars, ~ Compact
  PROVE  compaction' = compaction
<1>1. ASSUME NEW w \in Writer, Write(w) PROVE compaction' = compaction
  BY <1>1 DEF Write, Append, RollbackSavepoint, Rollback, Commit
<1>2. ASSUME NEW d \in Device, Read(d) PROVE compaction' = compaction
  BY <1>2 DEF Read, Pull, PullExpired, SnapshotPin, SnapshotPage, SnapshotExpired
<1>3. ASSUME NEW d \in Device, Ack(d) \/ Fault(d) PROVE compaction' = compaction
  BY <1>3 DEF Ack, SendAck, Acknowledge, Fault, ExpireDevice, ForgetCursor, AbandonSnapshot
<1> QED BY <1>1, <1>2, <1>3 DEF Next, RetentionPasses, vars

\* The horizon stays put from the step that chooses the boundary to the one
\* that deletes, which ends the compaction.
LEMMA BoundaryAheadStep ==
  ASSUME IInv, [Next]_vars
  PROVE  BoundaryAhead'
<1>1. CASE Compact
  <2>1. CASE CompactBegin
    <3>1. Boundary \in Nat /\ retained \in Nat /\ Boundary > retained
      BY <2>1, BoundaryType DEF CompactBegin, IInv, TypeOK
    <3> QED BY <2>1, <3>1 DEF CompactBegin, BoundaryAhead, streamVars
  <2>2. CASE CompactCount
    <3>1. compaction'.boundary = compaction.boundary /\ retained' = retained
      BY <2>2 DEF CompactCount, IInv, TypeOK, Compaction, streamVars
    <3>2. compaction.stage # "idle"
      BY <2>2 DEF CompactCount
    <3> QED BY <3>1, <3>2 DEF IInv, BoundaryAhead
  <2>3. CASE CompactDelete \/ CompactRollback
    BY <2>3 DEF CompactDelete, CompactRollback, Idle, BoundaryAhead
  <2> QED BY <1>1, <2>1, <2>2, <2>3 DEF Compact
<1>2. CASE ~ Compact
  <2>1. compaction' = compaction
    BY <1>2, CompactionKept
  <2>2. retained' = retained
    <3>1. ASSUME NEW w \in Writer, Write(w) PROVE retained' = retained
      BY <3>1 DEF Write, Append, RollbackSavepoint, Rollback, Commit, streamVars
    <3>2. ~ CompactDelete
      BY <1>2 DEF Compact
    <3> QED BY <3>1, <3>2, RowsKept
  <2> QED BY <2>1, <2>2 DEF IInv, BoundaryAhead
<1> QED BY <1>1, <1>2

\* A step that writes the row of a device gives it an epoch, and never a
\* smaller acknowledged sequence.
LEMMA DeviceStep ==
  ASSUME IInv, [Next]_vars, NEW x \in Device, devices'[x] # devices[x]
  PROVE  devices'[x].epoch # 0 /\ devices'[x].seq >= devices[x].seq
<1>1. /\ devices \in [Device -> DeviceRow] /\ clients \in [Device -> Client]
      /\ devices[x] \in DeviceRow /\ devices[x].seq \in Nat
  BY DEF IInv, TypeOK, DeviceRow
<1>2. /\ Renewed(x) \in DeviceRow
      /\ Renewed(x).epoch # 0
      /\ Renewed(x).seq >= devices[x].seq
  <2>1. CurrentEpoch \in Nat \ {0} /\ DeviceOf(x) \in DeviceRow
    BY DeviceRowType DEF CurrentEpoch, IInv, TypeOK
  <2>2. DeviceOf(x).seq >= devices[x].seq
    BY <1>1 DEF DeviceOf, IInv, RowlessAtZero
  <2> QED BY <2>1, <2>2 DEF Renewed, DeviceRow
<1>3. ASSUME NEW d \in Device, Read(d) \/ Ack(d) \/ Fault(d)
      PROVE  devices'[x].epoch # 0 /\ devices'[x].seq >= devices[x].seq
  <2>1. CASE Read(d)
    BY <1>1, <1>2, <2>1 DEF Read, Pull, PullExpired, SnapshotPin, SnapshotPage, SnapshotExpired
  <2>2. ASSUME NEW c \in Cursor, Acknowledge(d, c)
        PROVE  devices'[x].epoch # 0 /\ devices'[x].seq >= devices[x].seq
    <3>1. devices' = [devices EXCEPT ![d] = [Renewed(d) EXCEPT !.seq = AckedSeq(@, c.seq)]]
      BY <2>2 DEF Acknowledge
    <3>2. d = x
      BY <1>1, <3>1
    <3>3. devices'[x] = [Renewed(x) EXCEPT !.seq = AckedSeq(Renewed(x).seq, c.seq)]
      BY <1>1, <3>1, <3>2
    <3>4. AckedSeq(Renewed(x).seq, c.seq) >= Renewed(x).seq
      BY <1>2 DEF AckedSeq, DeviceRow, Cursor
    <3>5. AckedSeq(Renewed(x).seq, c.seq) \in Nat
      BY <1>2 DEF AckedSeq, DeviceRow, Cursor
    <3> QED BY <1>1, <1>2, <3>3, <3>4, <3>5 DEF DeviceRow
  <2>3. clients[d].cursor \in Cursor /\ clients[d].ack \in Cursor
    BY <1>1 DEF Client
  <2>4. CASE Ack(d)
    BY <2>2, <2>3, <2>4 DEF Ack, SendAck
  <2>5. CASE Fault(d)
    BY <1>1, <2>5 DEF Fault, ExpireDevice, ForgetCursor, AbandonSnapshot, DeviceRow
  <2> QED BY <1>3, <2>1, <2>4, <2>5
<1>4. ASSUME NEW w \in Writer, Write(w) PROVE devices' = devices
  BY <1>4 DEF Write, Append, RollbackSavepoint, Rollback, Commit
<1>5. CASE UNCHANGED vars \/ RetentionPasses \/ Compact
  BY <1>5 DEF vars, RetentionPasses, Compact, CompactBegin, CompactCount, CompactDelete,
              CompactRollback
<1> QED BY <1>3, <1>4, <1>5 DEF Next

LEMMA RowlessStep ==
  ASSUME IInv, [Next]_vars
  PROVE  RowlessAtZero'
<1> SUFFICES ASSUME NEW x \in Device, devices'[x].epoch = 0 PROVE devices'[x].seq = 0
  BY DEF RowlessAtZero
<1>1. devices'[x] = devices[x]
  BY DeviceStep
<1> QED BY <1>1 DEF IInv, RowlessAtZero

-----------------------------------------------------------------------------
(* The theorems.                                                           *)

\* The invariant is inductive.
THEOREM Invariance == Spec => []IInv
<1>1. Init => IInv
  BY InitInvariant
<1>2. IInv /\ [Next]_vars => IInv'
  <2> SUFFICES ASSUME IInv, [Next]_vars PROVE IInv'
    OBVIOUS
  <2> QED BY TypeStep, DrawnStep, LogPublishedStep, AnchoredStep, BoundaryAheadStep,
               RowlessStep DEF IInv
<1> QED BY <1>1, <1>2, PTL DEF Spec

\* Type correctness: every variable of the stream, its device rows and its
\* clients keeps its type in every behaviour.
THEOREM TypeCorrect == Spec => []TypeOK
<1>1. IInv => TypeOK
  BY DEF IInv
<1> QED BY <1>1, Invariance, PTL

\* A snapshot reads from the compacted log what it would read from the full
\* one: compact_sync_stream and its trigger never delete a row a snapshot at or
\* above the retained horizon needs.
THEOREM SnapshotsExact == Spec => []SnapshotExact
<1>1. IInv => SnapshotExact
  <2> SUFFICES ASSUME IInv, NEW r \in published, NEW b \in retained .. seqCounter, r.seq <= b
               PROVE  \E l \in log : l.entity = r.entity /\ r.seq <= l.seq /\ l.seq <= b
    BY DEF SnapshotExact
  <2>1. b \in Nat /\ retained <= b
    BY DEF IInv, TypeOK
  <2> QED BY <2>1, AnchorFound
<1> QED BY <1>1, Invariance, PTL

\* The acknowledged sequence of a device never moves back: acknowledge_cursor
\* keeps the greater sequence, and every handler that renews a device row, with
\* a new epoch or after expiry, keeps it.
THEOREM AcksMonotone == Spec => AckMonotone
<1>1. IInv /\ [Next]_vars => [\A d \in Device : devices'[d].seq >= devices[d].seq]_devices
  <2> SUFFICES ASSUME IInv, [Next]_vars, NEW d \in Device
               PROVE  devices'[d].seq >= devices[d].seq
    OBVIOUS
  <2>1. CASE devices'[d] = devices[d]
    BY <2>1 DEF IInv, TypeOK, DeviceRow
  <2>2. CASE devices'[d] # devices[d]
    BY <2>2, DeviceStep
  <2> QED BY <2>1, <2>2
<1> QED BY <1>1, Invariance, PTL DEF Spec, AckMonotone

-----------------------------------------------------------------------------
(* What the readers rely on: the part of the invariant about cursors,      *)
(* acknowledgements and snapshots.                                         *)

\* Position n is not beyond the newest committed row.
WithinLog(n) == n = 0 \/ \E l \in log : n <= l.seq

\* No client is ahead of the stream's epoch, and a position of the current
\* epoch does not precede the retained horizon.
EpochOrdered(d) ==
  /\ clients[d].cursor.epoch <= epoch
  /\ clients[d].snap.epoch <= CurrentEpoch
  /\ clients[d].stage = "pinned" => clients[d].snap.epoch = CurrentEpoch
  /\ clients[d].cursor.epoch = epoch => clients[d].cursor.seq >= retained
  /\ clients[d].snap.epoch = CurrentEpoch => clients[d].snap.boundary >= retained

\* A compaction excludes the transaction that pins a snapshot.
StreamExclusive ==
  /\ epoch = 0 => retained = 0
  /\ compaction.stage # "idle" =>
       epoch # 0 /\ \A d \in Device : clients[d].stage # "pinned"

HorizonWithinLog == WithinLog(retained) /\ WithinLog(compaction.boundary)

\* Every position a client or its device row holds has been committed.
PositionsWithinLog(d) ==
  /\ WithinLog(clients[d].cursor.seq)
  /\ WithinLog(clients[d].ack.seq)
  /\ WithinLog(clients[d].snap.boundary)
  /\ WithinLog(devices[d].seq)

\* Client d has, up to sequence n, every row committed or in flight, but for the
\* rows that were in flight when it moved past them.
Reached(d, n) ==
  \A r \in published \cup InFlight :
    r.seq <= n => clients[d].view[r.entity] >= r.seq \/ r.seq \in clients[d].skipped

Covered(d) ==
  /\ Reached(d, clients[d].cursor.seq)
  /\ Reached(d, clients[d].ack.seq)
  /\ Reached(d, devices[d].seq)

\* A snapshot under way is ahead of what the client and the server remember, and
\* its pages hold, for the entities already paged, every row up to the boundary
\* that was not in flight when the boundary was pinned, and nothing beyond it.
Gathering(d) ==
  LET snap == clients[d].snap IN
  /\ clients[d].cursor.seq <= snap.boundary
  /\ clients[d].ack.seq <= snap.boundary
  /\ devices[d].seq <= snap.boundary
  /\ \A r \in InFlight : r.seq <= snap.boundary => r.seq \in snap.skipped
  /\ \A r \in published :
       r.seq <= snap.boundary /\ r.entity <= snap.last
         => snap.view[r.entity] >= r.seq \/ r.seq \in snap.skipped
  /\ \A e \in Entity :
       snap.view[e] # 0 =>
         \E r \in published : r.entity = e /\ r.seq = snap.view[e] /\ r.seq <= snap.boundary

ReaderInv(d) ==
  /\ EpochOrdered(d)
  /\ PositionsWithinLog(d)
  /\ Covered(d)
  /\ clients[d].stage \in {"pinned", "paging"} => Gathering(d)

RInv ==
  /\ IInv
  /\ StreamExclusive
  /\ HorizonWithinLog
  /\ \A d \in Device : ReaderInv(d)

-----------------------------------------------------------------------------
(* Operators of the read handlers.                                         *)

\* The newest committed row stays: no compaction takes the log backwards.
LEMMA LogTopKept ==
  ASSUME IInv, [Next]_vars, NEW n \in Nat, NEW l \in log, n <= l.seq
  PROVE  \E m \in log' : n <= m.seq
<1>1. CASE CompactDelete
  <2>1. log' = log \ Doomed(compaction.boundary) /\ log \in SUBSET Row
    BY <1>1 DEF CompactDelete, IInv, TypeOK
  <2>2. PICK m \in log : m.seq = LastSeq(log) /\ \A q \in log : q.seq <= m.seq
    BY LogBounded, LastSeqProperty
  <2>3. m.seq \in Nat /\ \A q \in log : q.seq \in Nat
    BY <2>1 DEF Row
  <2>4. m \notin Doomed(compaction.boundary)
    BY <2>2, <2>3 DEF Doomed, Superseded
  <2> QED BY <2>1, <2>2, <2>3, <2>4
<1>2. ASSUME NEW w \in Writer, Write(w) PROVE log \subseteq log'
  BY <1>2 DEF Write, Append, RollbackSavepoint, Rollback, Commit
<1>3. CASE ~ (\E w \in Writer : Write(w)) /\ ~ CompactDelete
  BY <1>3, RowsKept
<1> QED BY <1>1, <1>2, <1>3

LEMMA WithinLogStep ==
  ASSUME IInv, [Next]_vars
  PROVE  \A n \in Nat : WithinLog(n) => n = 0 \/ \E m \in log' : n <= m.seq
BY LogTopKept DEF WithinLog

\* A position within the log is at most the newest committed sequence, which is
\* itself within the log, and at most the last one drawn.
LEMMA WithinLogBound ==
  ASSUME IInv
  PROVE  /\ LastSeq(log) \in Nat
         /\ WithinLog(LastSeq(log))
         /\ \A n \in Nat : WithinLog(n) => n <= LastSeq(log) /\ n <= seqCounter
<1>1. /\ LastSeq(log) \in Nat /\ LastSeq(log) <= seqCounter
      /\ \A r \in log : r.seq <= LastSeq(log)
      /\ log # {} => \E r \in log : r.seq = LastSeq(log)
  BY LogBounded, LastSeqProperty
<1>2. log = {} => LastSeq(log) = 0
  BY DEF LastSeq
<1>3. WithinLog(LastSeq(log))
  <2>1. \A r \in log : r.seq \in Nat
    BY LogBounded DEF Row
  <2> QED BY <1>1, <1>2, <2>1 DEF WithinLog
<1>4. ASSUME NEW n \in Nat, WithinLog(n) PROVE n <= LastSeq(log) /\ n <= seqCounter
  <2>1. \A r \in log : r.seq \in Nat
    BY LogBounded DEF Row
  <2>2. CASE n = 0
    BY <1>1, <2>2, LogBounded
  <2>3. CASE n # 0
    <3>1. PICK l \in log : n <= l.seq
      BY <1>4, <2>3 DEF WithinLog
    <3> QED BY <1>1, <2>1, <3>1, LogBounded
  <2> QED BY <2>2, <2>3
<1> QED BY <1>1, <1>3, <1>4

\* A page leaves out no committed row between where it starts and its last row.
LEMMA PageTakesAll ==
  ASSUME IInv, NEW n \in Nat, NEW r \in log,
         n < r.seq, r.seq <= NextCursor(n, PageAfter(n))
  PROVE  r \in PageAfter(n)
<1> DEFINE page == PageAfter(n)
           before(q) == {p \in log : n < p.seq /\ p.seq < q.seq}
<1>1. page \in SUBSET log /\ \A q \in log : q.seq \in Nat
  BY LogBounded DEF PageAfter, Row
<1>2. page # {}
  BY <1>1 DEF NextCursor
<1>3. PICK m \in page : m.seq = NextCursor(n, page)
  <2>1. page \in SUBSET Row /\ \A q \in page : q.seq <= seqCounter
    BY <1>1, LogBounded
  <2> QED BY <1>2, <2>1, LogBounded, LastSeqProperty DEF NextCursor
<1>4. m \in log /\ Cardinality(before(m)) < PageSize
  BY <1>3 DEF PageAfter
<1>5. before(r) \subseteq before(m)
  BY <1>1, <1>3, <1>4
<1>6. IsFiniteSet(before(m)) /\ Cardinality(before(m)) \in Nat
  <2>1. before(m) \in SUBSET Row /\ \A q \in before(m) : q.seq <= seqCounter
    BY LogBounded
  <2> HIDE DEF before
  <2> QED BY <2>1, LogBounded, BoundedRowsFinite
<1>7. Cardinality(before(r)) <= Cardinality(before(m)) /\ Cardinality(before(r)) \in Nat
  <2> HIDE DEF before
  <2> QED BY <1>5, <1>6, FS_Subset, FS_CardinalityType
<1>8. Cardinality(before(r)) < PageSize
  BY <1>4, <1>6, <1>7, SizesAssumption
<1> QED BY <1>8 DEF PageAfter

LEMMA NextCursorProperty ==
  ASSUME IInv, NEW n \in Nat
  PROVE  /\ NextCursor(n, PageAfter(n)) \in Nat
         /\ NextCursor(n, PageAfter(n)) >= n
         /\ WithinLog(n) => WithinLog(NextCursor(n, PageAfter(n)))
<1> DEFINE page == PageAfter(n)
<1>1. page \in SUBSET log /\ \A q \in page : q.seq \in Nat /\ n < q.seq
  BY LogBounded DEF PageAfter, Row
<1>2. CASE page = {}
  BY <1>2 DEF NextCursor
<1>3. CASE page # {}
  <2>1. page \in SUBSET Row /\ \A q \in page : q.seq <= seqCounter
    BY <1>1, LogBounded
  <2>2. PICK m \in page : m.seq = LastSeq(page)
    BY <1>3, <2>1, LogBounded, LastSeqProperty
  <2>3. NextCursor(n, page) = m.seq
    BY <1>3, <2>2 DEF NextCursor
  <2>4. m.seq \in Nat /\ n < m.seq /\ m \in log
    BY <1>1
  <2>5. \E l \in log : m.seq <= l.seq
    BY <2>4
  <2> QED BY <2>3, <2>4, <2>5 DEF WithinLog
<1> QED BY <1>2, <1>3

\* Applying a page takes no entity back and reaches every row of the page.
LEMMA AppliedProperty ==
  ASSUME IInv, NEW view \in [Entity -> Nat], NEW page \in SUBSET log
  PROVE  /\ \A e \in Entity : Applied(view, page)[e] >= view[e]
         /\ \A r \in page : Applied(view, page)[r.entity] >= r.seq
<1>1. ASSUME NEW e \in Entity
      PROVE  /\ LastSeq(RowsOf(page, e)) \in Nat
             /\ \A r \in RowsOf(page, e) : r.seq <= LastSeq(RowsOf(page, e))
  <2>1. RowsOf(page, e) \in SUBSET Row /\ \A r \in RowsOf(page, e) : r.seq <= seqCounter
    BY LogBounded DEF RowsOf
  <2> QED BY <2>1, LogBounded, LastSeqProperty
<1>2. \A e \in Entity : view[e] \in Nat
  OBVIOUS
<1>3. \A e \in Entity : Applied(view, page)[e] >= view[e]
  BY <1>1, <1>2 DEF Applied
<1>4. ASSUME NEW r \in page PROVE Applied(view, page)[r.entity] >= r.seq
  <2>1. r.entity \in Entity /\ r.seq \in Nat /\ r \in RowsOf(page, r.entity)
    BY LogBounded DEF Row, RowsOf
  <2>2. r.seq <= LastSeq(RowsOf(page, r.entity))
    BY <1>1, <2>1
  <2>3. LastSeq(RowsOf(page, r.entity)) \in Nat /\ view[r.entity] \in Nat
    BY <1>1, <1>2, <2>1
  <2> HIDE DEF RowsOf
  <2> QED BY <2>1, <2>2, <2>3 DEF Applied
<1> QED BY <1>3, <1>4

\* A snapshot page, at a boundary at or above the horizon, gives each of its
\* entities a committed row up to the boundary, and none older than another.
LEMMA VersionProperty ==
  ASSUME IInv, NEW b \in Nat, retained <= b, NEW e \in Entity
  PROVE  /\ VersionAt(e, b) \in Nat
         /\ \A r \in published : r.entity = e /\ r.seq <= b => r.seq <= VersionAt(e, b)
         /\ VersionAt(e, b) # 0 =>
              \E r \in published : r.entity = e /\ r.seq = VersionAt(e, b) /\ r.seq <= b
<1> DEFINE R == RowsOf(UpTo(log, b), e)
<1>1. R \in SUBSET Row /\ R \subseteq log /\ \A r \in R : r.seq <= b /\ r.entity = e
  BY LogBounded DEF RowsOf, UpTo
<1>2. /\ LastSeq(R) \in Nat
      /\ \A r \in R : r.seq <= LastSeq(R)
      /\ R # {} => \E r \in R : r.seq = LastSeq(R)
  BY <1>1, LastSeqProperty
<1>3. VersionAt(e, b) = LastSeq(R)
  BY DEF VersionAt
<1>4. ASSUME NEW r \in published, r.entity = e, r.seq <= b PROVE r.seq <= LastSeq(R)
  <2>1. PICK l \in log : l.entity = e /\ r.seq <= l.seq /\ l.seq <= b
    BY <1>4, AnchorFound
  <2>2. l \in R
    BY <2>1 DEF RowsOf, UpTo
  <2>3. r.seq \in Nat /\ l.seq \in Nat /\ l.seq <= LastSeq(R)
    BY <1>1, <1>2, <2>2 DEF IInv, TypeOK, Row
  <2> QED BY <1>2, <2>1, <2>3
<1>5. LastSeq(R) # 0 => R # {}
  BY DEF LastSeq
<1>6. log \subseteq published
  BY DEF IInv
<1> HIDE DEF R
<1> QED BY <1>1, <1>2, <1>3, <1>4, <1>5, <1>6

-----------------------------------------------------------------------------
(* How rows, epoch and horizon move in a step.                             *)

\* A row enters the stream in flight, beyond every sequence drawn before, and is
\* published from there.
LEMMA RowsStep ==
  ASSUME IInv, [Next]_vars
  PROVE  /\ published \subseteq published'
         /\ \A r \in published' : r \in published \/ r \in InFlight
         /\ \A r \in InFlight' : r \in InFlight \/ r.seq > seqCounter
<1>1. ASSUME NEW w \in Writer, Write(w)
      PROVE  /\ published \subseteq published'
             /\ \A r \in published' : r \in published \/ r \in InFlight
             /\ \A r \in InFlight' : r \in InFlight \/ r.seq > seqCounter
  <2>1. CASE \E e \in Entity : Append(w, e)
    <3>1. PICK e \in Entity : Append(w, e)
      BY <2>1
    <3>2. seqCounter' > seqCounter /\ published' = published
      BY <3>1 DEF Append, IInv, TypeOK
    <3>3. \A v \in Writer : pending'[v] \subseteq
                              pending[v] \cup {[seq |-> seqCounter', entity |-> e]}
      BY <3>1 DEF Append, IInv, TypeOK
    <3> QED BY <3>2, <3>3 DEF InFlight
  <2>2. CASE RollbackSavepoint(w) \/ Rollback(w) \/ Commit(w)
    <3>1. published \subseteq published' /\ published' \subseteq published \cup pending[w]
      BY <2>2 DEF RollbackSavepoint, Rollback, Commit
    <3>2. \A v \in Writer : pending'[v] \subseteq pending[v]
      BY <2>2 DEF RollbackSavepoint, Rollback, Commit, IInv, TypeOK
    <3> QED BY <3>1, <3>2 DEF InFlight
  <2> QED BY <1>1, <2>1, <2>2 DEF Write
<1>2. CASE CompactDelete
  BY <1>2 DEF CompactDelete, writeVars, InFlight
<1>3. CASE ~ (\E w \in Writer : Write(w)) /\ ~ CompactDelete
  BY <1>3, RowsKept DEF InFlight
<1> QED BY <1>1, <1>2, <1>3

\* The epoch starts with the stream row, stays while the horizon stays, and moves
\* on with it.
LEMMA EpochStep ==
  ASSUME IInv, [Next]_vars
  PROVE  \/ epoch' \in {epoch, CurrentEpoch} /\ retained' = retained
         \/ CompactDelete
<1> SUFFICES ASSUME ~ CompactDelete
             PROVE  epoch' \in {epoch, CurrentEpoch} /\ retained' = retained
  OBVIOUS
<1>1. ASSUME NEW w \in Writer, Write(w) PROVE epoch' = epoch /\ retained' = retained
  BY <1>1 DEF Write, Append, RollbackSavepoint, Rollback, Commit, streamVars
<1>2. ASSUME NEW d \in Device, Read(d)
      PROVE  epoch' \in {epoch, CurrentEpoch} /\ retained' = retained
  BY <1>2 DEF Read, Pull, PullExpired, SnapshotPin, SnapshotPage, SnapshotExpired, streamVars
<1>3. ASSUME NEW d \in Device, Ack(d) \/ Fault(d) PROVE epoch' = epoch /\ retained' = retained
  BY <1>3 DEF Ack, SendAck, Acknowledge, Fault, ExpireDevice, ForgetCursor, AbandonSnapshot,
              streamVars
<1>4. CASE UNCHANGED vars \/ RetentionPasses \/ Compact
  BY <1>4 DEF vars, RetentionPasses, Compact, CompactBegin, CompactCount, CompactRollback,
              streamVars
<1> QED BY <1>1, <1>2, <1>3, <1>4 DEF Next

LEMMA CompactDeleteEffect ==
  ASSUME RInv, CompactDelete
  PROVE  /\ epoch' = epoch + 1 /\ epoch \in Nat /\ epoch # 0
         /\ CurrentEpoch = epoch /\ CurrentEpoch' = epoch + 1
         /\ retained' \in Nat
         /\ \A d \in Device : clients[d].stage # "pinned"
         /\ UNCHANGED <<clients, devices>>
<1>1. compaction.stage # "idle"
  BY DEF CompactDelete
<1>2. epoch # 0 /\ epoch \in Nat /\ \A d \in Device : clients[d].stage # "pinned"
  BY <1>1 DEF RInv, StreamExclusive, IInv, TypeOK
<1>3. epoch' = epoch + 1 /\ retained' = compaction.boundary /\ UNCHANGED <<clients, devices>>
  BY DEF CompactDelete, NextEpoch
<1>4. compaction.boundary \in Nat
  BY DEF RInv, IInv, TypeOK, Compaction
<1> QED BY <1>2, <1>3, <1>4 DEF CurrentEpoch

LEMMA HorizonStep ==
  ASSUME RInv, [Next]_vars
  PROVE  HorizonWithinLog'
<1>1. /\ IInv /\ retained \in Nat /\ compaction.boundary \in Nat
      /\ WithinLog(retained) /\ WithinLog(compaction.boundary)
  BY DEF RInv, IInv, TypeOK, Compaction, HorizonWithinLog
<1>2. /\ retained = 0 \/ \E m \in log' : retained <= m.seq
      /\ compaction.boundary = 0 \/ \E m \in log' : compaction.boundary <= m.seq
  BY <1>1, WithinLogStep
<1>3. CASE CompactBegin
  <2>1. Boundary \in Nat /\ WithinLog(Boundary)
    <3> DEFINE recent == {n \in Seqs(log) : n > aged}
    <3>1. Boundary \in Nat
      BY <1>1, <1>3, BoundaryType DEF CompactBegin
    <3>2. CASE recent = {}
      BY <1>1, <3>2, WithinLogBound DEF Boundary
    <3>3. CASE recent # {}
      <4>1. recent \in SUBSET Nat /\ \A n \in recent : n <= seqCounter
        BY <1>1, LogBounded DEF Seqs, Row
      <4>2. Min(recent) \in recent
        <5> HIDE DEF recent
        <5> QED BY <1>1, <3>3, <4>1, LogBounded, MinProperty
      <4>3. PICK l \in log : l.seq = Min(recent)
        BY <4>2 DEF Seqs
      <4>4. Boundary = l.seq - 1 /\ l.seq \in Nat
        BY <1>1, <3>3, <4>3, LogBounded DEF Boundary, Row
      <4>5. \E q \in log : Boundary <= q.seq
        BY <4>4
      <4> QED BY <3>1, <4>5 DEF WithinLog
    <3> QED BY <3>1, <3>2, <3>3
  <2>2. compaction'.boundary = Boundary /\ retained' = retained /\ log' = log
    BY <1>3 DEF CompactBegin, streamVars
  <2> QED BY <1>1, <2>1, <2>2 DEF HorizonWithinLog, WithinLog
<1>4. CASE CompactCount
  <2>1. compaction'.boundary = compaction.boundary /\ retained' = retained
    BY <1>4 DEF CompactCount, IInv, TypeOK, Compaction, streamVars, RInv
  <2> QED BY <1>2, <2>1 DEF HorizonWithinLog, WithinLog
<1>5. CASE CompactDelete
  <2>1. compaction'.boundary = 0 /\ retained' = compaction.boundary
    BY <1>5 DEF CompactDelete, Idle
  <2> QED BY <1>2, <2>1 DEF HorizonWithinLog, WithinLog
<1>6. CASE CompactRollback
  <2>1. compaction'.boundary = 0 /\ retained' = retained
    BY <1>6 DEF CompactRollback, Idle, streamVars
  <2> QED BY <1>2, <2>1 DEF HorizonWithinLog, WithinLog
<1>7. CASE ~ Compact
  <2>1. compaction' = compaction
    BY <1>7, CompactionKept
  <2>2. retained' = retained
    BY <1>1, <1>7, EpochStep DEF Compact
  <2> QED BY <1>2, <2>1, <2>2 DEF HorizonWithinLog, WithinLog
<1> QED BY <1>3, <1>4, <1>5, <1>6, <1>7 DEF Compact

\* While a compaction holds the stream row no snapshot is pinned, and the other
\* way round.
LEMMA ExclusiveStep ==
  ASSUME RInv, [Next]_vars
  PROVE  StreamExclusive'
<1>1. IInv /\ epoch \in Nat /\ CurrentEpoch # 0 /\ StreamExclusive
  BY DEF RInv, IInv, TypeOK, CurrentEpoch
<1>2. (epoch = 0 => retained = 0)'
  <2>1. CASE CompactDelete
    BY <2>1, CompactDeleteEffect
  <2>2. CASE ~ CompactDelete
    BY <1>1, <2>2, EpochStep DEF StreamExclusive
  <2> QED BY <2>1, <2>2
<1>3. ASSUME compaction'.stage # "idle"
      PROVE  epoch' # 0 /\ \A d \in Device : clients'[d].stage # "pinned"
  <2>1. CASE CompactBegin
    BY <2>1 DEF CompactBegin, StreamFree, IInv, TypeOK, streamVars
  <2>2. CASE CompactCount
    BY <1>1, <2>2 DEF CompactCount, StreamExclusive, streamVars
  <2>3. CASE CompactDelete \/ CompactRollback
    BY <1>3, <2>3 DEF CompactDelete, CompactRollback, Idle
  <2>4. CASE ~ Compact
    <3>1. compaction' = compaction
      BY <2>4, CompactionKept
    <3>2. compaction.stage # "idle" /\ ~ StreamFree
      BY <1>3, <3>1 DEF StreamFree
    <3>3. epoch # 0 /\ \A d \in Device : clients[d].stage # "pinned"
      BY <1>1, <3>2 DEF StreamExclusive
    <3>4. epoch' # 0
      BY <1>1, <2>4, <3>3, EpochStep DEF Compact
    <3>5. ASSUME NEW d \in Device PROVE clients'[d].stage # "pinned"
      <4>1. clients \in [Device -> Client]
        BY <1>1 DEF IInv, TypeOK
      <4>2. ASSUME NEW x \in Device, Read(x) PROVE FALSE
        BY <3>2, <3>3, <4>2 DEF Read, Pull, PullExpired, SnapshotPin, SnapshotPage, SnapshotExpired
      <4>3. ASSUME NEW x \in Device, Ack(x) \/ Fault(x) PROVE clients'[d].stage # "pinned"
        BY <3>3, <4>1, <4>3 DEF Ack, SendAck, Acknowledge, Fault, ExpireDevice, ForgetCursor,
                                AbandonSnapshot, Client
      <4>4. ASSUME NEW w \in Writer, Write(w) PROVE clients' = clients
        BY <4>4 DEF Write, Append, RollbackSavepoint, Rollback, Commit
      <4> QED BY <2>4, <3>3, <4>2, <4>3, <4>4 DEF Next, RetentionPasses, vars
    <3> QED BY <3>4, <3>5
  <2> QED BY <2>1, <2>2, <2>3, <2>4 DEF Compact
<1> QED BY <1>2, <1>3 DEF StreamExclusive

-----------------------------------------------------------------------------
(* A step in which client d neither pulls nor pins nor reads a page.       *)

QuietStep(d) ==
  /\ clients'[d].view = clients[d].view
  /\ clients'[d].skipped = clients[d].skipped
  /\ clients'[d].cursor \in {clients[d].cursor, NoCursor}
  /\ clients'[d].ack \in {clients[d].ack, clients[d].cursor}
  /\ \/ clients'[d].stage = clients[d].stage /\ clients'[d].snap = clients[d].snap
     \/ /\ clients'[d].stage \notin {"pinned", "paging"}
        /\ clients'[d].snap \in {clients[d].snap, NoSnapshot}
  /\ devices'[d].seq \in {devices[d].seq, clients[d].cursor.seq, clients[d].ack.seq}

\* Renewing the row of a device, or creating it, leaves what it acknowledged.
LEMMA RenewedSeq ==
  ASSUME IInv, NEW d \in Device
  PROVE  Renewed(d).seq = devices[d].seq
<1>1. DeviceOf(d) \in DeviceRow /\ DeviceOf(d).seq = devices[d].seq
  BY DeviceRowType DEF DeviceOf, IInv, RowlessAtZero
<1> QED BY <1>1 DEF Renewed, DeviceRow

LEMMA QuietSteps ==
  ASSUME IInv, [Next]_vars, NEW d \in Device,
         ~ Pull(d), ~ SnapshotPin(d), ~ SnapshotPage(d)
  PROVE  QuietStep(d)
<1>1. /\ clients \in [Device -> Client] /\ devices \in [Device -> DeviceRow]
      /\ clients[d] \in Client /\ devices[d] \in DeviceRow
  BY DEF IInv, TypeOK
<1>2. Renewed(d).seq = devices[d].seq /\ Renewed(d) \in DeviceRow
  BY RenewedSeq, DeviceRowType DEF IInv
<1>3. CASE clients'[d] = clients[d] /\ devices'[d].seq = devices[d].seq
  BY <1>3 DEF QuietStep
<1>4. ASSUME NEW x \in Device, Read(x) PROVE QuietStep(d)
  <2>1. CASE x = d
    <3>1. CASE PullExpired(d)
      BY <1>1, <3>1 DEF PullExpired, QuietStep, Client
    <3>2. CASE SnapshotExpired(d)
      BY <1>1, <3>2 DEF SnapshotExpired, QuietStep, Client
    <3> QED BY <1>4, <2>1, <3>1, <3>2 DEF Read
  <2>2. CASE x # d
    <3>1. clients'[d] = clients[d]
      BY <1>1, <1>4, <2>2 DEF Read, Pull, PullExpired, SnapshotPin, SnapshotPage,
                              SnapshotExpired
    <3>2. devices'[d] = devices[d]
      BY <1>1, <1>4, <2>2 DEF Read, Pull, PullExpired, SnapshotPin, SnapshotPage,
                              SnapshotExpired
    <3> QED BY <1>3, <3>1, <3>2
  <2> QED BY <2>1, <2>2
<1>5. ASSUME NEW x \in Device, Ack(x) PROVE QuietStep(d)
  <2>1. CASE SendAck(x)
    BY <1>1, <2>1 DEF SendAck, QuietStep, Client
  <2>2. ASSUME NEW c \in {clients[x].cursor, clients[x].ack}, Acknowledge(x, c)
        PROVE  QuietStep(d)
    <3>1. /\ clients' = clients
          /\ devices' = [devices EXCEPT ![x] = [Renewed(x) EXCEPT !.seq = AckedSeq(@, c.seq)]]
      BY <2>2 DEF Acknowledge
    <3>2. CASE x # d
      BY <1>1, <1>3, <3>1, <3>2
    <3>3. CASE x = d
      <4>1. devices'[d] = [Renewed(d) EXCEPT !.seq = AckedSeq(Renewed(d).seq, c.seq)]
        BY <1>1, <3>1, <3>3
      <4>2. devices'[d].seq \in {devices[d].seq, c.seq}
        BY <1>2, <4>1 DEF AckedSeq, DeviceRow
      <4> QED BY <2>2, <3>1, <3>3, <4>2 DEF QuietStep
    <3> QED BY <3>2, <3>3
  <2> QED BY <1>5, <2>1, <2>2 DEF Ack
<1>6. ASSUME NEW x \in Device, Fault(x) PROVE QuietStep(d)
  <2>1. CASE ExpireDevice(x)
    <3>1. clients' = clients /\ devices'[d].seq = devices[d].seq
      BY <1>1, <2>1 DEF ExpireDevice, DeviceRow
    <3> QED BY <1>3, <3>1
  <2>2. CASE ForgetCursor(x)
    BY <1>1, <2>2 DEF ForgetCursor, QuietStep, Client
  <2>3. CASE AbandonSnapshot(x)
    BY <1>1, <2>3 DEF AbandonSnapshot, QuietStep, Client
  <2> QED BY <1>6, <2>1, <2>2, <2>3 DEF Fault
<1>7. ASSUME NEW w \in Writer, Write(w) PROVE QuietStep(d)
  BY <1>3, <1>7 DEF Write, Append, RollbackSavepoint, Rollback, Commit
<1>8. CASE UNCHANGED vars \/ RetentionPasses \/ Compact
  BY <1>3, <1>8 DEF vars, RetentionPasses, Compact, CompactBegin, CompactCount, CompactDelete,
                    CompactRollback
<1> QED BY <1>4, <1>5, <1>6, <1>7, <1>8 DEF Next

\* What a client has reached it keeps while its view stays: rows are published
\* out of flight, and new ones come beyond every committed sequence.
LEMMA ReachedKept ==
  ASSUME IInv, [Next]_vars, NEW d \in Device, NEW n \in Nat, n <= seqCounter, Reached(d, n),
         NEW view \in [Entity -> Nat], view = clients[d].view,
         NEW skipped, skipped = clients[d].skipped
  PROVE  \A r \in published' \cup InFlight' :
           r.seq <= n => view[r.entity] >= r.seq \/ r.seq \in skipped
<1> SUFFICES ASSUME NEW r \in published' \cup InFlight', r.seq <= n
             PROVE  view[r.entity] >= r.seq \/ r.seq \in skipped
  OBVIOUS
<1>1. r \in published \cup InFlight \/ r.seq > seqCounter
  BY RowsStep
<1>2. r.seq \in Nat /\ seqCounter \in Nat
  <2>1. r \in Row
    BY TypeStep DEF TypeOK, InFlight
  <2> QED BY <2>1 DEF Row, IInv, TypeOK
<1>3. r \in published \cup InFlight
  BY <1>1, <1>2
<1> QED BY <1>3 DEF Reached

LEMMA ReaderTypes ==
  ASSUME RInv, NEW d \in Device
  PROVE  /\ clients[d] \in Client /\ devices[d] \in DeviceRow
         /\ clients[d].cursor.seq \in Nat /\ clients[d].cursor.epoch \in Nat
         /\ clients[d].ack.seq \in Nat
         /\ clients[d].snap \in SnapshotProgress
         /\ clients[d].snap.boundary \in Nat /\ clients[d].snap.epoch \in Nat
         /\ devices[d].seq \in Nat
         /\ epoch \in Nat /\ CurrentEpoch \in Nat \ {0}
         /\ retained \in Nat /\ seqCounter \in Nat
         /\ clients[d].view \in [Entity -> Nat]
         /\ IInv /\ ReaderInv(d)
BY DEF RInv, IInv, TypeOK, Client, Cursor, DeviceRow, SnapshotProgress, CurrentEpoch

LEMMA EpochOrderedKept ==
  ASSUME RInv, [Next]_vars, NEW d \in Device, QuietStep(d)
  PROVE  EpochOrdered(d)'
<1>1. /\ EpochOrdered(d) /\ StreamExclusive /\ IInv
      /\ clients[d].cursor.epoch \in Nat /\ clients[d].snap.epoch \in Nat
      /\ clients[d].cursor.seq \in Nat /\ clients[d].snap.boundary \in Nat
      /\ epoch \in Nat /\ CurrentEpoch \in Nat \ {0} /\ retained \in Nat
  BY ReaderTypes DEF ReaderInv, RInv
<1>2. /\ clients'[d].cursor = clients[d].cursor \/ clients'[d].cursor = NoCursor
      /\ clients'[d].snap = clients[d].snap \/ clients'[d].snap = NoSnapshot
      /\ clients'[d].stage = "pinned" =>
           clients[d].stage = "pinned" /\ clients'[d].snap = clients[d].snap
  BY DEF QuietStep
<1>3. NoCursor.epoch = 0 /\ NoCursor.seq = 0 /\ NoSnapshot.epoch = 0
  BY DEF NoCursor, NoSnapshot
<1>4. epoch' \in Nat /\ CurrentEpoch' \in Nat \ {0} /\ retained' \in Nat
  BY <1>1, TypeStep DEF TypeOK, CurrentEpoch
<1>5. epoch' = 0 => retained' = 0
  BY ExclusiveStep DEF StreamExclusive
<1>6. CASE CompactDelete
  BY <1>1, <1>2, <1>3, <1>4, <1>6, CompactDeleteEffect DEF EpochOrdered
<1>7. CASE epoch' \in {epoch, CurrentEpoch} /\ retained' = retained
  <2>1. CurrentEpoch' = CurrentEpoch
    BY <1>7 DEF CurrentEpoch
  <2>2. epoch' = epoch \/ (epoch = 0 /\ epoch' = 1)
    BY <1>7 DEF CurrentEpoch
  <2>3. CurrentEpoch = 1 \/ epoch # 0
    BY DEF CurrentEpoch
  <2> QED BY <1>1, <1>2, <1>3, <1>4, <1>5, <1>7, <2>1, <2>2, <2>3 DEF EpochOrdered
<1> QED BY <1>1, <1>6, <1>7, EpochStep

LEMMA PositionsKept ==
  ASSUME RInv, [Next]_vars, NEW d \in Device, QuietStep(d)
  PROVE  PositionsWithinLog(d)'
<1>1. /\ PositionsWithinLog(d) /\ IInv
      /\ clients[d].cursor.seq \in Nat /\ clients[d].ack.seq \in Nat
      /\ clients[d].snap.boundary \in Nat /\ devices[d].seq \in Nat
  BY ReaderTypes DEF ReaderInv
<1> DEFINE Within(n) == n = 0 \/ \E m \in log' : n <= m.seq
<1>2. /\ Within(clients[d].cursor.seq) /\ Within(clients[d].ack.seq)
      /\ Within(clients[d].snap.boundary) /\ Within(devices[d].seq) /\ Within(0)
  BY <1>1, WithinLogStep DEF PositionsWithinLog
<1>3. NoCursor.seq = 0 /\ NoSnapshot.boundary = 0
  BY DEF NoCursor, NoSnapshot
<1>4. /\ Within(clients'[d].cursor.seq) /\ Within(clients'[d].ack.seq)
      /\ Within(clients'[d].snap.boundary) /\ Within(devices'[d].seq)
  <2> HIDE DEF Within
  <2> QED BY <1>2, <1>3 DEF QuietStep
<1> QED BY <1>4 DEF PositionsWithinLog, WithinLog

LEMMA CoveredKept ==
  ASSUME RInv, [Next]_vars, NEW d \in Device, QuietStep(d)
  PROVE  Covered(d)'
<1>1. /\ IInv /\ Covered(d) /\ clients[d].view \in [Entity -> Nat]
      /\ clients[d].cursor.seq \in Nat /\ clients[d].ack.seq \in Nat /\ devices[d].seq \in Nat
  BY ReaderTypes DEF ReaderInv
<1>2. /\ clients[d].cursor.seq <= seqCounter /\ clients[d].ack.seq <= seqCounter
      /\ devices[d].seq <= seqCounter
  <2>1. PositionsWithinLog(d)
    BY ReaderTypes DEF ReaderInv
  <2> QED BY <1>1, <2>1, WithinLogBound DEF PositionsWithinLog
<1> DEFINE ReachedNext(n) ==
             \A r \in published' \cup InFlight' :
               r.seq <= n => clients[d].view[r.entity] >= r.seq \/ r.seq \in clients[d].skipped
<1>3. /\ ReachedNext(clients[d].cursor.seq) /\ ReachedNext(clients[d].ack.seq)
      /\ ReachedNext(devices[d].seq)
  BY <1>1, <1>2, ReachedKept DEF Covered
<1>4. ReachedNext(0)
  <2> SUFFICES ASSUME NEW r \in published' \cup InFlight', r.seq <= 0
               PROVE  clients[d].view[r.entity] >= r.seq
    OBVIOUS
  <2>1. r \in Row
    BY <1>1, TypeStep DEF TypeOK, InFlight
  <2>2. r.seq = 0 /\ r.entity \in Entity
    BY <2>1 DEF Row
  <2> QED BY <1>1, <2>2
<1>5. NoCursor.seq = 0
  BY DEF NoCursor
<1>6. /\ clients'[d].view = clients[d].view /\ clients'[d].skipped = clients[d].skipped
      /\ ReachedNext(clients'[d].cursor.seq) /\ ReachedNext(clients'[d].ack.seq)
      /\ ReachedNext(devices'[d].seq)
  <2> HIDE DEF ReachedNext
  <2> QED BY <1>3, <1>4, <1>5 DEF QuietStep
<1> QED BY <1>6 DEF Covered, Reached

LEMMA GatheringKept ==
  ASSUME RInv, [Next]_vars, NEW d \in Device, QuietStep(d),
         clients'[d].stage \in {"pinned", "paging"}
  PROVE  Gathering(d)'
<1> DEFINE snap == clients[d].snap
<1>1. clients'[d].snap = snap /\ clients[d].stage \in {"pinned", "paging"}
  BY DEF QuietStep
<1>2. /\ IInv /\ Gathering(d) /\ snap.boundary \in Nat /\ seqCounter \in Nat
      /\ WithinLog(snap.boundary)
  BY <1>1, ReaderTypes DEF ReaderInv, PositionsWithinLog
<1>3. snap.boundary <= seqCounter
  BY <1>2, WithinLogBound
<1>4. \A r \in InFlight' : r.seq \in Nat
  BY <1>2, TypeStep DEF TypeOK, InFlight, Row
<1>5. \A r \in InFlight' : r.seq <= snap.boundary => r.seq \in snap.skipped
  BY <1>2, <1>3, <1>4, RowsStep DEF Gathering
<1>6. \A r \in published' :
        r.seq <= snap.boundary /\ r.entity <= snap.last
          => snap.view[r.entity] >= r.seq \/ r.seq \in snap.skipped
  BY <1>2, RowsStep DEF Gathering
<1>7. \A e \in Entity :
        snap.view[e] # 0 =>
          \E r \in published' : r.entity = e /\ r.seq = snap.view[e] /\ r.seq <= snap.boundary
  BY <1>2, RowsStep DEF Gathering
<1>8. /\ clients'[d].cursor.seq <= snap.boundary
      /\ clients'[d].ack.seq <= snap.boundary
      /\ devices'[d].seq <= snap.boundary
  BY <1>2 DEF QuietStep, Gathering, NoCursor
<1> HIDE DEF snap
<1> QED BY <1>1, <1>5, <1>6, <1>7, <1>8 DEF Gathering

LEMMA QuietKept ==
  ASSUME RInv, [Next]_vars, NEW d \in Device, QuietStep(d)
  PROVE  ReaderInv(d)'
BY EpochOrderedKept, PositionsKept, CoveredKept, GatheringKept DEF ReaderInv

-----------------------------------------------------------------------------
(* The steps that read.                                                    *)

\* A page that starts where the client has reached everything and ends at its
\* next cursor leaves out only what is in flight: a committed row in between is
\* on the page, and one the log has lost lies at or below the horizon.
LEMMA PullReaches ==
  ASSUME RInv, NEW d \in Device, PullFrom(d) >= retained,
         NEW r \in published \cup InFlight,
         r.seq <= NextCursor(PullFrom(d), PageAfter(PullFrom(d)))
  PROVE  \/ Applied(clients[d].view, PageAfter(PullFrom(d)))[r.entity] >= r.seq
         \/ r.seq \in clients[d].skipped
         \/ r.seq \in Overtaken(NextCursor(PullFrom(d), PageAfter(PullFrom(d))))
<1> DEFINE n == PullFrom(d)
           page == PageAfter(n)
           next == NextCursor(n, page)
           view == Applied(clients[d].view, page)
<1>1. /\ IInv /\ n \in Nat /\ next \in Nat /\ retained \in Nat
      /\ clients[d].view \in [Entity -> Nat] /\ page \in SUBSET log
  BY ReaderTypes, DeviceRowType, NextCursorProperty DEF IInv, PageAfter
<1>2. r \in Row /\ r.seq \in Nat /\ r.entity \in Entity
  BY <1>1 DEF IInv, TypeOK, InFlight, Row
<1>3. CASE r \in InFlight
  BY <1>3 DEF Overtaken, Seqs, UpTo
<1>4. CASE r \in published /\ r.seq <= n
  <2>1. Reached(d, n)
    <3>1. Reached(d, clients[d].cursor.seq) /\ Reached(d, devices[d].seq)
      BY ReaderTypes DEF ReaderInv, Covered
    <3>2. DeviceOf(d).seq = devices[d].seq
      BY <1>1 DEF DeviceOf, IInv, RowlessAtZero
    <3> QED BY <3>1, <3>2 DEF PullFrom
  <2>2. clients[d].view[r.entity] >= r.seq \/ r.seq \in clients[d].skipped
    BY <1>4, <2>1 DEF Reached
  <2>3. view[r.entity] >= clients[d].view[r.entity] /\ view[r.entity] \in Nat
    BY <1>1, <1>2, AppliedProperty, AppliedType
  <2>4. clients[d].view[r.entity] \in Nat
    BY <1>1, <1>2
  <2>5. view[r.entity] >= r.seq \/ r.seq \in clients[d].skipped
    <3> HIDE DEF view
    <3> QED BY <1>2, <2>2, <2>3, <2>4
  <2> QED BY <2>5
<1>5. CASE r \in published /\ n < r.seq
  <2>1. r \in log
    <3> SUFFICES ASSUME r \notin log PROVE FALSE
      OBVIOUS
    <3>1. PICK l \in log : r.seq < l.seq /\ l.seq <= retained
      BY <1>1, <1>5 DEF IInv, Anchored
    <3>2. l.seq \in Nat
      BY <1>1, LogBounded DEF Row
    <3> QED BY <1>1, <1>2, <1>5, <3>1, <3>2
  <2>2. r \in page
    BY <1>1, <1>5, <2>1, PageTakesAll
  <2> QED BY <1>1, <2>2, AppliedProperty
<1> QED BY <1>1, <1>2, <1>3, <1>4, <1>5

LEMMA PullKept ==
  ASSUME RInv, [Next]_vars, NEW d \in Device, Pull(d)
  PROVE  ReaderInv(d)'
<1> DEFINE n == PullFrom(d)
           page == PageAfter(n)
           next == NextCursor(n, page)
           view == Applied(clients[d].view, page)
           skipped == clients[d].skipped \cup Overtaken(next)
<1>1. /\ IInv /\ ReaderInv(d) /\ n \in Nat /\ next \in Nat /\ next >= n /\ retained \in Nat
      /\ clients[d] \in Client /\ clients[d].view \in [Entity -> Nat] /\ page \in SUBSET log
      /\ clients \in [Device -> Client] /\ devices \in [Device -> DeviceRow]
      /\ CurrentEpoch \in Nat \ {0}
  BY ReaderTypes, DeviceRowType, NextCursorProperty DEF IInv, TypeOK, PageAfter
<1>2. /\ clients'[d] = [clients[d] EXCEPT !.cursor = [epoch |-> CurrentEpoch, seq |-> next],
                                          !.view = view, !.skipped = skipped]
      /\ epoch' = CurrentEpoch /\ n >= retained /\ clients[d].stage = "pull"
  BY <1>1 DEF Pull, PullAccepted
<1>3. /\ UNCHANGED <<seqCounter, pending, published, log, retained>>
      /\ devices'[d].seq = devices[d].seq
  BY <1>1, RenewedSeq DEF Pull, writeVars
<1> HIDE DEF next, view, skipped
<1>4. /\ clients'[d].cursor = [epoch |-> CurrentEpoch, seq |-> next]
      /\ clients'[d].view = view /\ clients'[d].skipped = skipped
      /\ clients'[d].stage = "pull"
      /\ clients'[d].ack = clients[d].ack /\ clients'[d].snap = clients[d].snap
  BY <1>1, <1>2 DEF Client
<1>5. CurrentEpoch' = CurrentEpoch
  BY <1>1, <1>2 DEF CurrentEpoch
<1>6. EpochOrdered(d)'
  <2>1. clients'[d].cursor.epoch <= epoch' /\ clients'[d].cursor.seq >= retained'
    BY <1>1, <1>2, <1>3, <1>4
  <2>2. /\ clients'[d].snap.epoch <= CurrentEpoch'
        /\ clients'[d].snap.epoch = CurrentEpoch' => clients'[d].snap.boundary >= retained'
    BY <1>1, <1>3, <1>4, <1>5 DEF ReaderInv, EpochOrdered
  <2> QED BY <1>4, <2>1, <2>2 DEF EpochOrdered
<1>7. PositionsWithinLog(d)'
  <2>1. PositionsWithinLog(d) /\ DeviceOf(d).seq = devices[d].seq
    BY <1>1 DEF ReaderInv, DeviceOf, IInv, RowlessAtZero
  <2>2. WithinLog(n)
    BY <2>1 DEF PositionsWithinLog, PullFrom
  <2>3. WithinLog(next)
    BY <1>1, <2>2, NextCursorProperty DEF next
  <2> QED BY <1>3, <1>4, <2>1, <2>3 DEF PositionsWithinLog, WithinLog
<1>8. Covered(d)'
  <2>1. \A r \in published \cup InFlight : r.seq <= next => view[r.entity] >= r.seq \/ r.seq \in skipped
    BY <1>2, PullReaches DEF next, view, skipped
  <2>2. ASSUME NEW m \in Nat, Reached(d, m)
        PROVE  \A r \in published \cup InFlight : r.seq <= m => view[r.entity] >= r.seq \/ r.seq \in skipped
    <3> SUFFICES ASSUME NEW r \in published \cup InFlight, r.seq <= m
                 PROVE  view[r.entity] >= r.seq \/ r.seq \in skipped
      OBVIOUS
    <3>1. r.seq \in Nat /\ r.entity \in Entity
      BY <1>1 DEF IInv, TypeOK, InFlight, Row
    <3>2. clients[d].view[r.entity] >= r.seq \/ r.seq \in clients[d].skipped
      BY <2>2 DEF Reached
    <3>3. /\ view[r.entity] >= clients[d].view[r.entity]
          /\ view[r.entity] \in Nat /\ clients[d].view[r.entity] \in Nat
      BY <1>1, <3>1, AppliedProperty, AppliedType DEF view
    <3> QED BY <3>1, <3>2, <3>3 DEF skipped
  <2>3. /\ Reached(d, clients[d].ack.seq) /\ Reached(d, devices[d].seq)
        /\ clients[d].ack.seq \in Nat /\ devices[d].seq \in Nat
    BY <1>1, ReaderTypes DEF ReaderInv, Covered
  <2>4. InFlight' = InFlight
    BY <1>3 DEF InFlight
  <2> QED BY <1>3, <1>4, <2>1, <2>2, <2>3, <2>4 DEF Covered, Reached
<1> QED BY <1>4, <1>6, <1>7, <1>8 DEF ReaderInv

\* The pinned boundary is the newest committed sequence: no position is beyond it.
LEMMA PinKept ==
  ASSUME RInv, [Next]_vars, NEW d \in Device, SnapshotPin(d)
  PROVE  ReaderInv(d)'
<1> DEFINE b == LastSeq(log)
           snap == [epoch |-> CurrentEpoch, boundary |-> b, last |-> 0, view |-> EmptyView,
                    skipped |-> Overtaken(b)]
<1>1. /\ IInv /\ ReaderInv(d) /\ retained \in Nat /\ CurrentEpoch \in Nat \ {0}
      /\ clients[d] \in Client /\ clients \in [Device -> Client]
      /\ clients[d].cursor.seq \in Nat /\ clients[d].ack.seq \in Nat /\ devices[d].seq \in Nat
  BY ReaderTypes DEF IInv, TypeOK
<1>2. /\ b \in Nat /\ WithinLog(b)
      /\ \A n \in Nat : WithinLog(n) => n <= b
  BY <1>1, WithinLogBound
<1>3. /\ UNCHANGED <<seqCounter, pending, published, log, epoch, retained, devices>>
      /\ clients'[d] = [clients[d] EXCEPT !.stage = "pinned", !.snap = snap]
  BY <1>1 DEF SnapshotPin, writeVars, streamVars
<1>4. /\ clients'[d].stage = "pinned" /\ clients'[d].snap = snap
      /\ clients'[d].cursor = clients[d].cursor /\ clients'[d].ack = clients[d].ack
      /\ clients'[d].view = clients[d].view /\ clients'[d].skipped = clients[d].skipped
  BY <1>1, <1>3 DEF Client
<1>5. /\ snap.epoch = CurrentEpoch /\ snap.boundary = b /\ snap.last = 0
      /\ snap.skipped = Overtaken(b)
      /\ \A e \in Entity : snap.view[e] = 0
  BY DEF EmptyView
<1>6. CurrentEpoch' = CurrentEpoch /\ InFlight' = InFlight
  BY <1>3 DEF CurrentEpoch, InFlight
<1>7. retained <= b
  BY <1>1, <1>2 DEF RInv, HorizonWithinLog
<1> HIDE DEF b, snap
<1>8. EpochOrdered(d)'
  BY <1>1, <1>2, <1>3, <1>4, <1>5, <1>6, <1>7 DEF EpochOrdered, ReaderInv
<1>9. PositionsWithinLog(d)'
  BY <1>1, <1>2, <1>3, <1>4, <1>5 DEF PositionsWithinLog, ReaderInv, WithinLog
<1>10. Covered(d)'
  BY <1>1, <1>3, <1>4, <1>6 DEF Covered, Reached, ReaderInv
<1>11. Gathering(d)'
  <2>1. /\ clients'[d].cursor.seq <= b /\ clients'[d].ack.seq <= b /\ devices'[d].seq <= b
    BY <1>1, <1>2, <1>3, <1>4 DEF ReaderInv, PositionsWithinLog
  <2>2. \A r \in InFlight' : r.seq <= b => r.seq \in Overtaken(b)
    BY <1>6 DEF Overtaken, Seqs, UpTo
  <2>3. \A r \in published' : ~ (r.entity <= 0)
    BY <1>1, <1>3, SizesAssumption DEF IInv, TypeOK, Row, Entity
  <2> QED BY <1>4, <1>5, <2>1, <2>2, <2>3 DEF Gathering
<1> QED BY <1>8, <1>9, <1>10, <1>11 DEF ReaderInv

\* A page takes every remaining entity up to its last one.
LEMMA SnapshotPageTakesAll ==
  ASSUME NEW b \in Nat, NEW last \in Nat, NEW e \in Remaining(b, last),
         \/ SnapshotPageOf(b, last) = Remaining(b, last)
         \/ e <= Max(SnapshotPageOf(b, last))
  PROVE  e \in SnapshotPageOf(b, last)
<1> DEFINE rest == Remaining(b, last)
           page == SnapshotPageOf(b, last)
           before(x) == {f \in rest : f < x}
<1> SUFFICES ASSUME page # rest, e <= Max(page) PROVE e \in page
  OBVIOUS
<1>1. rest \in SUBSET (1 .. NEntity) /\ page \subseteq rest /\ NEntity \in Nat
  BY SizesAssumption DEF Remaining, Entity, SnapshotPageOf
<1>2. Max(page) \in page
  <2>1. page # {}
    BY PageNotEmpty
  <2>2. page \in SUBSET Nat /\ \A x \in page : x <= NEntity
    BY <1>1
  <2> HIDE DEF page
  <2> QED BY <1>1, <2>1, <2>2, MaxProperty
<1>3. IsFiniteSet(before(Max(page))) /\ before(e) \subseteq before(Max(page))
  <2>1. IsFiniteSet(1 .. NEntity)
    BY <1>1, FS_Interval
  <2>2. before(Max(page)) \subseteq 1 .. NEntity
    BY <1>1
  <2>3. before(e) \subseteq before(Max(page))
    <3>1. e \in Nat /\ Max(page) \in Nat /\ \A f \in rest : f \in Nat
      BY <1>1, <1>2
    <3> HIDE DEF page, rest
    <3> QED BY <3>1
  <2> HIDE DEF before
  <2> QED BY <2>1, <2>2, <2>3, FS_Subset
<1>4. /\ Cardinality(before(e)) <= Cardinality(before(Max(page)))
      /\ Cardinality(before(e)) \in Nat /\ Cardinality(before(Max(page))) \in Nat
  <2> HIDE DEF before
  <2> QED BY <1>3, FS_Subset, FS_CardinalityType
<1>5. Cardinality(before(Max(page))) < PageSize
  BY <1>2 DEF SnapshotPageOf
<1>6. Cardinality(before(e)) < PageSize
  <2> HIDE DEF before
  <2> QED BY <1>4, <1>5, SizesAssumption
<1> QED BY <1>6 DEF SnapshotPageOf

\* The view of a snapshot after one more page.
PagedView(d, page) ==
  [e \in Entity |-> IF e \in page THEN VersionAt(e, clients[d].snap.boundary)
                                  ELSE clients[d].snap.view[e]]

\* It holds, for the entities up to the last one taken, every row up to the
\* boundary that is not in flight, and nothing beyond the boundary.
LEMMA PageGathers ==
  ASSUME RInv, NEW d \in Device, Gathering(d), retained <= clients[d].snap.boundary,
         NEW upTo \in Nat,
         NEW page \in SUBSET Remaining(clients[d].snap.boundary, clients[d].snap.last),
         \A e \in Remaining(clients[d].snap.boundary, clients[d].snap.last) :
           e <= upTo => e \in page
  PROVE  /\ \A r \in published :
              r.seq <= clients[d].snap.boundary /\ r.entity <= upTo
                => PagedView(d, page)[r.entity] >= r.seq \/ r.seq \in clients[d].snap.skipped
         /\ \A e \in Entity :
              PagedView(d, page)[e] # 0 =>
                \E r \in published : /\ r.entity = e
                                     /\ r.seq = PagedView(d, page)[e]
                                     /\ r.seq <= clients[d].snap.boundary
<1> DEFINE snap == clients[d].snap
           b == snap.boundary
           view == PagedView(d, page)
<1>1. /\ IInv /\ snap \in SnapshotProgress /\ snap.last \in Nat /\ retained \in Nat /\ b \in Nat
  BY ReaderTypes DEF SnapshotProgress
<1>2. \A e \in Entity : view[e] = IF e \in page THEN VersionAt(e, b) ELSE snap.view[e]
  BY DEF PagedView
<1> HIDE DEF view
<1>3. ASSUME NEW r \in published, r.seq <= b, r.entity <= upTo
      PROVE  view[r.entity] >= r.seq \/ r.seq \in snap.skipped
  <2>1. r.entity \in Entity /\ r.entity \in Nat /\ r.seq \in Nat
    BY <1>1, SizesAssumption DEF IInv, TypeOK, Row, Entity
  <2>2. CASE r.entity \in page
    <3>1. view[r.entity] = VersionAt(r.entity, b)
      BY <1>2, <2>1, <2>2
    <3>2. r.seq <= VersionAt(r.entity, b) /\ VersionAt(r.entity, b) \in Nat
      BY <1>1, <1>3, <2>1, VersionProperty
    <3> QED BY <2>1, <3>1, <3>2
  <2>3. CASE r.entity \notin page
    <3>1. r.entity <= snap.last
      <4> SUFFICES ASSUME r.entity > snap.last PROVE FALSE
        BY <1>1, <2>1
      <4>1. PICK l \in log : l.entity = r.entity /\ l.seq <= b
        BY <1>1, <1>3, AnchorFound
      <4>2. r.entity \in Remaining(b, snap.last)
        BY <2>1, <4>1 DEF Remaining, RowsOf, UpTo
      <4> QED BY <1>3, <2>3, <4>2
    <3>2. view[r.entity] = snap.view[r.entity]
      BY <1>2, <2>1, <2>3
    <3> QED BY <1>3, <3>1, <3>2 DEF Gathering
  <2> QED BY <2>2, <2>3
<1>4. ASSUME NEW e \in Entity, view[e] # 0
      PROVE  \E r \in published : r.entity = e /\ r.seq = view[e] /\ r.seq <= b
  <2>1. CASE e \in page
    BY <1>1, <1>4, <1>2, <2>1, VersionProperty
  <2>2. CASE e \notin page
    BY <1>4, <1>2, <2>2 DEF Gathering
  <2> QED BY <2>1, <2>2
<1> QED BY <1>3, <1>4 DEF view

LEMMA PageKept ==
  ASSUME RInv, [Next]_vars, NEW d \in Device, SnapshotPage(d)
  PROVE  ReaderInv(d)'
<1> DEFINE snap == clients[d].snap
           b == snap.boundary
           rest == Remaining(b, snap.last)
           page == SnapshotPageOf(b, snap.last)
           view == PagedView(d, page)
<1>1. /\ IInv /\ ReaderInv(d) /\ retained \in Nat /\ CurrentEpoch \in Nat \ {0}
      /\ clients[d] \in Client /\ clients \in [Device -> Client] /\ devices \in [Device -> DeviceRow]
      /\ clients[d].cursor.seq \in Nat /\ clients[d].ack.seq \in Nat /\ devices[d].seq \in Nat
      /\ snap \in SnapshotProgress /\ b \in Nat /\ snap.last \in Nat /\ epoch \in Nat
  BY ReaderTypes DEF IInv, TypeOK, SnapshotProgress
<1>2. /\ UNCHANGED <<seqCounter, pending, published, log, retained>>
      /\ devices'[d].seq = devices[d].seq /\ epoch' = CurrentEpoch
  BY <1>1, RenewedSeq DEF SnapshotPage, writeVars
<1>3. CurrentEpoch' = CurrentEpoch /\ InFlight' = InFlight
  BY <1>1, <1>2 DEF CurrentEpoch, InFlight
<1>4. clients[d].stage \in {"pinned", "paging"} /\ (clients[d].stage = "paging" => snap.epoch = epoch)
  BY DEF SnapshotPage
<1>5. Gathering(d) /\ retained <= b
  <2>1. clients[d].stage = "pinned" => snap.epoch = CurrentEpoch
    BY <1>1 DEF ReaderInv, EpochOrdered
  <2>2. CurrentEpoch = epoch \/ (epoch = 0 /\ retained = 0)
    BY DEF CurrentEpoch, RInv, StreamExclusive
  <2>3. retained <= b
    BY <1>1, <1>4, <2>1, <2>2 DEF ReaderInv, EpochOrdered
  <2> QED BY <1>1, <1>4, <2>3 DEF ReaderInv
<1>6. page \in SUBSET rest
  BY DEF SnapshotPageOf
<1>7. clients' =
        IF page # rest
        THEN [clients EXCEPT ![d].stage = "paging", ![d].snap.view = view,
                             ![d].snap.last = Max(page)]
        ELSE [clients EXCEPT ![d].stage = "pull",
                             ![d].cursor = [epoch |-> snap.epoch, seq |-> b],
                             ![d].view = view, ![d].skipped = snap.skipped,
                             ![d].snap = NoSnapshot]
  BY DEF SnapshotPage, PagedView
<1>8. PositionsWithinLog(d) /\ EpochOrdered(d)
  BY <1>1 DEF ReaderInv
<1>9. CASE page # rest
  <2> DEFINE top == Max(page)
  <2>1. top \in Nat /\ \A e \in rest : e <= top => e \in page
    BY <1>1, <1>9, PageLastType, SnapshotPageTakesAll
  <2>2. /\ \A r \in published : r.seq <= b /\ r.entity <= top
                => view[r.entity] >= r.seq \/ r.seq \in snap.skipped
        /\ \A e \in Entity :
              view[e] # 0 => \E r \in published : r.entity = e /\ r.seq = view[e] /\ r.seq <= b
    <3> HIDE DEF page, top
    <3> QED BY <1>1, <1>5, <1>6, <2>1, PageGathers
  <2> HIDE DEF page, view, top
  <2>3. clients' = [clients EXCEPT ![d].stage = "paging", ![d].snap.view = view,
                                   ![d].snap.last = top]
    BY <1>7, <1>9 DEF top
  <2>4. /\ clients'[d].stage = "paging"
        /\ clients'[d].cursor = clients[d].cursor /\ clients'[d].ack = clients[d].ack
        /\ clients'[d].view = clients[d].view /\ clients'[d].skipped = clients[d].skipped
        /\ clients'[d].snap.epoch = snap.epoch /\ clients'[d].snap.boundary = b
        /\ clients'[d].snap.skipped = snap.skipped
        /\ clients'[d].snap.view = view /\ clients'[d].snap.last = top
    BY <1>1, <2>3 DEF Client, SnapshotProgress
  <2>5. EpochOrdered(d)'
    <3>1. clients[d].cursor.epoch \in Nat
      BY ReaderTypes
    <3>2. epoch' = epoch \/ (epoch = 0 /\ epoch' = 1)
      BY <1>2 DEF CurrentEpoch
    <3> QED BY <1>1, <1>2, <1>3, <1>8, <2>4, <3>1, <3>2 DEF EpochOrdered
  <2>6. PositionsWithinLog(d)'
    BY <1>2, <1>8, <2>4 DEF PositionsWithinLog, WithinLog
  <2>7. Covered(d)'
    BY <1>1, <1>2, <1>3, <2>4 DEF ReaderInv, Covered, Reached
  <2>8. Gathering(d)'
    <3>1. /\ clients'[d].cursor.seq <= b /\ clients'[d].ack.seq <= b /\ devices'[d].seq <= b
      BY <1>2, <1>5, <2>4 DEF Gathering
    <3>2. \A r \in InFlight' : r.seq <= b => r.seq \in snap.skipped
      BY <1>3, <1>5 DEF Gathering
    <3> QED BY <1>2, <2>2, <2>4, <3>1, <3>2 DEF Gathering
  <2> QED BY <2>5, <2>6, <2>7, <2>8 DEF ReaderInv
<1>10. CASE page = rest
  <2>1. \A e \in rest : e <= NEntity => e \in page
    BY <1>10
  <2>2. \A r \in published : r.seq <= b /\ r.entity <= NEntity
                => view[r.entity] >= r.seq \/ r.seq \in snap.skipped
    <3> HIDE DEF page
    <3> QED BY <1>1, <1>5, <1>6, <2>1, PageGathers, SizesAssumption
  <2> HIDE DEF page, view
  <2>3. clients' = [clients EXCEPT ![d].stage = "pull",
                             ![d].cursor = [epoch |-> snap.epoch, seq |-> b],
                             ![d].view = view, ![d].skipped = snap.skipped,
                             ![d].snap = NoSnapshot]
    BY <1>7, <1>10
  <2>4. /\ clients'[d].stage = "pull"
        /\ clients'[d].cursor = [epoch |-> snap.epoch, seq |-> b]
        /\ clients'[d].ack = clients[d].ack
        /\ clients'[d].view = view /\ clients'[d].skipped = snap.skipped
        /\ clients'[d].snap = NoSnapshot
    BY <1>1, <2>3 DEF Client
  <2>5. EpochOrdered(d)'
    BY <1>1, <1>2, <1>3, <1>5, <1>8, <2>4 DEF EpochOrdered, NoSnapshot
  <2>6. PositionsWithinLog(d)'
    BY <1>2, <1>8, <2>4 DEF PositionsWithinLog, WithinLog, NoSnapshot
  <2>7. Covered(d)'
    <3>1. \A r \in published \cup InFlight : r.seq \in Nat /\ r.entity <= NEntity
      BY <1>1, SizesAssumption DEF IInv, TypeOK, InFlight, Row, Entity
    <3>2. \A r \in published \cup InFlight :
            r.seq <= b => view[r.entity] >= r.seq \/ r.seq \in snap.skipped
      BY <1>5, <2>2, <3>1 DEF Gathering
    <3>3. clients[d].ack.seq <= b /\ devices[d].seq <= b
      BY <1>5 DEF Gathering
    <3>4. \A n \in Nat : n <= b => \A r \in published \cup InFlight :
            r.seq <= n => view[r.entity] >= r.seq \/ r.seq \in snap.skipped
      BY <1>1, <3>1, <3>2
    <3>5. b <= b
      BY <1>1
    <3> HIDE DEF b
    <3> QED BY <1>1, <1>2, <1>3, <2>4, <3>3, <3>4, <3>5 DEF Covered, Reached
  <2> QED BY <2>4, <2>5, <2>6, <2>7 DEF ReaderInv
<1> QED BY <1>9, <1>10

-----------------------------------------------------------------------------
(* The theorems about the readers.                                         *)

LEMMA ReaderStep ==
  ASSUME RInv, [Next]_vars
  PROVE  RInv'
<1>1. IInv /\ IInv'
  BY TypeStep, DrawnStep, LogPublishedStep, AnchoredStep, BoundaryAheadStep, RowlessStep
  DEF RInv, IInv
<1>2. ASSUME NEW d \in Device PROVE ReaderInv(d)'
  BY <1>1, PullKept, PinKept, PageKept, QuietSteps, QuietKept
<1> QED BY <1>1, <1>2, ExclusiveStep, HorizonStep DEF RInv

\* The readers' part of the invariant is inductive.
THEOREM ReaderInvariance == Spec => []RInv
<1>1. Init => RInv
  <2> SUFFICES ASSUME Init PROVE RInv
    OBVIOUS
  <2>1. StreamExclusive /\ HorizonWithinLog
    BY DEF Init, StreamExclusive, HorizonWithinLog, WithinLog, Idle
  <2>2. ASSUME NEW d \in Device PROVE ReaderInv(d)
    <3>1. /\ clients[d].cursor = NoCursor /\ clients[d].ack = NoCursor
          /\ clients[d].snap = NoSnapshot /\ clients[d].stage = "pull"
          /\ devices[d].seq = 0 /\ epoch = 0 /\ retained = 0
      BY DEF Init
    <3>2. published \cup InFlight = {}
      BY DEF Init, InFlight
    <3>3. EpochOrdered(d) /\ PositionsWithinLog(d)
      BY <3>1 DEF EpochOrdered, PositionsWithinLog, WithinLog, NoCursor, NoSnapshot, CurrentEpoch
    <3>4. Covered(d)
      BY <3>2 DEF Covered, Reached
    <3> QED BY <3>1, <3>3, <3>4 DEF ReaderInv
  <2> QED BY <2>1, <2>2, InitInvariant DEF RInv
<1>2. RInv /\ [Next]_vars => RInv'
  BY ReaderStep
<1> QED BY <1>1, <1>2, PTL DEF Spec

\* A cursor or a snapshot of the current epoch never precedes the retained
\* history: compact_sync_stream rotates the epoch with every move of the horizon.
THEOREM CursorsRetained == Spec => []CurrentCursorRetained
<1>1. RInv => CurrentCursorRetained
  <2> SUFFICES ASSUME RInv, NEW d \in Device
               PROVE  /\ clients[d].cursor.epoch = epoch => clients[d].cursor.seq >= retained
                      /\ clients[d].snap.epoch = epoch => clients[d].snap.boundary >= retained
    BY DEF CurrentCursorRetained
  <2>1. EpochOrdered(d) /\ clients[d].snap.boundary \in Nat
    BY ReaderTypes DEF ReaderInv
  <2>2. CurrentEpoch = epoch \/ retained = 0
    BY DEF CurrentEpoch, RInv, StreamExclusive
  <2> QED BY <2>1, <2>2 DEF EpochOrdered
<1> QED BY <1>1, ReaderInvariance, PTL

\* Pull, snapshot, acknowledgement, expiry and compaction together lose a client
\* nothing but rows that were in flight when its cursor moved past them, not even
\* when it falls back on the acknowledged sequence.
THEOREM NothingElseMissed == Spec => []CoveredUnlessOvertaken
<1>1. RInv => CoveredUnlessOvertaken
  <2> SUFFICES ASSUME RInv, NEW d \in Device, NEW r \in published,
                      r.seq <= clients[d].cursor.seq \/ r.seq <= devices[d].seq
               PROVE  clients[d].view[r.entity] >= r.seq \/ r.seq \in clients[d].skipped
    BY DEF CoveredUnlessOvertaken, Holds
  <2>1. Covered(d)
    BY ReaderTypes DEF ReaderInv
  <2> QED BY <2>1 DEF Covered, Reached
<1> QED BY <1>1, ReaderInvariance, PTL

\* The pages of a snapshot reconstruct the state at its boundary, whatever is
\* committed or compacted between them, but for entities overtaken by it.
THEOREM SnapshotsReconstruct == Spec => []PagesReconstructBoundary
<1>1. RInv => PagesReconstructBoundary
  <2> DEFINE snap(d) == clients[d].snap
             R(d, e) == RowsOf(UpTo(published, snap(d).boundary), e)
  <2> SUFFICES ASSUME RInv, NEW d \in Device, NEW e \in Entity,
                      clients[d].stage = "paging", e <= snap(d).last,
                      Seqs(RowsOf(published, e)) \cap snap(d).skipped = {}
               PROVE  snap(d).view[e] = LastSeq(R(d, e))
    BY DEF PagesReconstructBoundary
  <2>1. Gathering(d) /\ IInv /\ snap(d).view[e] \in Nat /\ snap(d).boundary \in Nat
    BY ReaderTypes DEF ReaderInv, SnapshotProgress
  <2>2. R(d, e) \in SUBSET Row /\ \A r \in R(d, e) : r.seq <= snap(d).boundary
    BY <2>1 DEF RowsOf, UpTo, IInv, TypeOK
  <2>3. /\ LastSeq(R(d, e)) \in Nat
        /\ \A r \in R(d, e) : r.seq <= LastSeq(R(d, e))
        /\ R(d, e) # {} => \E r \in R(d, e) : r.seq = LastSeq(R(d, e))
    BY <2>1, <2>2, LastSeqProperty
  <2>4. \A r \in R(d, e) : snap(d).view[e] >= r.seq
    <3> SUFFICES ASSUME NEW r \in R(d, e) PROVE snap(d).view[e] >= r.seq
      OBVIOUS
    <3>1. r \in published /\ r.entity = e /\ r.seq <= snap(d).boundary
      BY DEF RowsOf, UpTo
    <3>2. r.seq \notin snap(d).skipped
      BY <3>1 DEF Seqs, RowsOf
    <3> QED BY <2>1, <3>1, <3>2 DEF Gathering
  <2>5. snap(d).view[e] # 0 => \E r \in R(d, e) : r.seq = snap(d).view[e]
    BY <2>1 DEF Gathering, RowsOf, UpTo
  <2>6. R(d, e) = {} => LastSeq(R(d, e)) = 0
    BY DEF LastSeq
  <2>7. \A r \in R(d, e) : r.seq \in Nat
    BY <2>2 DEF Row
  <2> HIDE DEF R, snap
  <2> QED BY <2>1, <2>3, <2>4, <2>5, <2>6, <2>7
<1> QED BY <1>1, ReaderInvariance, PTL

-----------------------------------------------------------------------------
(* When the write transactions of an account do not overlap.               *)

\* At most one writer has rows in flight.
OneWriterOpen == \A v, w \in Writer : pending[v] = {} \/ pending[w] = {} \/ v = w

\* The rows in flight come after every committed one, so no reader moves past
\* them and none is overtaken.
NothingOvertaken ==
  /\ \A r \in InFlight : r.seq > 0 /\ \A q \in published : q.seq < r.seq
  /\ \A d \in Device : clients[d].skipped = {} /\ clients[d].snap.skipped = {}

LEMMA InFlightStep ==
  ASSUME RInv, OneWriterOpen, [Next]_vars,
         \A r \in InFlight : r.seq > 0 /\ \A q \in published : q.seq < r.seq
  PROVE  (\A r \in InFlight : r.seq > 0 /\ \A q \in published : q.seq < r.seq)'
<1>1. /\ seqCounter \in Nat /\ pending \in [Writer -> SUBSET Row]
      /\ \A q \in published : q.seq \in Nat /\ q.seq <= seqCounter
  BY DEF RInv, IInv, TypeOK, Drawn, Row
<1>2. ASSUME NEW w \in Writer, NEW e \in Entity, Append(w, e)
      PROVE  \A r \in InFlight' : r.seq > 0 /\ \A q \in published' : q.seq < r.seq
  <2>1. InFlight' \subseteq InFlight \cup {[seq |-> seqCounter + 1, entity |-> e]}
    BY <1>1, <1>2 DEF Append, InFlight
  <2>2. published' = published
    BY <1>2 DEF Append
  <2>3. \A q \in published : q.seq < seqCounter + 1
    BY <1>1
  <2> QED BY <1>1, <2>1, <2>2, <2>3
<1>3. ASSUME NEW w \in Writer, RollbackSavepoint(w) \/ Rollback(w)
      PROVE  InFlight' \subseteq InFlight /\ published' = published
  BY <1>1, <1>3 DEF RollbackSavepoint, Rollback, InFlight
<1>4. ASSUME NEW w \in Writer, Commit(w) PROVE InFlight' = {}
  BY <1>1, <1>4 DEF Commit, InFlight, OneWriterOpen
<1>5. CASE ~ (\E w \in Writer : Write(w))
  <2>1. UNCHANGED <<pending, published>>
    BY <1>5, RowsKept DEF CompactDelete, writeVars
  <2> QED BY <2>1 DEF InFlight
<1> QED BY <1>2, <1>3, <1>4, <1>5 DEF Write

\* A committed position overtakes nothing then.
LEMMA NoneOvertaken ==
  ASSUME IInv, NothingOvertaken, NEW n \in Nat, WithinLog(n)
  PROVE  Overtaken(n) = {}
<1> SUFFICES ASSUME NEW r \in InFlight, r.seq <= n PROVE FALSE
  BY DEF Overtaken, Seqs, UpTo
<1>1. r.seq \in Nat /\ r.seq > 0
  BY DEF NothingOvertaken, InFlight, IInv, TypeOK, Row
<1>2. PICK l \in log : n <= l.seq
  BY <1>1 DEF WithinLog
<1>3. l.seq < r.seq /\ l.seq \in Nat
  BY LogBounded DEF NothingOvertaken, IInv, Row
<1> QED BY <1>1, <1>2, <1>3

LEMMA NothingOvertakenStep ==
  ASSUME RInv, OneWriterOpen, NothingOvertaken, [Next]_vars
  PROVE  NothingOvertaken'
<1> SUFFICES ASSUME NEW d \in Device
             PROVE  clients'[d].skipped = {} /\ clients'[d].snap.skipped = {}
  BY InFlightStep DEF NothingOvertaken
<1>1. /\ clients[d] \in Client /\ clients \in [Device -> Client]
      /\ clients[d].skipped = {} /\ clients[d].snap.skipped = {}
      /\ clients[d].snap \in SnapshotProgress
      /\ IInv /\ ReaderInv(d) /\ NoSnapshot.skipped = {}
  BY ReaderTypes DEF NothingOvertaken, IInv, TypeOK, NoSnapshot
<1>2. CASE Pull(d)
  <2> DEFINE n == PullFrom(d)
             next == NextCursor(n, PageAfter(n))
  <2>1. n \in Nat /\ WithinLog(n)
    <3>1. DeviceOf(d).seq = devices[d].seq /\ PositionsWithinLog(d)
      BY <1>1 DEF ReaderInv, DeviceOf, IInv, RowlessAtZero
    <3> QED BY <1>1, <3>1, ReaderTypes DEF PositionsWithinLog, PullFrom
  <2>2. Overtaken(next) = {}
    BY <1>1, <2>1, NextCursorProperty, NoneOvertaken
  <2>3. /\ clients'[d].skipped = clients[d].skipped \cup Overtaken(next)
        /\ clients'[d].snap = clients[d].snap
    <3> HIDE DEF next
    <3>1. clients' = [clients EXCEPT ![d].cursor = [epoch |-> CurrentEpoch, seq |-> next],
                       ![d].view = Applied(@, PageAfter(PullFrom(d))),
                       ![d].skipped = @ \cup Overtaken(next)]
      BY <1>2 DEF Pull, next
    <3> QED BY <1>1, <3>1 DEF Client
  <2> QED BY <1>1, <2>2, <2>3
<1>3. CASE SnapshotPin(d)
  <2>1. Overtaken(LastSeq(log)) = {}
    BY <1>1, WithinLogBound, NoneOvertaken
  <2> QED BY <1>1, <1>3, <2>1 DEF SnapshotPin, Client
<1>4. CASE SnapshotPage(d)
  <2> DEFINE snap == clients[d].snap
             page == SnapshotPageOf(snap.boundary, snap.last)
             view == PagedView(d, page)
  <2>1. \/ clients' = [clients EXCEPT ![d].stage = "paging", ![d].snap.view = view,
                                       ![d].snap.last = Max(page)]
        \/ clients' = [clients EXCEPT ![d].stage = "pull",
                             ![d].cursor = [epoch |-> snap.epoch, seq |-> snap.boundary],
                             ![d].view = view, ![d].skipped = snap.skipped,
                             ![d].snap = NoSnapshot]
    BY <1>4 DEF SnapshotPage, PagedView
  <2> DEFINE top == Max(page)
  <2> HIDE DEF view, page, top
  <2>2. CASE clients' = [clients EXCEPT ![d].stage = "paging", ![d].snap.view = view,
                                        ![d].snap.last = top]
    BY <1>1, <2>2 DEF Client, SnapshotProgress
  <2>3. CASE clients' = [clients EXCEPT ![d].stage = "pull",
                             ![d].cursor = [epoch |-> snap.epoch, seq |-> snap.boundary],
                             ![d].view = view, ![d].skipped = snap.skipped,
                             ![d].snap = NoSnapshot]
    BY <1>1, <2>3 DEF Client
  <2> QED BY <2>1, <2>2, <2>3 DEF top
<1>5. CASE ~ Pull(d) /\ ~ SnapshotPin(d) /\ ~ SnapshotPage(d)
  BY <1>1, <1>5, QuietSteps DEF QuietStep
<1> QED BY <1>2, <1>3, <1>4, <1>5

\* As long as no two write transactions of the account are open at once, an opaque
\* cursor encodes the last committed sequence: every row committed up to the
\* cursor of a client has reached it, whatever expires, is compacted or is
\* restarted on the way.
THEOREM SerialWritesCovered == Spec /\ []OneWriterOpen => []CursorCovers
<1>1. Init => NothingOvertaken
  BY DEF Init, NothingOvertaken, InFlight, NoSnapshot
<1>2. RInv /\ OneWriterOpen /\ NothingOvertaken /\ [Next]_vars => NothingOvertaken'
  BY NothingOvertakenStep
<1>3. CoveredUnlessOvertaken /\ NothingOvertaken => CursorCovers
  BY DEF CoveredUnlessOvertaken, NothingOvertaken, CursorCovers
<1> QED BY <1>1, <1>2, <1>3, ReaderInvariance, NothingElseMissed, PTL DEF Spec
=============================================================================
