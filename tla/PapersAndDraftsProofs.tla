----------------------- MODULE PapersAndDraftsProofs -----------------------
(***************************************************************************)
(* The proofs about shared drafts, papers and their generation.  The       *)
(* requests of the first two read with one session and write with another. *)
(* For any users, threads, questions and bounds: a revision of a draft     *)
(* names a content, every revision is told, and an update drops an edit,   *)
(* or approves over an open comment, only by a race it could not see; a    *)
(* paper refers to questions that exist, a save nothing overlaps is exact, *)
(* and an export is whole.  A generated paper selects different            *)
(* candidates, as many as are asked for; its targets and marks add up; no  *)
(* generation loses its best.                                              *)
(***************************************************************************)
EXTENDS Drafts, Papers, PaperGeneration, Integers, FiniteSetTheorems, FunctionTheorems,
        SequenceTheorems, TLAPS

-----------------------------------------------------------------------------
(* Shared drafts: the inductive invariant.                                 *)

Updating(j) == j.pc # "idle" /\ j.req.kind = "update"

\* What a request may rely on.  An update that overlapped with no other read the
\* row that is there; what it was built on contains the edits of that row; and
\* an approval saw no open comment.
JobFits(j) ==
    /\ Updating(j) => j.row \in DraftRow
    /\ Updating(j) /\ ~ j.raced /\ j.pc # "answer" /\ draft # None => j.row = draft
    /\ Updating(j) /\ ~ j.raced /\ j.req.state # None => j.row.edits \subseteq j.req.state
    /\ Updating(j) /\ j.pc = "answer" => j.row.revision < MaxRevision
    /\ j.pc \in {"collaborators", "comments"} => j.open = {}
    /\ Updating(j) /\ j.pc = "commit" /\ j.req.review = "approved" => j.open = {}
    /\ j.pc = "commit" /\ j.req.kind = "mark" /\ draft # None => comments[j.req.comment] # None

\* A detail that no overlap has touched is not ahead of the draft, and holds its
\* state when it has its revision.
DetailsFit ==
    draft # None => \A d \in served :
        ~ d.raced => d.revision <= draft.revision /\ (d.revision = draft.revision => d.edits = draft.edits)

\* The revision of the draft is told, or an update is about to tell one as high.
ToldOrDue ==
    draft # None =>
        \/ draft.revision <= announced
        \/ \E w \in Worker : /\ Updating(job[w]) /\ job[w].pc = "answer"
                             /\ draft.revision <= job[w].row.revision + 1

\* Before the draft is created there is nothing.
Uncreated == announced = 0 => draft = None /\ \A w \in Worker : job[w] = Idle

DInv ==
    /\ TypeOK
    /\ \A w \in Worker : JobFits(job[w])
    /\ DetailsFit
    /\ ToldOrDue
    /\ Uncreated

-----------------------------------------------------------------------------
(* Types.                                                                  *)

LEMMA RequestType ==
  ASSUME NEW q \in Request
  PROVE  /\ q.user \in User
         /\ q.kind \in {"update", "delete", "share", "role", "unshare", "comment", "mark"}
         /\ q.kind = "update" => /\ q.state \in (SUBSET Edit) \cup {None}
                                 /\ q.review \in Status \cup {None}
         /\ q.kind \in {"share", "role"} => q.role \in Role
         /\ q.kind \in {"share", "role", "unshare"} => q.target \in User
         /\ q.kind = "mark" => q.comment \in Comment /\ q.open \in BOOLEAN
BY DEF Request, Update

Pc == {"collaborators", "comments", "commit", "answer"}

LEMMA JobType ==
  ASSUME NEW j \in Job
  PROVE  /\ j.pc = "idle" <=> j = Idle
         /\ j.pc # "idle" =>
              /\ j.pc \in Pc /\ j.req \in Request /\ j.row \in DraftRow \cup {None}
              /\ j.role \in Role \cup Manager \cup {None} /\ j.found \in Role \cup {None}
              /\ j.open \in SUBSET Comment /\ j.raced \in BOOLEAN
BY DEF Job, Idle, Pc

\* A job that moves on.
LEMMA JobMoves ==
  ASSUME NEW j \in Job, j.pc # "idle", NEW p \in Pc
  PROVE  /\ [j EXCEPT !.pc = p] \in Job
         /\ [j EXCEPT !.pc = p].pc = p
         /\ [j EXCEPT !.pc = p].req = j.req /\ [j EXCEPT !.pc = p].row = j.row
         /\ [j EXCEPT !.pc = p].raced = j.raced /\ [j EXCEPT !.pc = p].open = j.open
BY DEF Job, Idle, Pc

\* What the two reads make of a job.
WithRoles(i, p, r, f) == [i EXCEPT !.pc = p, !.role = r, !.found = f]
WithComments(i, c) == [i EXCEPT !.pc = "commit", !.open = c]

LEMMA JobReadsRoles ==
  ASSUME NEW i \in Job, i.pc # "idle", NEW p \in Pc,
         NEW r \in Role \cup Manager \cup {None}, NEW f \in Role \cup {None}
  PROVE  LET j == WithRoles(i, p, r, f)
         IN  j \in Job /\ j.pc = p /\ j.req = i.req /\ j.row = i.row /\ j.open = i.open /\ j.raced = i.raced
<1>1. i \in [pc : Pc, req : Request, row : DraftRow \cup {None}, role : Role \cup Manager \cup {None},
             found : Role \cup {None}, open : SUBSET Comment, raced : BOOLEAN]
  BY DEF Job, Idle, Pc
<1>2. WithRoles(i, p, r, f) \in [pc : Pc, req : Request, row : DraftRow \cup {None},
             role : Role \cup Manager \cup {None}, found : Role \cup {None}, open : SUBSET Comment,
             raced : BOOLEAN]
  BY <1>1 DEF WithRoles
<1>3. /\ WithRoles(i, p, r, f).pc = p /\ WithRoles(i, p, r, f).req = i.req
      /\ WithRoles(i, p, r, f).row = i.row
      /\ WithRoles(i, p, r, f).open = i.open /\ WithRoles(i, p, r, f).raced = i.raced
  BY <1>1 DEF WithRoles
<1> QED BY <1>2, <1>3 DEF Job, Pc

LEMMA JobReadsComments ==
  ASSUME NEW i \in Job, i.pc # "idle", NEW c \in SUBSET Comment
  PROVE  LET j == WithComments(i, c)
         IN  j \in Job /\ j.pc = "commit" /\ j.req = i.req /\ j.row = i.row /\ j.open = c /\ j.raced = i.raced
<1>1. i \in [pc : Pc, req : Request, row : DraftRow \cup {None}, role : Role \cup Manager \cup {None},
             found : Role \cup {None}, open : SUBSET Comment, raced : BOOLEAN]
  BY DEF Job, Idle, Pc
<1>2. WithComments(i, c) \in [pc : Pc, req : Request, row : DraftRow \cup {None},
             role : Role \cup Manager \cup {None}, found : Role \cup {None}, open : SUBSET Comment,
             raced : BOOLEAN]
  BY <1>1 DEF WithComments, Pc
<1>3. /\ WithComments(i, c).pc = "commit" /\ WithComments(i, c).req = i.req
      /\ WithComments(i, c).row = i.row
      /\ WithComments(i, c).open = c /\ WithComments(i, c).raced = i.raced
  BY <1>1 DEF WithComments
<1> QED BY <1>2, <1>3 DEF Job, Pc

LEMMA IdleFits == Idle \in Job /\ Idle.pc = "idle" /\ JobFits(Idle)
BY DEF Job, Idle, JobFits, Updating

-----------------------------------------------------------------------------
(* Steps of one request that leave the draft alone.                        *)

LEMMA QuietStep ==
  ASSUME DInv, TypeOK', NEW w \in Worker,
         \A v \in Worker \ {w} : job'[v] = job[v],
         JobFits(job[w])',
         UNCHANGED <<draft, served>>,
         \A c \in Comment : comments[c] # None => comments'[c] # None,
         announced # 0, announced <= announced',
         Updating(job[w]) /\ job[w].pc = "answer" /\ draft # None => job[w].row.revision + 1 <= announced'
  PROVE  DInv'
<1>1. \A v \in Worker : JobFits(job[v])'
  <2> TAKE v \in Worker
  <2>1. CASE v = w
    BY <2>1
  <2>2. CASE v # w
    <3>1. job[v].pc = "commit" /\ job[v].req.kind = "mark" => job[v].req.comment \in Comment
      BY JobType, RequestType DEF DInv, TypeOK
    <3>2. JobFits(job[v]) /\ job'[v] = job[v] /\ draft' = draft
      BY <2>2 DEF DInv
    <3> QED BY <3>1, <3>2 DEF JobFits, Updating
  <2> QED BY <2>1, <2>2
<1>2. DetailsFit'
  BY DEF DInv, DetailsFit
<1>3. announced \in Nat /\ announced' \in Nat
  BY BoundAssumption DEF DInv, TypeOK
<1>4. ToldOrDue'
  <2> SUFFICES ASSUME draft' # None
               PROVE  \/ draft'.revision <= announced'
                      \/ \E v \in Worker : /\ Updating(job[v])' /\ job'[v].pc = "answer"
                                           /\ draft'.revision <= job'[v].row.revision + 1
    BY DEF ToldOrDue
  <2>0. draft' = draft /\ draft.revision \in Nat
    BY BoundAssumption DEF DInv, TypeOK, DraftRow, Revision
  <2>1. CASE draft.revision <= announced
    BY <1>3, <2>0, <2>1
  <2>2. ASSUME NEW v \in Worker, Updating(job[v]), job[v].pc = "answer",
               draft.revision <= job[v].row.revision + 1
        PROVE  \/ draft'.revision <= announced'
               \/ \E u \in Worker : /\ Updating(job[u])' /\ job'[u].pc = "answer"
                                    /\ draft'.revision <= job'[u].row.revision + 1
    <3>1. CASE v = w
      <4>1. job[w].row.revision + 1 <= announced'
        BY <2>0, <2>2, <3>1
      <4>2. job[w].row \in DraftRow
        BY <2>2, <3>1 DEF DInv, JobFits
      <4>3. job[w].row.revision \in Nat
        BY <4>2, BoundAssumption DEF DraftRow, Revision
      <4> QED BY <1>3, <2>0, <2>2, <3>1, <4>1, <4>3
    <3>2. CASE v # w
      BY <2>0, <2>2, <3>2 DEF Updating
    <3> QED BY <3>1, <3>2
  <2> QED BY <2>0, <2>1, <2>2 DEF DInv, ToldOrDue
<1>5. Uncreated'
  BY <1>3 DEF Uncreated
<1> QED BY <1>1, <1>2, <1>4, <1>5 DEF DInv

\* A worker that is at work, or a draft, is there only after the creation.
LEMMA Created ==
  ASSUME DInv, draft # None \/ \E w \in Worker : job[w] # Idle
  PROVE  announced # 0
BY DEF DInv, Uncreated

\* A request that only goes on, or ends without a word.
LEMMA GoesOn ==
  ASSUME DInv, NEW w \in Worker, job[w].pc # "answer", announced # 0,
         NEW j \in Job, JobFits(j), job' = [job EXCEPT ![w] = j],
         UNCHANGED <<rows, served, announced>>, sent' \subseteq Edit, asked' \in 0 .. MaxRequest
  PROVE  DInv'
<1>1. draft' = draft /\ collab' = collab /\ comments' = comments /\ served' = served /\ announced' = announced
  BY DEF rows
<1>2. job' \in [Worker -> Job] /\ job'[w] = j /\ \A v \in Worker \ {w} : job'[v] = job[v]
  BY DEF DInv, TypeOK
<1>3. TypeOK'
  BY <1>1, <1>2 DEF DInv, TypeOK
<1>4. JobFits(job[w])'
  BY <1>1, <1>2 DEF JobFits, Updating
<1>5. announced \in Nat
  BY BoundAssumption DEF DInv, TypeOK
<1> QED BY <1>1, <1>2, <1>3, <1>4, <1>5, QuietStep

LEMMA FailKeeps ==
  ASSUME DInv, NEW w \in Worker, Fail(w)
  PROVE  DInv'
<1>1. job[w].pc = "commit" /\ job' = [job EXCEPT ![w] = Idle] /\ UNCHANGED <<rows, sent, asked, served, announced>>
  BY DEF Fail
<1>2. job[w] # Idle
  BY <1>1 DEF Idle
<1>3. sent' \subseteq Edit /\ asked' \in 0 .. MaxRequest
  BY <1>1 DEF DInv, TypeOK
<1> QED BY <1>1, <1>2, <1>3, IdleFits, Created, GoesOn

-----------------------------------------------------------------------------
(* The requests.                                                           *)

LEMMA BeginKeeps ==
  ASSUME DInv, NEW w \in Worker, NEW q \in Request, NEW raced \in BOOLEAN, Begin(w, q, raced),
         sent' \subseteq Edit,
         q.kind = "update" /\ ~ raced /\ q.state # None => draft.edits \subseteq q.state
  PROVE  DInv'
<1> DEFINE j == [pc |-> "collaborators", req |-> q, row |-> IF q.kind = "update" THEN draft ELSE None,
                 role |-> None, found |-> None, open |-> {}, raced |-> raced]
<1>1. /\ job[w] = Idle /\ draft # None /\ asked < MaxRequest /\ asked' = asked + 1
      /\ job' = [job EXCEPT ![w] = j]
      /\ UNCHANGED <<rows, served, announced>>
  BY DEF Begin
<1>2. draft \in DraftRow
  BY <1>1 DEF DInv, TypeOK
<1>3. j \in Job
  BY <1>2 DEF Job
<1>4. /\ j.pc = "collaborators" /\ j.req = q /\ j.open = {} /\ j.raced = raced
      /\ q.kind = "update" => j.row = draft
  OBVIOUS
<1> HIDE DEF j
<1>5. JobFits(j)
  BY <1>2, <1>4 DEF JobFits, Updating
<1>6. asked' \in 0 .. MaxRequest
  BY <1>1, BoundAssumption DEF DInv, TypeOK
<1>7. job[w].pc # "answer"
  BY <1>1 DEF Idle
<1> QED BY <1>1, <1>3, <1>5, <1>6, <1>7, Created, GoesOn

LEMMA UpdateRequestKeeps ==
  ASSUME DInv, NEW w \in Worker, UpdateRequest(w)
  PROVE  DInv'
<1>1. PICK u \in User, d \in served, n \in BOOLEAN, e \in NextEdit \cup {None}, s \in Review \cup {None} :
        /\ draft # None /\ BaseCurrent(d, draft)
        /\ Begin(w, [kind |-> "update", user |-> u, rename |-> n, review |-> s,
                     state |-> IF e = None THEN None ELSE d.edits \cup {e}], d.raced)
        /\ sent' = sent \cup ({e} \ {None})
  BY DEF UpdateRequest
<1> DEFINE q == [kind |-> "update", user |-> u, rename |-> n, review |-> s,
                 state |-> IF e = None THEN None ELSE d.edits \cup {e}]
<1>2. d \in Detail /\ sent \subseteq Edit /\ (e # None => e \in Edit) /\ s \in Status \cup {None}
  BY ReviewAssumption DEF DInv, TypeOK, NextEdit
<1>3. d.edits \in SUBSET Edit /\ d.raced \in BOOLEAN
  BY <1>2 DEF Detail
<1>4. q \in Request
  <2>1. q.state \in (SUBSET Edit) \cup {None}
    BY <1>2, <1>3
  <2>2. q \in Update
    BY <1>2, <2>1 DEF Update
  <2> QED BY <2>2 DEF Request
<1>5. sent' \subseteq Edit
  BY <1>1, <1>2
<1>6. ~ d.raced => d.edits = draft.edits
  BY <1>1 DEF BaseCurrent, DInv, DetailsFit
<1>7. ~ d.raced /\ q.state # None => draft.edits \subseteq q.state
  BY <1>6
<1>8. Begin(w, q, d.raced)
  BY <1>1
<1> HIDE DEF q
<1> QED BY <1>3, <1>4, <1>5, <1>7, <1>8, BeginKeeps

LEMMA PlainKeeps ==
  ASSUME DInv, NEW w \in Worker, NEW q \in Request, q.kind # "update", Plain(w, q)
  PROVE  DInv'
<1>1. sent' \subseteq Edit
  BY DEF Plain, DInv, TypeOK
<1> QED BY <1>1, BeginKeeps DEF Plain

LEMMA RequestsKeep ==
  ASSUME DInv, NEW w \in Worker,
         \/ DeleteRequest(w) \/ ShareRequest(w) \/ RoleRequest(w) \/ UnshareRequest(w)
         \/ CommentRequest(w) \/ MarkRequest(w)
  PROVE  DInv'
<1>1. CASE DeleteRequest(w)
  <2>1. PICK u \in User : Plain(w, [kind |-> "delete", user |-> u])
    BY <1>1 DEF DeleteRequest
  <2>2. [kind |-> "delete", user |-> u] \in Request
    BY DEF Request
  <2> QED BY <2>1, <2>2, PlainKeeps
<1>2. CASE ShareRequest(w)
  <2>1. PICK u \in User, t \in User \ {Owner}, r \in Role :
          Plain(w, [kind |-> "share", user |-> u, target |-> t, role |-> r])
    BY <1>2 DEF ShareRequest
  <2>2. [kind |-> "share", user |-> u, target |-> t, role |-> r] \in Request
    BY DEF Request
  <2> QED BY <2>1, <2>2, PlainKeeps
<1>3. CASE RoleRequest(w)
  <2>1. PICK u \in User, t \in User, r \in Role :
          Plain(w, [kind |-> "role", user |-> u, target |-> t, role |-> r])
    BY <1>3 DEF RoleRequest
  <2>2. [kind |-> "role", user |-> u, target |-> t, role |-> r] \in Request
    BY DEF Request
  <2> QED BY <2>1, <2>2, PlainKeeps
<1>4. CASE UnshareRequest(w)
  <2>1. PICK u \in User, t \in User : Plain(w, [kind |-> "unshare", user |-> u, target |-> t])
    BY <1>4 DEF UnshareRequest
  <2>2. [kind |-> "unshare", user |-> u, target |-> t] \in Request
    BY DEF Request
  <2> QED BY <2>1, <2>2, PlainKeeps
<1>5. CASE CommentRequest(w)
  <2>1. PICK u \in User : Plain(w, [kind |-> "comment", user |-> u])
    BY <1>5 DEF CommentRequest
  <2>2. [kind |-> "comment", user |-> u] \in Request
    BY DEF Request
  <2> QED BY <2>1, <2>2, PlainKeeps
<1>6. CASE MarkRequest(w)
  <2>1. PICK u \in User, c \in Comment, o \in BOOLEAN :
          Plain(w, [kind |-> "mark", user |-> u, comment |-> c, open |-> o])
    BY <1>6 DEF MarkRequest
  <2>2. [kind |-> "mark", user |-> u, comment |-> c, open |-> o] \in Request
    BY DEF Request
  <2> QED BY <2>1, <2>2, PlainKeeps
<1> QED BY <1>1, <1>2, <1>3, <1>4, <1>5, <1>6

-----------------------------------------------------------------------------
(* The reads.                                                              *)

LEMMA AccessRoleType ==
  ASSUME TypeOK, NEW u \in User
  PROVE  AccessRole(u, collab) \in Role \cup Manager \cup {None}
BY DEF TypeOK, Roles, AccessRole, Manager

LEMMA ReadCollaboratorsKeeps ==
  ASSUME DInv, NEW w \in Worker, ReadCollaborators(w)
  PROVE  DInv'
<1> DEFINE i == job[w]
           q == i.req
           r == AccessRole(q.user, collab)
           f == IF About(q) THEN collab[q.target] ELSE None
           p == IF Judges(q) THEN "comments" ELSE "commit"
           j == WithRoles(i, p, r, f)
<1>1. /\ i \in Job /\ i.pc = "collaborators" /\ JobFits(i) /\ job \in [Worker -> Job]
      /\ UNCHANGED <<rows, sent, asked, served, announced>>
  BY DEF ReadCollaborators, DInv, TypeOK
<1>2. q \in Request
  BY <1>1, JobType
<1>3. r \in Role \cup Manager \cup {None} /\ f \in Role \cup {None} /\ p \in {"comments", "commit"}
  BY <1>2, RequestType, AccessRoleType DEF DInv, TypeOK, Roles, About
<1>4. \/ job' = [job EXCEPT ![w] = Idle]
      \/ job' = [job EXCEPT ![w].pc = p, ![w].role = r, ![w].found = f]
  BY DEF ReadCollaborators
<1>5. sent' \subseteq Edit /\ asked' \in 0 .. MaxRequest
  BY <1>1 DEF DInv, TypeOK
<1>6. announced # 0
  BY <1>1, JobType, Created DEF Idle
<1>7. CASE job' = [job EXCEPT ![w] = Idle]
  BY <1>1, <1>5, <1>6, <1>7, IdleFits, GoesOn
<1>8. CASE job' = [job EXCEPT ![w].pc = p, ![w].role = r, ![w].found = f]
  <2>1. q.kind = "update" /\ p = "commit" => q.review = None
    BY DEF Judges
  <2>2. p = "commit" => q.kind # "mark"
    BY DEF Judges
  <2> HIDE DEF r, f, p
  <2>3. /\ j \in Job /\ j.pc = p /\ j.req = q /\ j.row = i.row /\ j.open = i.open /\ j.raced = i.raced
    <3>1. p \in Pc /\ i.pc # "idle"
      BY <1>1, <1>3 DEF Pc
    <3> HIDE DEF i
    <3> QED BY <1>1, <1>3, <3>1, JobReadsRoles
  <2>4. job' = [job EXCEPT ![w] = j]
    BY <1>1, <1>8 DEF WithRoles
  <2> HIDE DEF j
  <2>5. JobFits(j)
    BY <1>1, <1>3, <2>1, <2>2, <2>3 DEF JobFits, Updating
  <2> QED BY <1>1, <1>5, <1>6, <2>3, <2>4, <2>5, GoesOn
<1> QED BY <1>4, <1>7, <1>8

LEMMA ReadCommentsKeeps ==
  ASSUME DInv, NEW w \in Worker, ReadComments(w)
  PROVE  DInv'
<1> DEFINE i == job[w]
           c == OpenIn(comments)
           j == WithComments(i, c)
<1>1. /\ i \in Job /\ i.pc = "comments" /\ JobFits(i) /\ job \in [Worker -> Job]
      /\ UNCHANGED <<rows, sent, asked, served, announced>>
  BY DEF ReadComments, DInv, TypeOK
<1>2. c \in SUBSET Comment
  BY DEF OpenIn
<1>3. \/ job' = [job EXCEPT ![w] = Idle]
      \/ /\ job' = [job EXCEPT ![w].pc = "commit", ![w].open = c]
         /\ Decided(i.req, i.role, comments)
  BY DEF ReadComments
<1>4. sent' \subseteq Edit /\ asked' \in 0 .. MaxRequest
  BY <1>1 DEF DInv, TypeOK
<1>5. announced # 0
  BY <1>1, JobType, Created DEF Idle
<1>6. CASE job' = [job EXCEPT ![w] = Idle]
  BY <1>1, <1>4, <1>5, <1>6, IdleFits, GoesOn
<1>7. CASE /\ job' = [job EXCEPT ![w].pc = "commit", ![w].open = c]
           /\ Decided(i.req, i.role, comments)
  <2>1. i.req.kind = "update" /\ i.req.review = "approved" => c = {}
    BY <1>7 DEF Decided, Approvable
  <2>2. i.req.kind = "mark" => comments[i.req.comment] # None
    BY <1>7 DEF Decided
  <2> HIDE DEF c
  <2>3. /\ j \in Job /\ j.pc = "commit" /\ j.req = i.req /\ j.row = i.row /\ j.open = c /\ j.raced = i.raced
    <3> HIDE DEF i
    <3> QED BY <1>1, <1>2, JobReadsComments
  <2>4. job' = [job EXCEPT ![w] = j]
    BY <1>1, <1>7 DEF WithComments
  <2> HIDE DEF j
  <2>5. JobFits(j)
    BY <1>1, <2>1, <2>2, <2>3 DEF JobFits, Updating
  <2> QED BY <1>1, <1>4, <1>5, <2>3, <2>4, <2>5, GoesOn
<1> QED BY <1>3, <1>6, <1>7

-----------------------------------------------------------------------------
(* The commit.                                                             *)

\* The commits that leave the draft alone: of collaborators and comments.
LEMMA SideCommitKeeps ==
  ASSUME DInv, NEW w \in Worker, job[w].pc = "commit", job[w].req.kind # "update", Finish(w),
         UNCHANGED <<draft, sent, asked, served, announced>>,
         collab' \in Roles, comments' \in Comments,
         \A c \in Comment : comments[c] # None => comments'[c] # None
  PROVE  DInv'
<1>1. job[w] \in Job /\ job \in [Worker -> Job] /\ job[w].pc # "idle"
  BY DEF DInv, TypeOK
<1> DEFINE j == [job[w] EXCEPT !.pc = "answer"]
<1>2. j \in Job /\ j.pc = "answer" /\ j.req = job[w].req
  BY <1>1, JobMoves DEF Pc
<1>3. job' = [job EXCEPT ![w] = j]
  BY <1>1 DEF Finish
<1> HIDE DEF j
<1>4. job' \in [Worker -> Job] /\ job'[w] = j /\ \A v \in Worker \ {w} : job'[v] = job[v]
  BY <1>1, <1>2, <1>3
<1>5. TypeOK'
  BY <1>4 DEF DInv, TypeOK
<1>6. JobFits(job[w])'
  BY <1>2, <1>4 DEF JobFits, Updating
<1>7. announced # 0
  BY <1>1, Created DEF Idle
<1>8. announced <= announced'
  BY BoundAssumption DEF DInv, TypeOK
<1> QED BY <1>4, <1>5, <1>6, <1>7, <1>8, QuietStep

\* The draft is deleted.
LEMMA EraseKeeps ==
  ASSUME DInv, NEW w \in Worker, job[w].pc = "commit", Erase(w)
  PROVE  DInv'
<1>1. /\ job' \in [Worker -> Job] /\ job'[w] = Idle /\ \A v \in Worker \ {w} : job'[v] = job[v]
      /\ draft' = None /\ UNCHANGED <<sent, asked, served, announced>>
  BY IdleFits DEF Erase, DInv, TypeOK
<1>2. TypeOK'
  BY <1>1 DEF Erase, NoCollaborator, NoComment, Roles, Comments, DInv, TypeOK
<1>3. \A v \in Worker : JobFits(job[v])'
  <2> TAKE v \in Worker
  <2>1. CASE v = w
    BY <1>1, <2>1, IdleFits DEF JobFits, Updating
  <2>2. CASE v # w
    <3>1. JobFits(job[v])
      BY DEF DInv
    <3> QED BY <1>1, <2>2, <3>1 DEF JobFits, Updating
  <2> QED BY <2>1, <2>2
<1>4. DetailsFit' /\ ToldOrDue'
  BY <1>1 DEF DetailsFit, ToldOrDue
<1>5. Uncreated'
  BY <1>1 DEF DInv, Uncreated
<1> QED BY <1>2, <1>3, <1>4, <1>5 DEF DInv


\* The update of w: its revision is one more than the one it read.
LEMMA SaveFields ==
  ASSUME DInv, NEW w \in Worker, job[w].pc = "commit", job[w].req.kind = "update", draft # None,
         Save(w, job[w])
  PROVE  LET q == job[w].req
             row == job[w].row
         IN  /\ row \in DraftRow /\ row.revision \in Nat /\ row.revision < MaxRevision
             /\ draft \in DraftRow /\ draft' \in DraftRow
             /\ draft'.revision = row.revision + 1
             /\ draft'.edits = (IF q.state = None THEN draft.edits ELSE q.state)
             /\ draft'.review \in {draft.review, q.review}
             /\ Kept(q, row) \in DraftRow
             /\ Kept(q, row).revision = row.revision + 1
             /\ Kept(q, row).edits = (IF q.state = None THEN row.edits ELSE q.state)
<1> DEFINE q == job[w].req
           row == job[w].row
<1>1. job[w] \in Job /\ JobFits(job[w]) /\ draft \in DraftRow
  BY DEF DInv, TypeOK
<1>2. q \in Request /\ q.state \in (SUBSET Edit) \cup {None} /\ q.review \in Status \cup {None}
  BY <1>1, JobType, RequestType
<1>3. row \in DraftRow /\ row.revision < MaxRevision
  BY <1>1 DEF JobFits, Updating, Save
<1>4. row.revision \in Nat /\ row.revision + 1 \in Revision
  BY <1>3, BoundAssumption DEF DraftRow, Revision
<1> DEFINE e == IF q.state = None THEN draft.edits ELSE q.state
           f == IF q.state = None THEN row.edits ELSE q.state
           s == IF q.review \in {None, row.review} THEN draft.review ELSE q.review
<1>5. e \in SUBSET Edit /\ f \in SUBSET Edit /\ s \in Status /\ s \in {draft.review, q.review}
  BY <1>1, <1>2, <1>3 DEF DraftRow
<1>6. draft' = [draft EXCEPT !.revision = row.revision + 1, !.edits = e, !.review = s]
  BY DEF Save, Written
<1>7. Kept(q, row) = [row EXCEPT !.revision = row.revision + 1, !.edits = f]
  BY DEF Kept
<1> HIDE DEF e, f, s, q, row
<1>8. /\ draft' \in DraftRow /\ draft'.revision = row.revision + 1
      /\ draft'.edits = e /\ draft'.review = s
  BY <1>1, <1>4, <1>5, <1>6 DEF DraftRow
<1>9. /\ Kept(q, row) \in DraftRow /\ Kept(q, row).revision = row.revision + 1
      /\ Kept(q, row).edits = f
  BY <1>3, <1>4, <1>5, <1>7 DEF DraftRow
<1> QED BY <1>1, <1>3, <1>4, <1>5, <1>8, <1>9 DEF e, f, q, row

\* An update that has met another.
Overlapped(j) == [j EXCEPT !.raced = TRUE]

LEMMA OverlappedFields ==
  ASSUME NEW j \in Job, j.pc # "idle"
  PROVE  /\ Overlapped(j) \in Job /\ Overlapped(j).pc = j.pc /\ Overlapped(j).req = j.req
         /\ Overlapped(j).row = j.row /\ Overlapped(j).open = j.open /\ Overlapped(j).raced
<1>1. j \in [pc : Pc, req : Request, row : DraftRow \cup {None}, role : Role \cup Manager \cup {None},
             found : Role \cup {None}, open : SUBSET Comment, raced : BOOLEAN]
  BY DEF Job, Idle, Pc
<1>2. Overlapped(j) \in [pc : Pc, req : Request, row : DraftRow \cup {None},
             role : Role \cup Manager \cup {None}, found : Role \cup {None}, open : SUBSET Comment,
             raced : BOOLEAN]
  BY <1>1 DEF Overlapped
<1>3. /\ Overlapped(j).pc = j.pc /\ Overlapped(j).req = j.req
      /\ Overlapped(j).row = j.row /\ Overlapped(j).open = j.open /\ Overlapped(j).raced
  BY <1>1 DEF Overlapped
<1> QED BY <1>2, <1>3 DEF Job, Pc

\* What becomes of a detail when an update commits.
Aged(d, raced) == [d EXCEPT !.raced = @ \/ raced]

LEMMA AgedFields ==
  ASSUME NEW d \in Detail, NEW raced \in BOOLEAN
  PROVE  /\ Aged(d, raced) \in Detail
         /\ Aged(d, raced).revision = d.revision /\ Aged(d, raced).edits = d.edits
         /\ Aged(d, raced).raced = (d.raced \/ raced)
<1>1. d.raced \in BOOLEAN /\ (d.raced \/ raced) \in BOOLEAN
  BY DEF Detail
<1> QED BY <1>1 DEF Detail, Aged

LEMMA ServeFields ==
  ASSUME NEW r \in DraftRow, NEW raced \in BOOLEAN
  PROVE  /\ Serve(r, raced) \in Detail
         /\ Serve(r, raced).revision = r.revision /\ Serve(r, raced).edits = r.edits
         /\ Serve(r, raced).raced = raced
BY DEF Detail, Serve, DraftRow

LEMMA SaveKeeps ==
  ASSUME DInv, NEW w \in Worker, job[w].pc = "commit", job[w].req.kind = "update", draft # None,
         Save(w, job[w])
  PROVE  DInv'
<1> DEFINE j == job[w]
           q == j.req
           row == j.row
           kept == Kept(q, row)
           answer == [j EXCEPT !.pc = "answer"]
<1>1. j \in Job /\ JobFits(j) /\ j.pc = "commit" /\ q.kind = "update" /\ j.raced \in BOOLEAN
  BY JobType DEF DInv, TypeOK
<1>2. /\ row \in DraftRow /\ row.revision \in Nat /\ row.revision < MaxRevision
      /\ draft \in DraftRow /\ draft' \in DraftRow
      /\ draft'.revision = row.revision + 1
      /\ draft'.edits = (IF q.state = None THEN draft.edits ELSE q.state)
      /\ kept \in DraftRow
      /\ kept.revision = row.revision + 1
      /\ kept.edits = (IF q.state = None THEN row.edits ELSE q.state)
  BY SaveFields
<1>3. /\ served' = {Aged(d, j.raced) : d \in served} \cup {Serve(draft', FALSE), Serve(kept, j.raced)}
      /\ UNCHANGED <<collab, comments, sent, asked, announced>>
  BY DEF Save, Aged
<1>4. \A v \in Worker : job[v] \in Job /\ (job[v] # Idle => job[v].pc # "idle")
  BY JobType DEF DInv, TypeOK
<1>5. /\ job' = [v \in Worker |-> job'[v]]
      /\ job'[w] = answer
      /\ \A v \in Worker \ {w} :
            job'[v] = IF job[v] = Idle \/ job[v].req.kind # "update" THEN job[v] ELSE Overlapped(job[v])
  BY DEF Save, Overlapped
<1>6. answer \in Job /\ answer.pc = "answer" /\ answer.req = q /\ answer.row = row /\ answer.raced = j.raced
  BY <1>1, JobMoves DEF Pc
<1>7. ~ j.raced => row = draft /\ (q.state # None => draft.edits \subseteq q.state)
  BY <1>1 DEF JobFits, Updating
<1>8. announced # 0
  BY Created
<1> HIDE DEF j, q, row, kept, answer
<1>9. \A v \in Worker \ {w} : job'[v] \in Job
  BY <1>4, <1>5, OverlappedFields
<1>10. job' \in [Worker -> Job]
  BY <1>5, <1>6, <1>9
<1>11. served' \subseteq Detail
  <2>1. \A d \in served : Aged(d, j.raced) \in Detail
    BY <1>1, AgedFields DEF DInv, TypeOK
  <2>2. Serve(draft', FALSE) \in Detail /\ Serve(kept, j.raced) \in Detail
    BY <1>1, <1>2, ServeFields
  <2> QED BY <1>3, <2>1, <2>2
<1>12. TypeOK'
  BY <1>2, <1>3, <1>10, <1>11 DEF DInv, TypeOK
<1>13. ASSUME NEW v \in Worker
       PROVE  JobFits(job[v])'
  <2>1. CASE v = w
    <3>1. q.state # None /\ ~ j.raced => row.edits \subseteq q.state
      BY <1>7
    <3> QED BY <1>2, <1>5, <1>6, <2>1, <3>1 DEF JobFits, Updating
  <2>2. CASE v # w /\ (job[v] = Idle \/ job[v].req.kind # "update")
    <3>1. JobFits(job[v]) /\ job'[v] = job[v]
      BY <1>5, <2>2 DEF DInv
    <3>2. ~ Updating(job[v])
      BY <2>2 DEF Updating, Idle
    <3> QED BY <1>3, <3>1, <3>2 DEF JobFits, Updating
  <2>3. CASE v # w /\ ~ (job[v] = Idle \/ job[v].req.kind # "update")
    <3>1. JobFits(job[v]) /\ job'[v] = Overlapped(job[v])
      BY <1>5, <2>3 DEF DInv
    <3>2. /\ job'[v].pc = job[v].pc /\ job'[v].req = job[v].req /\ job'[v].row = job[v].row
          /\ job'[v].open = job[v].open /\ job'[v].raced
      BY <1>4, <2>3, <3>1, OverlappedFields
    <3> QED BY <1>3, <2>3, <3>1, <3>2 DEF JobFits, Updating
  <2> QED BY <2>1, <2>2, <2>3
<1>14. DetailsFit'
  <2> SUFFICES ASSUME NEW d \in served', ~ d.raced
               PROVE  d.revision <= draft'.revision /\ (d.revision = draft'.revision => d.edits = draft'.edits)
    BY DEF DetailsFit
  <2>0. draft'.revision \in Nat /\ d.revision \in Nat
    BY <1>2, <1>11, BoundAssumption DEF Detail, Revision
  <2>1. CASE d = Serve(draft', FALSE)
    <3>1. d.revision = draft'.revision /\ d.edits = draft'.edits
      BY <1>2, <2>1, ServeFields
    <3> QED BY <2>0, <3>1
  <2>2. CASE d = Serve(kept, j.raced)
    <3>1. ~ j.raced /\ d.revision = kept.revision /\ d.edits = kept.edits
      BY <1>1, <1>2, <2>2, ServeFields
    <3>2. row = draft
      BY <1>7, <3>1
    <3> QED BY <1>2, <3>1, <3>2
  <2>3. ASSUME NEW c \in served, d = Aged(c, j.raced)
        PROVE  d.revision < draft'.revision
    <3>1. c \in Detail
      BY DEF DInv, TypeOK
    <3>2. d.revision = c.revision /\ ~ c.raced /\ ~ j.raced
      <4>1. /\ Aged(c, j.raced).revision = c.revision
            /\ Aged(c, j.raced).raced = (c.raced \/ j.raced)
        BY <1>1, <3>1, AgedFields
      <4>2. d.revision = c.revision /\ d.raced = (c.raced \/ j.raced)
        BY <2>3, <4>1
      <4> QED BY <4>2
    <3>3. c.revision <= draft.revision
      BY <3>2 DEF DInv, DetailsFit
    <3>4. c.revision \in Nat /\ draft'.revision = draft.revision + 1 /\ draft.revision \in Nat
      BY <1>2, <1>7, <3>1, <3>2, BoundAssumption DEF Detail, Revision
    <3> QED BY <3>2, <3>3, <3>4
  <2>4. CASE \E c \in served : d = Aged(c, j.raced)
    <3>1. d.revision < draft'.revision
      BY <2>3, <2>4
    <3> QED BY <2>0, <3>1
  <2>5. \/ d \in {Aged(c, j.raced) : c \in served}
        \/ d = Serve(draft', FALSE) \/ d = Serve(kept, j.raced)
    BY <1>3
  <2>6. d \in {Aged(c, j.raced) : c \in served} => \E c \in served : d = Aged(c, j.raced)
    OBVIOUS
  <2> QED BY <2>1, <2>2, <2>4, <2>5, <2>6
<1>15. ToldOrDue'
  <2>1. Updating(job[w])' /\ job'[w].pc = "answer" /\ job'[w].row = row
    BY <1>1, <1>5, <1>6 DEF Updating
  <2>2. draft'.revision <= row.revision + 1
    BY <1>2
  <2> QED BY <2>1, <2>2 DEF ToldOrDue
<1>16. Uncreated'
  BY <1>3, <1>8 DEF Uncreated
<1> QED BY <1>12, <1>13, <1>14, <1>15, <1>16 DEF DInv

LEMMA CommitKeeps ==
  ASSUME DInv, NEW w \in Worker, Commit(w)
  PROVE  DInv'
<1> DEFINE j == job[w]
           q == j.req
<1>1. j \in Job /\ j.pc = "commit" /\ JobFits(j) /\ ~ Clash(j)
  BY DEF Commit, DInv, TypeOK
<1>2. draft # None
  BY <1>1 DEF Clash
<1>3. q \in Request
  BY <1>1, JobType
<1>4. collab \in Roles /\ comments \in Comments
  BY DEF DInv, TypeOK
<1>5. CASE q.kind = "update" /\ Save(w, j)
  BY <1>1, <1>2, <1>5, SaveKeeps
<1>6. CASE q.kind = "delete" /\ Erase(w)
  BY <1>1, <1>6, EraseKeeps
<1>7. CASE /\ q.kind \in {"share", "role"} /\ collab' = Shared(j) /\ Finish(w)
           /\ UNCHANGED <<draft, comments, sent, asked, served, announced>>
  <2>1. q.role \in Role /\ q.target \in User
    BY <1>3, <1>7, RequestType
  <2>2. collab' \in Roles
    BY <1>4, <1>7, <2>1 DEF Shared, Roles
  <2> QED BY <1>1, <1>4, <1>7, <2>2, SideCommitKeeps
<1>8. CASE /\ q.kind = "unshare" /\ collab' = [collab EXCEPT ![q.target] = None] /\ Finish(w)
           /\ UNCHANGED <<draft, comments, sent, asked, served, announced>>
  <2>1. collab' \in Roles
    BY <1>4, <1>8 DEF Roles
  <2> QED BY <1>1, <1>4, <1>8, <2>1, SideCommitKeeps
<1>9. CASE /\ q.kind = "comment"
           /\ \E c \in Comment :
                /\ comments[c] = None
                /\ \A k \in 1..(c - 1) : comments[k] # None
                /\ comments' = [comments EXCEPT ![c] = [author |-> q.user, open |-> TRUE]]
           /\ Finish(w)
           /\ UNCHANGED <<draft, collab, sent, asked, served, announced>>
  <2>1. PICK c \in Comment :
          comments[c] = None /\ comments' = [comments EXCEPT ![c] = [author |-> q.user, open |-> TRUE]]
    BY <1>9
  <2>2. [author |-> q.user, open |-> TRUE] \in CommentRow
    BY <1>3, RequestType DEF CommentRow
  <2>3. comments' \in Comments /\ \A k \in Comment : comments[k] # None => comments'[k] # None
    BY <1>4, <2>1, <2>2 DEF Comments
  <2> QED BY <1>1, <1>4, <1>9, <2>3, SideCommitKeeps
<1>10. CASE /\ q.kind = "mark"
            /\ comments' = [comments EXCEPT ![q.comment].open =
                              IF q.open = (q.comment \in j.open) THEN @ ELSE q.open]
            /\ Finish(w)
            /\ UNCHANGED <<draft, collab, sent, asked, served, announced>>
  <2>1. q.comment \in Comment /\ q.open \in BOOLEAN /\ comments[q.comment] # None
    BY <1>1, <1>2, <1>3, <1>10, RequestType DEF JobFits
  <2>2. comments[q.comment] \in CommentRow
    BY <1>4, <2>1 DEF Comments
  <2> DEFINE o == IF q.open = (q.comment \in j.open) THEN comments[q.comment].open ELSE q.open
             c == [comments[q.comment] EXCEPT !.open = o]
  <2>3. o \in BOOLEAN
    BY <2>1, <2>2 DEF CommentRow
  <2>4. comments' = [comments EXCEPT ![q.comment] = c]
    BY <1>4, <1>10
  <2> HIDE DEF o
  <2>5. c \in CommentRow
    BY <2>2, <2>3 DEF CommentRow
  <2> HIDE DEF c
  <2>6. comments' \in Comments
    BY <1>4, <2>4, <2>5 DEF Comments
  <2>7. \A k \in Comment : comments[k] # None => comments'[k] # None
    BY <1>4, <2>1, <2>4, <2>5, CommentAssumption DEF Comments
  <2> QED BY <1>1, <1>4, <1>10, <2>6, <2>7, SideCommitKeeps
<1> QED BY <1>5, <1>6, <1>7, <1>8, <1>9, <1>10 DEF Commit

-----------------------------------------------------------------------------
(* The creation, and the answer.                                           *)

LEMMA CreateKeeps ==
  ASSUME DInv, NEW s \in Review, Create(s)
  PROVE  DInv'
<1>1. /\ draft' = [revision |-> 1, edits |-> {}, review |-> s]
      /\ served' = {Serve(draft', FALSE)} /\ announced' = 1 /\ announced = 0
      /\ UNCHANGED <<collab, comments, sent, asked, job>>
  BY DEF Create
<1>2. \A w \in Worker : job'[w] = Idle
  BY <1>1 DEF DInv, Uncreated
<1>3. draft' \in DraftRow /\ draft'.revision = 1
  <2>1. s \in Status /\ 1 \in Revision
    BY ReviewAssumption, BoundAssumption DEF Revision
  <2> DEFINE d == [revision |-> 1, edits |-> {}, review |-> s]
  <2>2. d \in DraftRow /\ d.revision = 1
    BY <2>1 DEF DraftRow
  <2>3. draft' = d
    BY <1>1
  <2> HIDE DEF d
  <2> QED BY <2>2, <2>3
<1>4. Serve(draft', FALSE) \in Detail /\ Serve(draft', FALSE).edits = draft'.edits
      /\ Serve(draft', FALSE).revision = draft'.revision
  BY <1>3, ServeFields
<1>5. 1 \in 0 .. MaxRevision
  BY BoundAssumption
<1>6. TypeOK'
  BY <1>1, <1>3, <1>4, <1>5 DEF DInv, TypeOK
<1>7. \A w \in Worker : JobFits(job[w])'
  BY <1>2, IdleFits DEF JobFits, Updating
<1>8. DetailsFit'
  <2>1. \A d \in served' : d.revision = draft'.revision /\ d.edits = draft'.edits
    BY <1>1, <1>4
  <2>2. draft'.revision <= draft'.revision
    BY <1>3
  <2> QED BY <2>1, <2>2 DEF DetailsFit
<1>9. ToldOrDue'
  BY <1>1, <1>3 DEF ToldOrDue
<1>10. Uncreated'
  BY <1>1 DEF Uncreated
<1> QED BY <1>6, <1>7, <1>8, <1>9, <1>10 DEF DInv

LEMMA AnswerKeeps ==
  ASSUME DInv, NEW w \in Worker, Answer(w)
  PROVE  DInv'
<1> DEFINE j == job[w]
           n == IF Shows(j) /\ Told(j) > announced THEN Told(j) ELSE announced
<1>1. /\ j \in Job /\ j.pc = "answer" /\ JobFits(j)
      /\ announced' = n /\ UNCHANGED <<rows, sent, asked, served>>
      /\ job' = [job EXCEPT ![w] = Idle]
  BY DEF Answer, DInv, TypeOK
<1>2. announced \in 0 .. MaxRevision /\ announced \in Nat /\ MaxRevision \in Nat
  BY BoundAssumption DEF DInv, TypeOK
<1>3. Shows(j) => Told(j) \in 0 .. MaxRevision
  <2>1. CASE j.req.kind = "update"
    <3>1. j.row \in DraftRow /\ j.row.revision < MaxRevision
      BY <1>1, <2>1 DEF JobFits, Updating
    <3>2. j.row.revision \in Nat
      BY <3>1, BoundAssumption DEF DraftRow, Revision
    <3> QED BY <1>2, <2>1, <3>1, <3>2 DEF Told
  <2>2. CASE j.req.kind # "update"
    <3>1. Shows(j) => draft \in DraftRow
      BY DEF Shows, DInv, TypeOK
    <3> QED BY <1>2, <2>2, <3>1 DEF Told, DraftRow, Revision
  <2> QED BY <2>1, <2>2
<1>4. n \in 0 .. MaxRevision /\ announced <= n /\ (Shows(j) => Told(j) <= n)
  BY <1>2, <1>3
<1>5. Updating(j) /\ draft # None => j.row.revision + 1 <= n
  BY <1>4 DEF Updating, Shows, Told
<1> HIDE DEF n
<1>6. job' \in [Worker -> Job] /\ job'[w] = Idle /\ \A v \in Worker \ {w} : job'[v] = job[v]
  BY <1>1, IdleFits DEF DInv, TypeOK
<1>7. draft' = draft /\ collab' = collab /\ comments' = comments
  BY <1>1 DEF rows
<1>8. TypeOK'
  BY <1>1, <1>4, <1>6, <1>7 DEF DInv, TypeOK
<1>9. JobFits(job[w])'
  BY <1>6, IdleFits DEF JobFits, Updating
<1>10. announced # 0
  BY <1>1, Created DEF Idle
<1> QED BY <1>1, <1>4, <1>5, <1>6, <1>7, <1>8, <1>9, <1>10, QuietStep

-----------------------------------------------------------------------------
(* The theorems.                                                           *)

LEMMA InitEstablishes == Init => DInv
<1> SUFFICES ASSUME Init PROVE DInv
  OBVIOUS
<1>1. draft = None /\ \A w \in Worker : job[w] = Idle
  BY DEF Init
<1>2. TypeOK
  BY IdleFits, BoundAssumption DEF Init, TypeOK, NoCollaborator, NoComment, Roles, Comments
<1>3. \A w \in Worker : JobFits(job[w])
  BY <1>1, IdleFits
<1> QED BY <1>1, <1>2, <1>3 DEF DInv, DetailsFit, ToldOrDue, Uncreated

LEMMA NextKeeps ==
  ASSUME DInv, [Next]_vars
  PROVE  DInv'
<1>1. CASE UNCHANGED vars
  BY <1>1 DEF vars, rows, DInv, TypeOK, JobFits, DetailsFit, ToldOrDue, Uncreated, Updating
<1>2. ASSUME NEW s \in Review, Create(s)
      PROVE  DInv'
  BY <1>2, CreateKeeps
<1>3. ASSUME NEW w \in Worker,
             \/ UpdateRequest(w) \/ DeleteRequest(w) \/ ShareRequest(w) \/ RoleRequest(w)
             \/ UnshareRequest(w) \/ CommentRequest(w) \/ MarkRequest(w)
             \/ ReadCollaborators(w) \/ ReadComments(w) \/ Commit(w) \/ Fail(w) \/ Answer(w)
      PROVE  DInv'
  BY <1>3, UpdateRequestKeeps, RequestsKeep, ReadCollaboratorsKeeps, ReadCommentsKeeps, CommitKeeps,
     FailKeeps, AnswerKeeps
<1> QED BY <1>1, <1>2, <1>3 DEF Next

\* The inductive invariant holds in every state.
THEOREM Invariance == Spec => []DInv
<1>1. DInv /\ [Next]_vars => DInv'
  BY NextKeeps
<1> QED BY <1>1, InitEstablishes, PTL DEF Spec

\* The rows are of their types, and two details of one revision that drafts.py
\* served have the same edits, unless two updates overlapped meanwhile.
THEOREM RevisionsNameContents == Spec => []Consistent
<1>1. DInv => Consistent
  BY DEF DInv, DetailsFit, Consistent, RevisionNamesContent
<1> QED BY <1>1, Invariance, PTL

\* When no request is at work, the latest revision of the draft has been broadcast:
\* the route of an update announces the revision that its flush has written.
THEOREM RevisionsTold == Spec => []RevisionAnnounced
<1>1. DInv => RevisionAnnounced
  <2> SUFFICES ASSUME DInv, \A w \in Worker : job[w] = Idle, draft # None
               PROVE  draft.revision <= announced
    BY DEF RevisionAnnounced
  <2>1. \A w \in Worker : ~ Updating(job[w])
    BY DEF Updating, Idle
  <2> QED BY <2>1 DEF DInv, ToldOrDue
<1> QED BY <1>1, Invariance, PTL

\* A draft that stays and changes was changed by the commit of an update.
LEMMA ChangedByAnUpdate ==
  ASSUME DInv, Next, draft # None, draft' # None, draft' # draft
  PROVE  \E w \in Worker :
            job[w].pc = "commit" /\ job[w].req.kind = "update" /\ Save(w, job[w])
<1>1. \A s \in Review : ~ Create(s)
  BY DEF Create, DInv, Uncreated
<1>2. \A w \in Worker :
        ~ (\/ UpdateRequest(w) \/ DeleteRequest(w) \/ ShareRequest(w) \/ RoleRequest(w)
           \/ UnshareRequest(w) \/ CommentRequest(w) \/ MarkRequest(w)
           \/ ReadCollaborators(w) \/ ReadComments(w) \/ Fail(w) \/ Answer(w))
  BY DEF UpdateRequest, DeleteRequest, ShareRequest, RoleRequest, UnshareRequest, CommentRequest, MarkRequest,
         Plain, Begin, ReadCollaborators, ReadComments, Fail, Answer, rows
<1>3. PICK w \in Worker : Commit(w)
  BY <1>1, <1>2 DEF Next
<1> QED BY <1>3 DEF Commit, Erase

\* The job of an update that commits is answered next.
LEMMA SaveCommits ==
  ASSUME DInv, NEW w \in Worker, job[w].pc = "commit", Save(w, job[w])
  PROVE  Committing(w)
<1>1. job[w] \in Job /\ job[w].pc # "idle"
  BY DEF DInv, TypeOK
<1>2. job'[w] = [job[w] EXCEPT !.pc = "answer"]
  BY DEF Save
<1>3. job'[w].pc = "answer"
  BY <1>1, <1>2, JobMoves DEF Pc
<1> QED BY <1>3 DEF Committing

\* An update that drops an edit which it was not asked to drop overlapped with
\* another: otherwise the check of the base revision (drafts.py:241) refuses it.
THEOREM EditsKept == Spec => KeepsEdits
<1>1. ASSUME DInv, Next
      PROVE  DropsRacedOnly
  <2> SUFFICES ASSUME draft # None, draft' # None, ~ (draft.edits \subseteq draft'.edits)
               PROVE  \E w \in Worker : Committing(w) /\ job[w].raced
    BY DEF DropsRacedOnly
  <2>1. PICK w \in Worker : job[w].pc = "commit" /\ job[w].req.kind = "update" /\ Save(w, job[w])
    BY <1>1, ChangedByAnUpdate
  <2>2. job[w].req.state # None /\ draft'.edits = job[w].req.state
    BY <1>1, <2>1, SaveFields
  <2>3. job[w].raced
    <3>1. job[w].raced \in BOOLEAN /\ JobFits(job[w])
      BY <1>1, <2>1, JobType DEF DInv, TypeOK
    <3>2. ~ job[w].raced => job[w].row = draft /\ job[w].row.edits \subseteq job[w].req.state
      BY <2>1, <2>2, <3>1 DEF JobFits, Updating
    <3> QED BY <2>2, <3>1, <3>2
  <2>4. Committing(w)
    BY <1>1, <2>1, SaveCommits
  <2> QED BY <2>3, <2>4
<1>2. DInv /\ [Next]_vars => [DropsRacedOnly]_vars
  BY <1>1
<1> QED BY <1>2, Invariance, PTL DEF Spec, KeepsEdits

\* A draft is approved by an update that read no open comment, so over an open one
\* only when that comment was opened after the read (update_draft in drafts.py).
THEOREM ApprovalsSawNoComment == Spec => ApprovedOverLateCommentsOnly
<1>1. ASSUME DInv, Next
      PROVE  ApprovesWhatItRead
  <2> SUFFICES ASSUME draft # None, draft' # None, draft.review # "approved", draft'.review = "approved"
               PROVE  \E w \in Worker : Committing(w) /\ job[w].open = {}
    BY DEF ApprovesWhatItRead
  <2>1. PICK w \in Worker : job[w].pc = "commit" /\ job[w].req.kind = "update" /\ Save(w, job[w])
    BY <1>1, ChangedByAnUpdate
  <2>2. job[w].req.review = "approved"
    <3>1. draft'.review \in {draft.review, job[w].req.review}
      BY <1>1, <2>1, SaveFields
    <3> QED BY <3>1
  <2>3. job[w].open = {}
    BY <1>1, <2>1, <2>2 DEF DInv, JobFits, Updating
  <2>4. Committing(w)
    BY <1>1, <2>1, SaveCommits
  <2> QED BY <2>3, <2>4
<1>2. DInv /\ [Next]_vars => [ApprovesWhatItRead]_vars
  BY <1>1
<1> QED BY <1>2, Invariance, PTL DEF Spec, ApprovedOverLateCommentsOnly

-----------------------------------------------------------------------------
(* Papers, questions and the cache: the inductive invariant.               *)

PaperWork == [pc: {"links", "names", "resolve", "flush", "expand"}, req: PaperRequest,
              base: Entity, old: Links, raced: BOOLEAN]
ListedWork == [pc: {"listed"}, questions: SeqOf(Question, MaxOrder)]
WriteWork == [pc: {"write"}, req: QuestionRequest]
LoadWork == [pc: {"store"}, found: SUBSET Question, raced: BOOLEAN]

\* What a request about the paper may rely on.  The numbers it keeps are unique.
\* One that no save and no deletion overlapped has read what is there, and asks
\* for a change that the paper admits; one that has resolved the questions may
\* refer to each of them.  The links that have stayed as they were since an
\* export began are still there, and it has read them.  Wanted is the entity that
\* the request asks for, TitleToBe the title its save leaves.
Wanted(j) == Changed(j.req, [title |-> paper, links |-> links])
TitleToBe(j) == IF j.base.title = Null THEN paper ELSE j.base.title
RequestFits(j) ==
    OnPaper(j) =>
      /\ paper # Null
      /\ Unique(j.base.links)
      /\ j.pc \in {"resolve", "flush"} => j.req.kind # "export"
      /\ j.pc = "expand" => j.req.kind = "export"
      /\ ~ Exporting(j) /\ ~ j.raced =>
           /\ j.pc \in {"links", "names"} => j.base.title = paper
           /\ j.pc = "names" => j.base.links = links
           /\ j.pc \in {"resolve", "flush"} => Admits(j.req, links)
           /\ j.pc = "resolve" => j.base = Wanted(j)
           /\ j.pc = "flush" => TitleToBe(j) = Wanted(j).title /\ j.base.links = Wanted(j).links
           /\ j.pc = "flush" => j.old = links /\ In(j.base.links) \subseteq exists
      /\ Exporting(j) =>
           \A q \in In(j.old) : /\ links[q] = j.old[q]
                                /\ j.pc # "links" => j.base.links[q] = j.old[q]

\* A load of the metadata that no write overlapped has found every question.
LoadFits(j) == Loading(j) /\ ~ j.raced => j.found = exists

PInv ==
    /\ PapersTypeOK
    /\ LinksExist
    /\ CacheTrueUnlessUnsure
    /\ \A w \in Thread : RequestFits(work[w]) /\ LoadFits(work[w])

-----------------------------------------------------------------------------
(* The order of an export.                                                 *)

\* The links of a paper are as many as its numbers, so finitely many.
LEMMA LinksFinite ==
  ASSUME NEW k \in Links, Unique(k)
  PROVE  IsFiniteSet(In(k)) /\ Cardinality(In(k)) \in Nat /\ Cardinality(In(k)) <= MaxOrder
<1> DEFINE f == [q \in In(k) |-> k[q]]
<1>1. f \in Injection(In(k), Order)
  BY DEF Injection, IsInjective, Links, In, Unique
<1>2. IsFiniteSet(Order) /\ Cardinality(Order) = MaxOrder
  <2>1. 1 \in Int /\ MaxOrder \in Int /\ MaxOrder \in Nat
    BY MaxOrderAssumption
  <2> QED BY <2>1, FS_Interval DEF Order
<1> HIDE DEF f
<1>3. IsFiniteSet(In(k)) /\ Cardinality(In(k)) <= MaxOrder
  BY <1>1, <1>2, FS_Injection
<1> QED BY <1>3, FS_CardinalityType

\* Before is a strict total order on the questions of a paper.
LEMMA BeforeOrder ==
  ASSUME NEW k \in Links, Unique(k), NEW by, NEW type \in [Question -> 1..2],
         NEW p \in In(k), NEW q \in In(k), NEW r \in In(k)
  PROVE  /\ ~ Before(k, by, type, p, p)
         /\ Before(k, by, type, p, q) /\ Before(k, by, type, q, r) => Before(k, by, type, p, r)
         /\ p # q => Before(k, by, type, p, q) \/ Before(k, by, type, q, p)
<1>1. k[p] \in Nat /\ k[q] \in Nat /\ k[r] \in Nat
  BY DEF In, Links, Order
<1>2. type[p] \in Nat /\ type[q] \in Nat /\ type[r] \in Nat
  BY DEF In
<1>3. p # q => k[p] # k[q]
  BY DEF Unique
<1> QED BY <1>1, <1>2, <1>3 DEF Before

\* The rank of a question is one more than the number of those before it.  Ranks
\* tell the questions apart, so each number up to their count is one's rank.
LEMMA SortedExists ==
  ASSUME NEW k \in Links, Unique(k), NEW by, NEW type \in [Question -> 1..2]
  PROVE  \E list \in SetToSeqs(In(k)) :
            \A i, j \in DOMAIN list : i < j => Before(k, by, type, list[i], list[j])
<1> DEFINE S == In(k)
           n == Cardinality(S)
           Less(p, q) == Before(k, by, type, p, q)
           below(p) == {x \in S : Less(x, p)}
           rank == [p \in S |-> Cardinality(below(p)) + 1]
<1>1. IsFiniteSet(S) /\ n \in Nat
  BY LinksFinite
<1>2. \A p, q, r \in S : /\ ~ Less(p, p)
                         /\ Less(p, q) /\ Less(q, r) => Less(p, r)
                         /\ p # q => Less(p, q) \/ Less(q, p)
  <2> SUFFICES ASSUME NEW p \in In(k), NEW q \in In(k), NEW r \in In(k)
               PROVE  /\ ~ Before(k, by, type, p, p)
                      /\ Before(k, by, type, p, q) /\ Before(k, by, type, q, r)
                           => Before(k, by, type, p, r)
                      /\ p # q => Before(k, by, type, p, q) \/ Before(k, by, type, q, p)
    OBVIOUS
  <2> QED BY BeforeOrder
<1> HIDE DEF S, n, Less
<1>3. ASSUME NEW p \in S
      PROVE  IsFiniteSet(below(p)) /\ Cardinality(below(p)) \in Nat /\ Cardinality(below(p)) < n
  <2>1. below(p) \in SUBSET S /\ below(p) \in SUBSET (S \ {p})
    BY <1>2
  <2>2. IsFiniteSet(S \ {p}) /\ Cardinality(S \ {p}) = n - 1
    BY <1>1, FS_RemoveElement DEF n
  <2> HIDE DEF below
  <2>3. IsFiniteSet(below(p)) /\ Cardinality(below(p)) <= n - 1
    BY <2>1, <2>2, FS_Subset
  <2>4. Cardinality(below(p)) \in Nat
    BY <2>3, FS_CardinalityType
  <2> QED BY <1>1, <2>3, <2>4
<1>4. ASSUME NEW p \in S, NEW q \in S, Less(p, q) PROVE Cardinality(below(p)) < Cardinality(below(q))
  <2>1. below(p) \cup {p} \in SUBSET below(q) /\ p \notin below(p)
    BY <1>2, <1>4
  <2> HIDE DEF below
  <2>2. Cardinality(below(p) \cup {p}) = Cardinality(below(p)) + 1
    BY <1>3, <2>1, FS_AddElement
  <2>3. Cardinality(below(p) \cup {p}) <= Cardinality(below(q))
    BY <1>3, <2>1, FS_Subset
  <2> QED BY <1>3, <2>2, <2>3
<1> HIDE DEF below
<1>5. \A p, q \in S : Less(p, q) => rank[p] < rank[q]
  BY <1>3, <1>4
<1>6. rank \in [S -> 1..n]
  BY <1>1, <1>3
<1> HIDE DEF rank
<1>7. rank \in Injection(S, 1..n)
  <2>1. ASSUME NEW p \in S, NEW q \in S, p # q PROVE rank[p] # rank[q]
    <3>1. rank[p] \in Nat /\ rank[q] \in Nat
      BY <1>6
    <3> QED BY <1>2, <1>5, <2>1, <3>1
  <2> QED BY <1>6, <2>1 DEF Injection, IsInjective
<1>8. rank \in Surjection(S, 1..n)
  <2>1. IsFiniteSet(1..n) /\ Cardinality(1..n) = n
    <3>1. 1 \in Int /\ n \in Int
      BY <1>1
    <3> QED BY <1>1, <3>1, FS_Interval
  <2> QED BY <1>1, <1>7, <2>1, FS_Injection DEF n
<1>9. \A i \in 1..n : \E p \in S : rank[p] = i
  BY <1>8 DEF Surjection
<1> DEFINE list == [i \in 1..n |-> CHOOSE p \in S : rank[p] = i]
<1>10. \A i \in 1..n : list[i] \in S /\ rank[list[i]] = i
  BY <1>9
<1>11. list \in [1..n -> S] /\ DOMAIN list = 1..n
  BY <1>9
<1> HIDE DEF list
<1>12. list \in SetToSeqs(S)
  BY <1>10, <1>11 DEF SetToSeqs, n
<1>13. ASSUME NEW i \in 1..n, NEW j \in 1..n, i < j PROVE Less(list[i], list[j])
  <2>1. list[i] # list[j] /\ list[i] \in S /\ list[j] \in S
    BY <1>10, <1>13
  <2>2. ~ Less(list[j], list[i])
    <3>1. rank[list[i]] = i /\ rank[list[j]] = j
      BY <1>10
    <3>2. ~ (rank[list[j]] < rank[list[i]])
      BY <1>13, <3>1
    <3> QED BY <1>5, <2>1, <3>2
  <2> QED BY <1>2, <2>1, <2>2
<1> QED BY <1>11, <1>12, <1>13 DEF S, Less

\* A listing has every question of the paper once, in order.
LEMMA ListingProperty ==
  ASSUME NEW k \in Links, Unique(k), NEW by, NEW type \in [Question -> 1..2]
  PROVE  LET list == Listing(k, by, type) IN
         /\ list \in SeqOf(Question, MaxOrder)
         /\ list \in [DOMAIN list -> In(k)] /\ DOMAIN list \in SUBSET Nat
         /\ IsInjective(list)
         /\ ToSet(list) = In(k)
         /\ \A i, j \in DOMAIN list : i < j => Before(k, by, type, list[i], list[j])
<1> DEFINE list == Listing(k, by, type)
           n == Cardinality(In(k))
<1>1. /\ list \in SetToSeqs(In(k))
      /\ \A i, j \in DOMAIN list : i < j => Before(k, by, type, list[i], list[j])
  BY SortedExists DEF Listing
<1>2. IsFiniteSet(In(k)) /\ n \in Nat /\ n <= MaxOrder
  BY LinksFinite
<1> HIDE DEF list
<1>3. list \in [1..n -> In(k)] /\ DOMAIN list = 1..n /\ \A i, j \in 1..n : i # j => list[i] # list[j]
  BY <1>1 DEF SetToSeqs
<1> HIDE DEF n
<1>4. list \in Injection(1..n, In(k)) /\ IsInjective(list)
  BY <1>3 DEF Injection, IsInjective
<1>5. list \in Surjection(1..n, In(k))
  <2>1. IsFiniteSet(1..n) /\ Cardinality(1..n) = n
    <3>1. 1 \in Int /\ n \in Int
      BY <1>2
    <3> QED BY <1>2, <3>1, FS_Interval
  <2> QED BY <1>2, <1>4, <2>1, FS_Injection DEF n
<1>6. ToSet(list) = In(k)
  BY <1>3, <1>5 DEF ToSet, Surjection
<1>7. list \in SeqOf(Question, MaxOrder)
  <2>1. In(k) \subseteq Question /\ n \in 0..MaxOrder
    BY <1>2, MaxOrderAssumption DEF In
  <2>2. list \in [1..n -> Question]
    BY <1>3, <2>1
  <2> QED BY <2>1, <2>2 DEF SeqOf
<1>8. DOMAIN list \in SUBSET Nat /\ list \in [DOMAIN list -> In(k)]
  BY <1>2, <1>3
<1> QED BY <1>1, <1>4, <1>6, <1>7, <1>8 DEF list

-----------------------------------------------------------------------------
(* The types of what requests hold.                                        *)

LEMMA WorkForms ==
  ASSUME NEW j \in Work
  PROVE  /\ OnPaper(j) => j \in PaperWork
         /\ j.pc = "listed" => j \in ListedWork
         /\ j.pc = "write" => j \in WriteWork
         /\ Loading(j) => j \in LoadWork
BY DEF Work, OnPaper, Loading, PaperWork, ListedWork, WriteWork, LoadWork, NoWork, Invalidating

LEMMA WorkTypes ==
  /\ NoWork \in Work /\ Invalidating \in Work
  /\ PaperWork \subseteq Work /\ ListedWork \subseteq Work
  /\ WriteWork \subseteq Work /\ LoadWork \subseteq Work
  /\ ~ OnPaper(NoWork) /\ ~ Loading(NoWork) /\ ~ OnPaper(Invalidating) /\ ~ Loading(Invalidating)
  /\ NoWork.pc = "idle" /\ Invalidating.pc = "invalidate"
BY DEF Work, PaperWork, ListedWork, WriteWork, LoadWork, NoWork, Invalidating, OnPaper, Loading

\* The request of an entity, and what it makes of it.
LEMMA RequestForms ==
  ASSUME NEW q \in PaperRequest
  PROVE  /\ q.kind \in {"rename", "add", "remove", "reorder", "replace", "export"}
         /\ q.kind = "rename" => q.title \in Title
         /\ q.kind = "add" => q.question \in Question /\ q.order \in Order
         /\ q.kind = "remove" => q.question \in Question
         /\ q.kind \in {"reorder", "replace"} => q.links \in Links /\ Unique(q.links)
BY DEF PaperRequest

\* The changed entity is one, and its numbers are unique.
LEMMA ChangedType ==
  ASSUME NEW q \in PaperRequest, q.kind # "export", NEW e \in Entity, Unique(e.links),
         Admits(q, e.links)
  PROVE  Changed(q, e) \in Entity /\ Unique(Changed(q, e).links)
<1>1. e.title \in Title \cup {Null} /\ e.links \in Links
  BY DEF Entity
<1> DEFINE f == Changed(q, e)
<1>2. CASE q.kind = "rename"
  <2>1. f = [title |-> q.title, links |-> e.links]
    BY <1>2 DEF Changed
  <2> HIDE DEF f
  <2>2. f \in Entity /\ Unique(f.links)
    BY <1>1, <1>2, <2>1, RequestForms DEF Entity
  <2> QED BY <2>2 DEF f
<1>3. CASE q.kind = "add"
  <2>1. f = [title |-> e.title, links |-> [e.links EXCEPT ![q.question] = q.order]]
    BY <1>3 DEF Changed
  <2>2. q.question \in Question /\ q.order \in Order
    BY <1>3, RequestForms
  <2>3. \A p \in In(e.links) : e.links[p] # q.order
    BY <1>3 DEF Admits
  <2> HIDE DEF f
  <2>4. f.links \in Links /\ f \in Entity
    BY <1>1, <2>1, <2>2 DEF Entity, Links
  <2>5. Unique(f.links)
    <3>1. \A p \in Question : f.links[p] = IF p = q.question THEN q.order ELSE e.links[p]
      BY <1>1, <2>1, <2>2 DEF Links
    <3> DEFINE x == q.question
               m == q.order
               k == e.links
               g == f.links
    <3>2. /\ \A p, r \in In(k) : p # r => k[p] # k[r]
          /\ \A p \in In(k) : k[p] # m
      BY <2>3 DEF Unique
    <3>3. \A p \in Question : g[p] = IF p = x THEN m ELSE k[p]
      BY <3>1
    <3> HIDE DEF x, m, k, g
    <3>4. \A p, r \in In(g) : p # r => g[p] # g[r]
      BY <3>2, <3>3 DEF In
    <3> QED BY <3>4 DEF Unique, g
  <2> QED BY <2>4, <2>5 DEF f
<1>4. CASE q.kind = "remove"
  <2>1. f = [title |-> e.title, links |-> [e.links EXCEPT ![q.question] = Null]]
    BY <1>4 DEF Changed
  <2>2. q.question \in Question
    BY <1>4, RequestForms
  <2> HIDE DEF f
  <2>4. f.links \in Links /\ f \in Entity
    BY <1>1, <2>1, <2>2 DEF Entity, Links
  <2>5. Unique(f.links)
    <3>1. \A p \in Question : f.links[p] = IF p = q.question THEN Null ELSE e.links[p]
      BY <1>1, <2>1, <2>2 DEF Links
    <3> DEFINE x == q.question
               k == e.links
               g == f.links
    <3>2. \A p, r \in In(k) : p # r => k[p] # k[r]
      BY DEF Unique
    <3>3. \A p \in Question : g[p] = IF p = x THEN Null ELSE k[p]
      BY <3>1
    <3> HIDE DEF x, k, g
    <3>4. \A p, r \in In(g) : p # r => g[p] # g[r]
      BY <3>2, <3>3 DEF In
    <3> QED BY <3>4 DEF Unique, g
  <2> QED BY <2>4, <2>5 DEF f
<1>5. CASE q.kind \in {"reorder", "replace"}
  <2>1. f = [title |-> e.title, links |-> q.links]
    BY <1>5 DEF Changed
  <2> HIDE DEF f
  <2>2. f \in Entity /\ Unique(f.links)
    BY <1>1, <1>5, <2>1, RequestForms DEF Entity
  <2> QED BY <2>2 DEF f
<1> QED BY <1>2, <1>3, <1>4, <1>5, RequestForms

\* A commit that overtakes others marks them and leaves the rest of their work.
LEMMA OvertakingType ==
  ASSUME NEW w \in Thread, NEW j \in Work, NEW a \in BOOLEAN, NEW b \in BOOLEAN,
         PapersTypeOK, Overtaking(w, j, a, b)
  PROVE  /\ work' \in [Thread -> Work] /\ work'[w] = j
         /\ \A v \in Thread : v # w => work'[v].pc = work[v].pc
<1>1. work'[w] = j /\ DOMAIN work' = Thread
  BY DEF Overtaking
<1>2. ASSUME NEW v \in Thread, v # w PROVE work'[v] \in Work /\ work'[v].pc = work[v].pc
  <2>1. work[v] \in Work
    BY DEF PapersTypeOK
  <2>2. CASE a /\ Exporting(work[v])
    <3>1. work'[v] = [work[v] EXCEPT !.old = [q \in Question |->
                        IF work[v].old[q] = links'[q] THEN work[v].old[q] ELSE Null]]
      BY <1>2, <2>2 DEF Overtaking
    <3>2. work[v] \in PaperWork
      BY <2>1, <2>2, WorkForms DEF Exporting
    <3>3. work[v].old \in Links
      BY <3>2 DEF PaperWork
    <3>4. [q \in Question |-> IF work[v].old[q] = links'[q] THEN work[v].old[q] ELSE Null] \in Links
      BY <3>3 DEF Links
    <3>5. work'[v] \in PaperWork /\ work'[v].pc = work[v].pc
      BY <3>1, <3>2, <3>4 DEF PaperWork
    <3> QED BY <3>5, WorkTypes
  <2>3. CASE (a /\ OnPaper(work[v]) /\ ~ Exporting(work[v])) \/ (b /\ Loading(work[v]))
    <3>1. work'[v] = [work[v] EXCEPT !.raced = TRUE]
      BY <1>2, <2>3 DEF Overtaking, OnPaper, Exporting, Loading
    <3>2. work[v] \in PaperWork \/ work[v] \in LoadWork
      BY <2>1, <2>3, WorkForms
    <3>3. (work'[v] \in PaperWork \/ work'[v] \in LoadWork) /\ work'[v].pc = work[v].pc
      BY <3>1, <3>2 DEF PaperWork, LoadWork
    <3> QED BY <3>3, WorkTypes
  <2>4. CASE ~ (a /\ OnPaper(work[v])) /\ ~ (b /\ Loading(work[v]))
    BY <1>2, <2>1, <2>4 DEF Overtaking, Exporting
  <2> QED BY <2>2, <2>3, <2>4
<1>3. \A v \in Thread : work'[v] \in Work
  BY <1>1, <1>2
<1>4. work' = [v \in Thread |-> work'[v]]
  BY DEF Overtaking
<1> QED BY <1>1, <1>2, <1>3, <1>4

-----------------------------------------------------------------------------
(* The requests of the other threads.                                      *)

\* What a commit owes to those it does not overtake: the paper and its links stay
\* and no question goes, and the questions stay.
LEMMA OthersFit ==
  ASSUME PInv, NEW w \in Thread, NEW j \in Work, NEW a \in BOOLEAN, NEW b \in BOOLEAN,
         Overtaking(w, j, a, b), 
         paper # Null => paper' # Null,
         ~ a => UNCHANGED <<paper, links>> /\ exists \subseteq exists',
         ~ b => exists' = exists,
         NEW v \in Thread, v # w
  PROVE  RequestFits(work[v])' /\ LoadFits(work[v])'
<1>1. PapersTypeOK /\ work[v] \in Work /\ RequestFits(work[v]) /\ LoadFits(work[v])
  BY DEF PInv, PapersTypeOK
<1>2. CASE a /\ Exporting(work[v])
  <2> DEFINE j0 == work[v]
             old == [q \in Question |-> IF j0.old[q] = links'[q] THEN j0.old[q] ELSE Null]
  <2>1. j0 \in PaperWork /\ OnPaper(j0)
    BY <1>1, <1>2, WorkForms DEF Exporting
  <2>2. work'[v] = [j0 EXCEPT !.old = old]
    BY <1>2 DEF Overtaking, j0, old
  <2> HIDE DEF old
  <2>3. /\ work'[v].pc = j0.pc /\ work'[v].req = j0.req /\ work'[v].base = j0.base
        /\ work'[v].raced = j0.raced /\ work'[v].old = old
    BY <2>1, <2>2 DEF PaperWork
  <2>4. \A q \in In(old) : q \in In(j0.old) /\ old[q] = j0.old[q] /\ links'[q] = old[q]
    BY DEF old, In
  <2>5. Exporting(work'[v]) /\ ~ Loading(work'[v])
    BY <1>2, <2>1, <2>3 DEF Exporting, OnPaper, Loading
  <2> HIDE DEF j0
  <2> QED BY <1>1, <1>2, <2>1, <2>3, <2>4, <2>5 DEF RequestFits, LoadFits, Exporting, j0
<1>3. CASE (a /\ OnPaper(work[v]) /\ ~ Exporting(work[v])) \/ (b /\ Loading(work[v]))
  <2>1. work'[v] = [work[v] EXCEPT !.raced = TRUE]
    BY <1>3 DEF Overtaking, OnPaper, Exporting, Loading
  <2>2. CASE a /\ OnPaper(work[v]) /\ ~ Exporting(work[v])
    <3>1. work[v] \in PaperWork
      BY <1>1, <2>2, WorkForms
    <3>2. /\ work'[v].pc = work[v].pc /\ work'[v].req = work[v].req /\ work'[v].base = work[v].base
          /\ work'[v].raced = TRUE
      BY <2>1, <3>1 DEF PaperWork
    <3> QED BY <1>1, <2>2, <3>2 DEF RequestFits, LoadFits, Exporting, OnPaper, Loading
  <2>3. CASE b /\ Loading(work[v])
    <3>1. work[v] \in LoadWork
      BY <1>1, <2>3, WorkForms
    <3>2. work'[v].pc = work[v].pc /\ work'[v].raced = TRUE
      BY <2>1, <3>1 DEF LoadWork
    <3> QED BY <2>3, <3>2 DEF RequestFits, LoadFits, OnPaper, Loading
  <2> QED BY <1>3, <2>2, <2>3
<1>4. CASE ~ (a /\ OnPaper(work[v])) /\ ~ (b /\ Loading(work[v]))
  <2>1. work'[v] = work[v]
    BY <1>4 DEF Overtaking, Exporting
  <2>2. LoadFits(work[v])'
    BY <1>1, <1>4, <2>1 DEF LoadFits
  <2>3. RequestFits(work[v])'
    <3>1. CASE ~ OnPaper(work[v])
      BY <2>1, <3>1 DEF RequestFits, Wanted, TitleToBe
    <3>2. CASE ~ a
      BY <1>1, <2>1, <3>2 DEF RequestFits, Wanted, TitleToBe
    <3> QED BY <1>4, <3>1, <3>2
  <2> QED BY <2>2, <2>3
<1> QED BY <1>2, <1>3, <1>4

-----------------------------------------------------------------------------
(* The steps that write no row.                                            *)

LEMMA LocalStep ==
  ASSUME PInv, NEW w \in Thread, NEW x \in Work,
         UNCHANGED <<tables, cached, unsure>>, work' = [work EXCEPT ![w] = x],
         work[w].pc # "invalidate", RequestFits(x), LoadFits(x)
  PROVE  PInv'
<1>1. /\ PapersTypeOK /\ LinksExist /\ CacheTrueUnlessUnsure
      /\ work \in [Thread -> Work]
      /\ UNCHANGED <<exists, paper, links, cached, unsure>>
  BY DEF PInv, PapersTypeOK, tables
<1>2. /\ work'[w] = x /\ work' \in [Thread -> Work]
      /\ \A v \in Thread : v # w => work'[v] = work[v]
  BY <1>1
<1>3. PapersTypeOK' /\ LinksExist'
  BY <1>1, <1>2 DEF PapersTypeOK, LinksExist
<1>4. CacheTrueUnlessUnsure'
  BY <1>1, <1>2 DEF CacheTrueUnlessUnsure
<1>5. RequestFits(x)' /\ LoadFits(x)'
  BY <1>1 DEF RequestFits, Wanted, TitleToBe, LoadFits
<1>6. ASSUME NEW v \in Thread PROVE RequestFits(work[v])' /\ LoadFits(work[v])'
  <2>1. CASE v = w
    <3>1. work'[v] = x
      BY <1>2, <2>1
    <3> QED BY <1>5, <3>1 DEF RequestFits, LoadFits
  <2>2. CASE v # w
    <3>1. work'[v] = work[v] /\ RequestFits(work[v]) /\ LoadFits(work[v])
      BY <1>2, <2>2 DEF PInv
    <3> QED BY <1>1, <3>1 DEF RequestFits, Wanted, TitleToBe, LoadFits
  <2> QED BY <2>1, <2>2
<1> QED BY <1>3, <1>4, <1>6 DEF PInv

\* What a request has in hand.
LEMMA InHand ==
  ASSUME PInv, NEW w \in Thread, OnPaper(work[w])
  PROVE  /\ work \in [Thread -> Work] /\ work[w] \in PaperWork
         /\ work[w].req \in PaperRequest
         /\ work[w].base \in Entity /\ work[w].old \in Links /\ work[w].raced \in BOOLEAN
         /\ work[w].base.links \in Links /\ work[w].base.title \in Title \cup {Null}
         /\ Unique(work[w].base.links) /\ paper # Null
         /\ RequestFits(work[w])
         /\ links \in Links /\ Unique(links)
<1>1. work \in [Thread -> Work] /\ work[w] \in Work /\ links \in Links /\ Unique(links)
  BY DEF PInv, PapersTypeOK
<1>2. work[w] \in PaperWork /\ RequestFits(work[w])
  BY <1>1, WorkForms DEF PInv
<1> QED BY <1>1, <1>2 DEF PaperWork, Entity, RequestFits

LEMMA Idling ==
  ASSUME PInv, NEW w \in Thread, UNCHANGED <<tables, cached, unsure>>,
         work' = [work EXCEPT ![w] = NoWork], work[w].pc # "invalidate"
  PROVE  PInv'
<1>1. RequestFits(NoWork) /\ LoadFits(NoWork)
  BY WorkTypes DEF RequestFits, LoadFits
<1> QED BY <1>1, WorkTypes, LocalStep

LEMMA StartPaperStep ==
  ASSUME PInv, NEW w \in Thread, NEW q \in PaperRequest, StartPaper(w, q)
  PROVE  PInv'
<1> DEFINE x == [pc |-> "links", req |-> q, base |-> [title |-> paper, links |-> NoLink],
                 old |-> IF q.kind = "export" THEN links ELSE NoLink, raced |-> FALSE]
<1>1. /\ paper # Null /\ work[w] = NoWork /\ work' = [work EXCEPT ![w] = x]
      /\ UNCHANGED <<tables, cached, unsure>>
  BY DEF StartPaper
<1>2. paper \in Title /\ links \in Links /\ NoLink \in Links
  BY <1>1 DEF PInv, PapersTypeOK, NoLink, Links
<1>3. x \in PaperWork
  BY <1>2 DEF PaperWork, Entity
<1>4. Unique(NoLink)
  BY DEF Unique, In, NoLink
<1>5. /\ x.pc = "links" /\ x.req = q /\ x.base.links = NoLink /\ x.base.title = paper
      /\ x.raced = FALSE /\ (q.kind = "export" => x.old = links)
  OBVIOUS
<1> HIDE DEF x
<1>6. Exporting(x) => x.old = links
  BY <1>5 DEF Exporting
<1>7. RequestFits(x)
  BY <1>1, <1>4, <1>5, <1>6 DEF RequestFits
<1>8. LoadFits(x) /\ work[w].pc # "invalidate"
  BY <1>1, <1>5, WorkTypes DEF LoadFits, Loading
<1> QED BY <1>1, <1>3, <1>7, <1>8, WorkTypes, LocalStep

LEMMA ReadLinksStep ==
  ASSUME PInv, NEW w \in Thread, ReadLinks(w)
  PROVE  PInv'
<1> DEFINE j == work[w]
           x == [j EXCEPT !.pc = "names", !.base.links = links]
<1>1. /\ j.pc = "links" /\ OnPaper(j) /\ UNCHANGED <<tables, cached, unsure>>
      /\ work' = [work EXCEPT ![w].pc = "names", ![w].base.links = links]
  BY DEF ReadLinks, OnPaper
<1>2. /\ work \in [Thread -> Work] /\ j \in PaperWork /\ j.base \in Entity /\ RequestFits(j)
      /\ paper # Null /\ links \in Links /\ Unique(links)
  BY <1>1, InHand
<1>3. work' = [work EXCEPT ![w] = x]
  BY <1>1, <1>2
<1>4. x \in PaperWork
  BY <1>2 DEF PaperWork, Entity
<1>5. /\ x.pc = "names" /\ x.req = j.req /\ x.base.links = links /\ x.base.title = j.base.title
      /\ x.raced = j.raced /\ x.old = j.old
  BY <1>2 DEF PaperWork, Entity
<1> HIDE DEF x, j
<1>6. Exporting(x) <=> Exporting(j)
  BY <1>1, <1>5 DEF Exporting, OnPaper
<1>7. RequestFits(x)
  BY <1>1, <1>2, <1>5, <1>6 DEF RequestFits
<1>8. LoadFits(x) /\ work[w].pc # "invalidate"
  BY <1>1, <1>5 DEF LoadFits, Loading, j
<1> QED BY <1>1, <1>3, <1>4, <1>7, <1>8, WorkTypes, LocalStep

LEMMA ReadNamesStep ==
  ASSUME PInv, NEW w \in Thread, ReadNames(w)
  PROVE  PInv'
<1> DEFINE j == work[w]
           f == Changed(j.req, j.base)
           x == [j EXCEPT !.pc = "resolve", !.base = f]
<1>1. /\ j.pc = "names" /\ OnPaper(j) /\ ~ Exporting(j) /\ UNCHANGED <<tables, cached, unsure>>
      /\ \/ /\ Admits(j.req, j.base.links)
            /\ work' = [work EXCEPT ![w].pc = "resolve", ![w].base = f]
         \/ work' = [work EXCEPT ![w] = NoWork]
  BY DEF ReadNames, OnPaper
<1>2. CASE work' = [work EXCEPT ![w] = NoWork]
  BY <1>1, <1>2, Idling
<1>3. CASE Admits(j.req, j.base.links) /\ work' = [work EXCEPT ![w].pc = "resolve", ![w].base = f]
  <2>1. /\ work \in [Thread -> Work] /\ j \in PaperWork /\ j.base \in Entity /\ RequestFits(j)
        /\ paper # Null /\ Unique(j.base.links) /\ j.req \in PaperRequest
    BY <1>1, InHand
  <2>2. j.req.kind # "export"
    BY <1>1 DEF Exporting
  <2>3. f \in Entity /\ Unique(f.links)
    BY <1>3, <2>1, <2>2, ChangedType
  <2>4. ~ j.raced => j.base = [title |-> paper, links |-> links] /\ j.base.links = links
    <3>1. ~ j.raced => j.base.title = paper /\ j.base.links = links
      BY <1>1, <2>1 DEF RequestFits
    <3> QED BY <2>1, <3>1 DEF Entity
  <2> HIDE DEF f
  <2>5. work' = [work EXCEPT ![w] = x]
    BY <1>3, <2>1
  <2>6. x \in PaperWork
    BY <2>1, <2>3 DEF PaperWork
  <2>7. /\ x.pc = "resolve" /\ x.req = j.req /\ x.base = f /\ x.raced = j.raced
    BY <2>1 DEF PaperWork
  <2> HIDE DEF x, j
  <2>8. ~ j.raced => Admits(x.req, links) /\ x.base = Changed(x.req, [title |-> paper, links |-> links])
    BY <1>3, <2>4, <2>7 DEF f
  <2>9. RequestFits(x)
    BY <2>1, <2>2, <2>3, <2>7, <2>8 DEF RequestFits, Exporting, Wanted
  <2>10. LoadFits(x) /\ work[w].pc # "invalidate"
    BY <1>1, <2>7 DEF LoadFits, Loading, j
  <2> QED BY <1>1, <2>5, <2>6, <2>9, <2>10, WorkTypes, LocalStep
<1> QED BY <1>1, <1>2, <1>3

LEMMA ResolveStep ==
  ASSUME PInv, NEW w \in Thread, Resolve(w)
  PROVE  PInv'
<1> DEFINE j == work[w]
           t == IF j.base.title = paper THEN Null ELSE j.base.title
           x == [j EXCEPT !.pc = "flush", !.old = links, !.base.title = t]
<1>1. /\ j.pc = "resolve" /\ OnPaper(j) /\ UNCHANGED <<tables, cached, unsure>>
      /\ \/ /\ In(j.base.links) \subseteq exists
            /\ work' = [work EXCEPT ![w].pc = "flush", ![w].old = links,
                                    ![w].base.title = IF @ = paper THEN Null ELSE @]
         \/ work' = [work EXCEPT ![w] = NoWork]
  BY DEF Resolve, OnPaper
<1>2. CASE work' = [work EXCEPT ![w] = NoWork]
  BY <1>1, <1>2, Idling
<1>3. CASE In(j.base.links) \subseteq exists
           /\ work' = [work EXCEPT ![w].pc = "flush", ![w].old = links,
                                   ![w].base.title = IF @ = paper THEN Null ELSE @]
  <2>1. /\ work \in [Thread -> Work] /\ j \in PaperWork /\ j.base \in Entity /\ RequestFits(j)
        /\ paper # Null /\ Unique(j.base.links) /\ links \in Links
    BY <1>1, InHand
  <2>2. j.req.kind # "export"
    BY <1>1, <2>1 DEF RequestFits
  <2>3. work' = [work EXCEPT ![w] = x]
    BY <1>3, <2>1
  <2>4. t \in Title \cup {Null} /\ x.base = [j.base EXCEPT !.title = t]
    BY <2>1 DEF PaperWork, Entity
  <2>5. /\ x.pc = "flush" /\ x.req = j.req /\ x.raced = j.raced /\ x.old = links
        /\ x.base.links = j.base.links /\ x.base.title = t
    BY <2>1 DEF PaperWork, Entity
  <2>6. x \in PaperWork
    BY <2>1, <2>4 DEF PaperWork, Entity
  <2> HIDE DEF x, j
  <2>7. j.base.title # Null => TitleToBe(x) = j.base.title
    BY <2>5 DEF TitleToBe, t
  <2>8. Wanted(j).title # Null /\ Wanted(x) = Wanted(j)
    <3>1. j.req.kind = "rename" => j.req.title # Null
      BY <1>1, InHand, RequestForms, NullAssumption DEF j
    <3> QED BY <2>1, <2>5, <3>1 DEF Wanted, Changed
  <2>9. ~ j.raced => TitleToBe(x) = Wanted(x).title /\ x.base.links = Wanted(x).links
    <3>1. ~ j.raced => j.base = Wanted(j)
      BY <1>1, <2>1, <2>2 DEF RequestFits, Exporting
    <3> QED BY <2>5, <2>7, <2>8, <3>1
  <2>10. RequestFits(x)
    BY <1>1, <1>3, <2>1, <2>2, <2>5, <2>9 DEF RequestFits, Exporting
  <2>11. LoadFits(x) /\ work[w].pc # "invalidate"
    BY <1>1, <2>5 DEF LoadFits, Loading, j
  <2> QED BY <1>1, <2>3, <2>6, <2>10, <2>11, WorkTypes, LocalStep
<1> QED BY <1>1, <1>2, <1>3

\* The links to questions that exist.
LEMMA ExistingType ==
  ASSUME NEW k \in Links, Unique(k)
  PROVE  Existing(k) \in Links /\ Unique(Existing(k)) /\ In(Existing(k)) = In(k) \cap exists
BY DEF Existing, Links, Unique, In

LEMMA ExportNamesStep ==
  ASSUME PInv, NEW w \in Thread, ExportNames(w)
  PROVE  PInv'
<1> DEFINE j == work[w]
           k == Existing(j.base.links)
           x == [j EXCEPT !.pc = "expand", !.base.links = k]
<1>1. /\ j.pc = "names" /\ Exporting(j) /\ OnPaper(j) /\ UNCHANGED <<tables, cached, unsure>>
      /\ work' = [work EXCEPT ![w].pc = "expand", ![w].base.links = Existing(@)]
  BY DEF ExportNames, Exporting
<1>2. /\ work \in [Thread -> Work] /\ j \in PaperWork /\ RequestFits(j) /\ j.base \in Entity
      /\ paper # Null /\ Unique(j.base.links) /\ j.base.links \in Links
      /\ LinksExist /\ j.old \in Links
  BY <1>1, InHand DEF PInv
<1>3. k \in Links /\ Unique(k)
  BY <1>2, ExistingType
<1>4. \A q \in In(j.old) : links[q] = j.old[q] /\ k[q] = j.old[q]
  <2>1. \A q \in In(j.old) : links[q] = j.old[q] /\ j.base.links[q] = j.old[q]
    BY <1>1, <1>2 DEF RequestFits
  <2>2. \A q \in In(j.old) : q \in exists /\ q \in Question
    BY <1>2, <2>1 DEF LinksExist, In
  <2> QED BY <2>1, <2>2 DEF Existing
<1>5. work' = [work EXCEPT ![w] = x]
  BY <1>1, <1>2
<1> HIDE DEF k
<1>6. x \in PaperWork
  BY <1>2, <1>3 DEF PaperWork, Entity
<1>7. /\ x.pc = "expand" /\ x.req = j.req /\ x.base.links = k /\ x.raced = j.raced /\ x.old = j.old
  BY <1>2 DEF PaperWork, Entity
<1> HIDE DEF x, j
<1>8. RequestFits(x)
  BY <1>1, <1>2, <1>3, <1>4, <1>7 DEF RequestFits, Exporting
<1>9. LoadFits(x) /\ work[w].pc # "invalidate"
  BY <1>1, <1>7 DEF LoadFits, Loading, j
<1> QED BY <1>1, <1>5, <1>6, <1>8, <1>9, WorkTypes, LocalStep

LEMMA ExpandStep ==
  ASSUME PInv, NEW w \in Thread, Expand(w)
  PROVE  PInv'
<1>1. OnPaper(work[w]) /\ work[w].pc = "expand" /\ UNCHANGED <<tables, cached, unsure>>
  BY DEF Expand, OnPaper
<1>2. PICK type \in [Question -> 1..2] :
         work' = [work EXCEPT ![w] =
                    [pc |-> "listed",
                     questions |-> Listing(Expanded(work[w].base.links), work[w].req.by, type)]]
  BY DEF Expand
<1>3. Expanded(work[w].base.links) \in Links /\ Unique(Expanded(work[w].base.links))
  BY <1>1, InHand, ExistingType DEF Expanded
<1> DEFINE list == Listing(Expanded(work[w].base.links), work[w].req.by, type)
           x == [pc |-> "listed", questions |-> list]
<1>4. list \in SeqOf(Question, MaxOrder)
  BY <1>3, ListingProperty
<1> HIDE DEF list
<1>5. x \in ListedWork /\ x.pc = "listed"
  BY <1>4 DEF ListedWork
<1>6. work' = [work EXCEPT ![w] = x]
  BY <1>2 DEF list
<1> HIDE DEF x
<1>7. RequestFits(x) /\ LoadFits(x)
  BY <1>5 DEF RequestFits, LoadFits, OnPaper, Loading
<1> QED BY <1>1, <1>5, <1>6, <1>7, WorkTypes, LocalStep

LEMMA QuestionReadStep ==
  ASSUME PInv, NEW w \in Thread,
         (\E q \in QuestionRequest : StartQuestion(w, q)) \/ LoadMetadata(w)
  PROVE  PInv'
<1>1. CASE \E q \in QuestionRequest : StartQuestion(w, q)
  <2>1. PICK q \in QuestionRequest : StartQuestion(w, q)
    BY <1>1
  <2> DEFINE x == [pc |-> "write", req |-> q]
  <2>2. x \in WriteWork /\ x.pc = "write"
    BY DEF WriteWork
  <2>3. work[w] = NoWork /\ work' = [work EXCEPT ![w] = x] /\ UNCHANGED <<tables, cached, unsure>>
    BY <2>1 DEF StartQuestion
  <2> HIDE DEF x
  <2>4. RequestFits(x) /\ LoadFits(x)
    BY <2>2 DEF RequestFits, LoadFits, OnPaper, Loading
  <2> QED BY <2>2, <2>3, <2>4, WorkTypes, LocalStep
<1>2. CASE LoadMetadata(w)
  <2> DEFINE x == [pc |-> "store", found |-> exists, raced |-> FALSE]
  <2>1. exists \subseteq Question
    BY DEF PInv, PapersTypeOK
  <2>2. x \in LoadWork /\ x.pc = "store" /\ x.found = exists
    BY <2>1 DEF LoadWork
  <2>3. work[w] = NoWork /\ work' = [work EXCEPT ![w] = x] /\ UNCHANGED <<tables, cached, unsure>>
    BY <1>2 DEF LoadMetadata
  <2> HIDE DEF x
  <2>4. RequestFits(x) /\ LoadFits(x)
    BY <2>2 DEF RequestFits, LoadFits, OnPaper
  <2> QED BY <2>2, <2>3, <2>4, WorkTypes, LocalStep
<1> QED BY <1>1, <1>2

LEMMA LetGoStep ==
  ASSUME PInv, NEW w \in Thread, AnswerExport(w) \/ RefusePaper(w) \/ DeleteTwice(w)
  PROVE  PInv'
BY Idling DEF AnswerExport, RefusePaper, DeleteTwice

-----------------------------------------------------------------------------
(* The steps that commit.                                                  *)

\* A commit of w that leaves the others fit, and whose own work is done, or left
\* to an invalidation.
LEMMA CommitStep ==
  ASSUME PInv, NEW w \in Thread, NEW j \in {NoWork, Invalidating},
         NEW a \in BOOLEAN, NEW b \in BOOLEAN, Overtaking(w, j, a, b),
         exists' \subseteq Question, paper' \in Title \cup {Null},
         links' \in Links, Unique(links'), LinksExist',
         UNCHANGED <<cached, unsure>>, work[w].pc # "invalidate",
         paper # Null => paper' # Null,
         ~ a => UNCHANGED <<paper, links>> /\ exists \subseteq exists',
         ~ b => exists' = exists,
         j = NoWork => exists' = exists
  PROVE  PInv'
<1>1. j \in Work /\ PapersTypeOK /\ CacheTrueUnlessUnsure
  BY WorkTypes DEF PInv
<1>2. /\ work' \in [Thread -> Work] /\ work'[w] = j
      /\ \A v \in Thread : v # w => work'[v].pc = work[v].pc
  BY <1>1, OvertakingType
<1>3. PapersTypeOK'
  BY <1>1, <1>2 DEF PapersTypeOK
<1>4. CacheTrueUnlessUnsure'
  <2>1. CASE j = NoWork
    BY <1>1, <1>2, <2>1 DEF CacheTrueUnlessUnsure
  <2>2. CASE j = Invalidating
    BY <1>2, <2>2, WorkTypes DEF CacheTrueUnlessUnsure
  <2> QED BY <2>1, <2>2
<1>5. ASSUME NEW v \in Thread PROVE RequestFits(work[v])' /\ LoadFits(work[v])'
  <2>1. CASE v = w
    <3>1. ~ OnPaper(work'[v]) /\ ~ Loading(work'[v])
      BY <1>2, <2>1, WorkTypes
    <3> QED BY <3>1 DEF RequestFits, LoadFits
  <2>2. CASE v # w
    BY <1>1, <2>2, OthersFit
  <2> QED BY <2>1, <2>2
<1> QED BY <1>3, <1>4, <1>5 DEF PInv

\* The links a save leaves.
LEMMA SavedLinks ==
  ASSUME PInv, NEW w \in Thread, SavePaper(w)
  PROVE  /\ links' \in Links
         /\ Unique(links')
         /\ In(links') \subseteq exists
<1> DEFINE j == work[w]
           base == j.base.links
           old == j.old
<1>1. /\ j.pc = "flush" /\ OnPaper(j) /\ ~ Stale(j) /\ ~ Refers(j) /\ ~ Taken(j)
      /\ links' = [q \in Question |-> IF base[q] # Null THEN base[q]
                                      ELSE IF old[q] # Null THEN Null ELSE links[q]]
  BY DEF SavePaper, OnPaper
<1>2. base \in Links /\ Unique(base) /\ links \in Links /\ Unique(links) /\ In(links) \subseteq exists
  BY <1>1, InHand DEF PInv, LinksExist
<1>3. links' \in Links
  BY <1>1, <1>2 DEF Links
<1>4. Updated(j) = In(old) \cap In(base) /\ Added(j) = In(base) \ Updated(j)
  BY DEF Updated, Added
<1>5. /\ Updated(j) \subseteq In(links) /\ Added(j) \subseteq exists
      /\ \A q \in Updated(j), p \in In(links) : 
            p # q /\ links[p] = base[q] => p \in Updated(j)
      /\ \A q \in Added(j), p \in In(links) \ Updated(j) : links[p] # base[q]
  BY <1>1 DEF Stale, Refers, Taken
<1> HIDE DEF base, old, j
<1>6. \A q \in Question : /\ q \in In(base) => links'[q] = base[q]
                          /\ q \notin In(base) /\ links'[q] # Null => links'[q] = links[q]
  BY <1>1 DEF In
<1>7. In(links') \subseteq exists
  <2> SUFFICES ASSUME NEW q \in Question, links'[q] # Null PROVE q \in exists
    BY DEF In
  <2>1. CASE q \in In(base)
    BY <1>2, <1>4, <1>5, <2>1
  <2>2. CASE q \notin In(base)
    BY <1>2, <1>6, <2>2 DEF In
  <2> QED BY <2>1, <2>2
<1>8. ASSUME NEW q \in In(base), NEW p \in Question \ In(base), links'[p] # Null
      PROVE  links'[p] # links'[q]
  <2>1. p \in In(links) /\ links'[p] = links[p] /\ links'[q] = base[q] /\ p # q
    BY <1>6, <1>8 DEF In
  <2>2. p \notin Updated(j)
    BY <1>4, <1>8
  <2>3. CASE q \in Updated(j)
    BY <1>5, <2>1, <2>2, <2>3
  <2>4. CASE q \in Added(j)
    BY <1>5, <2>1, <2>2, <2>4
  <2> QED BY <1>4, <2>3, <2>4
<1>9. Unique(links')
  <2> SUFFICES ASSUME NEW p \in In(links'), NEW q \in In(links'), p # q
               PROVE  links'[p] # links'[q]
    BY DEF Unique
  <2>1. p \in Question /\ q \in Question /\ links'[p] # Null /\ links'[q] # Null
    BY DEF In
  <2>2. CASE p \in In(base) /\ q \in In(base)
    BY <1>2, <1>6, <2>1, <2>2 DEF Unique
  <2>3. CASE p \notin In(base) /\ q \notin In(base)
    <3>1. /\ links'[p] = links[p] /\ links'[q] = links[q]
          /\ p \in In(links) /\ q \in In(links)
      BY <1>6, <2>1, <2>3 DEF In
    <3> QED BY <1>2, <3>1 DEF Unique
  <2>4. CASE p \in In(base) /\ q \notin In(base)
    BY <1>8, <2>1, <2>4
  <2>5. CASE p \notin In(base) /\ q \in In(base)
    BY <1>8, <2>1, <2>5
  <2> QED BY <2>2, <2>3, <2>4, <2>5
<1> QED BY <1>3, <1>7, <1>9

LEMMA SavePaperStep ==
  ASSUME PInv, NEW w \in Thread, SavePaper(w)
  PROVE  PInv'
<1>1. /\ OnPaper(work[w]) /\ work[w].pc = "flush" /\ Overtaking(w, NoWork, TRUE, FALSE)
      /\ paper' = IF work[w].base.title = Null THEN paper ELSE work[w].base.title
      /\ UNCHANGED <<exists, cached, unsure>>
  BY DEF SavePaper, OnPaper
<1>2. paper' \in Title
  BY <1>1, InHand DEF PInv, PapersTypeOK
<1>3. exists' \subseteq Question /\ LinksExist' /\ paper' # Null
  BY <1>1, <1>2, SavedLinks, NullAssumption DEF PInv, PapersTypeOK, LinksExist
<1> QED BY <1>1, <1>2, <1>3, SavedLinks, CommitStep

LEMMA CreateQuestionStep ==
  ASSUME PInv, NEW w \in Thread, NEW q \in Question, CreateQuestion(w, q)
  PROVE  PInv'
<1>1. /\ PapersTypeOK /\ LinksExist /\ work[w] = NoWork
      /\ exists' = exists \cup {q} /\ Overtaking(w, Invalidating, FALSE, TRUE)
      /\ UNCHANGED <<paper, links, cached, unsure>>
  BY DEF PInv, CreateQuestion
<1>2. /\ exists' \subseteq Question /\ paper' \in Title \cup {Null} /\ links' \in Links /\ Unique(links')
      /\ LinksExist' /\ exists \subseteq exists'
  BY <1>1 DEF PapersTypeOK, LinksExist
<1>3. work[w].pc # "invalidate" /\ Invalidating # NoWork
  BY <1>1, WorkTypes
<1> QED BY <1>1, <1>2, <1>3, CommitStep

LEMMA UpdateQuestionStep ==
  ASSUME PInv, NEW w \in Thread, UpdateQuestion(w)
  PROVE  PInv'
<1>1. /\ PapersTypeOK /\ LinksExist /\ work[w].pc = "write" /\ work[w] \in Work
      /\ exists' = exists \cup {work[w].req.question} /\ Overtaking(w, Invalidating, FALSE, TRUE)
      /\ UNCHANGED <<paper, links, cached, unsure>>
  BY DEF PInv, UpdateQuestion, PapersTypeOK
<1>2. work[w].req.question \in Question
  BY <1>1, WorkForms DEF WriteWork, QuestionRequest
<1>3. /\ exists' \subseteq Question /\ paper' \in Title \cup {Null} /\ links' \in Links /\ Unique(links')
      /\ LinksExist' /\ exists \subseteq exists'
  BY <1>1, <1>2 DEF PapersTypeOK, LinksExist
<1>4. work[w].pc # "invalidate" /\ Invalidating # NoWork
  BY <1>1, WorkTypes
<1> QED BY <1>1, <1>3, <1>4, CommitStep

LEMMA DeleteQuestionStep ==
  ASSUME PInv, NEW w \in Thread, DeleteQuestion(w)
  PROVE  PInv'
<1> DEFINE q == work[w].req.question
<1>1. /\ PapersTypeOK /\ LinksExist /\ work[w].pc = "write" /\ work[w] \in Work
      /\ exists' = exists \ {q} /\ links' = [links EXCEPT ![q] = Null]
      /\ Overtaking(w, Invalidating, TRUE, TRUE)
      /\ UNCHANGED <<paper, cached, unsure>>
  BY DEF PInv, DeleteQuestion, PapersTypeOK
<1>2. q \in Question
  BY <1>1, WorkForms DEF WriteWork, QuestionRequest
<1> HIDE DEF q
<1>3. \A p \in Question : links'[p] = IF p = q THEN Null ELSE links[p]
  BY <1>1 DEF PapersTypeOK, Links
<1>4. links' \in Links /\ In(links') = In(links) \ {q}
  BY <1>1, <1>2, <1>3 DEF PapersTypeOK, Links, In
<1>5. Unique(links')
  <2>1. \A p \in In(links') : p \in In(links) /\ links'[p] = links[p]
    BY <1>3, <1>4 DEF In
  <2> QED BY <1>1, <2>1 DEF PapersTypeOK, Unique
<1>6. exists' \subseteq Question /\ paper' \in Title \cup {Null} /\ LinksExist' /\ (paper # Null => paper' # Null)
  BY <1>1, <1>4 DEF PapersTypeOK, LinksExist
<1>7. work[w].pc # "invalidate" /\ Invalidating # NoWork
  BY <1>1, WorkTypes
<1> QED BY <1>1, <1>4, <1>5, <1>6, <1>7, CommitStep

\* create_paper finds no request about the paper.
LEMMA CreatePaperStep ==
  ASSUME PInv, NEW t \in Title, NEW k \in Links, CreatePaper(t, k)
  PROVE  PInv'
<1>1. /\ paper = Null /\ In(k) \subseteq exists /\ Unique(k) /\ paper' = t /\ links' = k
      /\ UNCHANGED <<exists, cached, unsure, work>>
  BY DEF CreatePaper
<1>2. PapersTypeOK' /\ LinksExist' /\ CacheTrueUnlessUnsure'
  BY <1>1 DEF PInv, PapersTypeOK, LinksExist, CacheTrueUnlessUnsure
<1>3. ASSUME NEW v \in Thread PROVE RequestFits(work[v])' /\ LoadFits(work[v])'
  BY <1>1 DEF PInv, RequestFits, LoadFits
<1> QED BY <1>2, <1>3 DEF PInv

\* The cache: an entry that is left and may be false is known to be unsure.
LEMMA CacheStep ==
  ASSUME PInv, NEW w \in Thread, Invalidate(w) \/ InvalidateFails(w) \/ StoreMetadata(w)
  PROVE  PInv'
<1>1. /\ PapersTypeOK /\ LinksExist /\ CacheTrueUnlessUnsure /\ LoadFits(work[w])
      /\ work \in [Thread -> Work] /\ work[w] \in Work
      /\ UNCHANGED <<exists, paper, links>> /\ work' = [work EXCEPT ![w] = NoWork]
  BY DEF PInv, PapersTypeOK, tables, Invalidate, InvalidateFails, StoreMetadata
<1>2. /\ work'[w] = NoWork /\ work' \in [Thread -> Work]
      /\ \A v \in Thread : v # w => work'[v] = work[v]
  BY <1>1, WorkTypes
<1>3. /\ cached' \in (SUBSET Question) \cup {Null} /\ unsure' \in BOOLEAN
      /\ CacheTrueUnlessUnsure'
  <2>1. CASE Invalidate(w)
    BY <2>1 DEF Invalidate, CacheTrueUnlessUnsure
  <2>2. CASE InvalidateFails(w)
    BY <1>1, <2>2 DEF InvalidateFails, CacheTrueUnlessUnsure, PapersTypeOK, tables
  <2>3. CASE StoreMetadata(w)
    <3>1. work[w].pc = "store" /\ cached' = work[w].found /\ unsure' = work[w].raced
      BY <2>3 DEF StoreMetadata
    <3>2. work[w] \in LoadWork /\ Loading(work[w])
      BY <1>1, <3>1, WorkForms DEF Loading
    <3>3. work[w].found \in SUBSET Question /\ work[w].raced \in BOOLEAN
      BY <3>2 DEF LoadWork
    <3>4. ~ unsure' => cached' = exists'
      BY <1>1, <3>1, <3>2 DEF LoadFits
    <3> QED BY <3>1, <3>3, <3>4 DEF CacheTrueUnlessUnsure
  <2> QED BY <2>1, <2>2, <2>3
<1>4. PapersTypeOK' /\ LinksExist'
  BY <1>1, <1>2, <1>3 DEF PapersTypeOK, LinksExist
<1>5. ASSUME NEW v \in Thread PROVE RequestFits(work[v])' /\ LoadFits(work[v])'
  <2>1. CASE v = w
    BY <1>2, <2>1, WorkTypes DEF RequestFits, LoadFits
  <2>2. CASE v # w
    <3>1. work'[v] = work[v] /\ RequestFits(work[v]) /\ LoadFits(work[v])
      BY <1>2, <2>2 DEF PInv
    <3> QED BY <1>1, <3>1 DEF RequestFits, Wanted, TitleToBe, LoadFits
  <2> QED BY <2>1, <2>2
<1> QED BY <1>3, <1>4, <1>5 DEF PInv

LEMMA ForkStep ==
  ASSUME PInv, NEW q \in Question, Fork(q)
  PROVE  PInv'
<1>1. /\ PapersTypeOK /\ LinksExist /\ exists' = exists \cup {q} /\ unsure' = (unsure \/ cached # Null)
      /\ work' = [v \in Thread |-> IF Loading(work[v]) THEN [work[v] EXCEPT !.raced = TRUE] ELSE work[v]]
      /\ UNCHANGED <<paper, links, cached>>
  BY DEF PInv, Fork
<1>2. ASSUME NEW v \in Thread
      PROVE  work'[v] \in Work /\ RequestFits(work[v])' /\ LoadFits(work[v])'
  <2>1. work[v] \in Work /\ RequestFits(work[v]) /\ LoadFits(work[v])
    BY DEF PInv, PapersTypeOK
  <2>2. CASE Loading(work[v])
    <3>1. work'[v] = [work[v] EXCEPT !.raced = TRUE] /\ work[v] \in LoadWork
      BY <1>1, <2>1, <2>2, WorkForms
    <3>2. work'[v] \in LoadWork /\ work'[v].raced = TRUE /\ work'[v].pc = "store"
      BY <3>1 DEF LoadWork
    <3> QED BY <3>2, WorkTypes DEF RequestFits, LoadFits, OnPaper
  <2>3. CASE ~ Loading(work[v])
    <3>1. work'[v] = work[v]
      BY <1>1, <2>3
    <3> QED BY <1>1, <2>1, <2>3, <3>1 DEF RequestFits, Wanted, TitleToBe, LoadFits
  <2> QED BY <2>2, <2>3
<1>3. work' \in [Thread -> Work]
  BY <1>1, <1>2
<1>4. PapersTypeOK'
  BY <1>1, <1>3 DEF PapersTypeOK
<1>5. LinksExist' /\ CacheTrueUnlessUnsure'
  BY <1>1 DEF LinksExist, CacheTrueUnlessUnsure
<1> QED BY <1>2, <1>4, <1>5 DEF PInv

LEMMA ExpireStep ==
  ASSUME PInv, Expire
  PROVE  PInv'
<1>1. cached' = Null /\ unsure' = FALSE /\ UNCHANGED <<exists, paper, links, work>>
  BY DEF Expire, tables
<1>2. PapersTypeOK' /\ LinksExist' /\ CacheTrueUnlessUnsure'
  BY <1>1 DEF PInv, PapersTypeOK, LinksExist, CacheTrueUnlessUnsure
<1>3. ASSUME NEW v \in Thread PROVE RequestFits(work[v])' /\ LoadFits(work[v])'
  BY <1>1 DEF PInv, RequestFits, Wanted, TitleToBe, LoadFits
<1> QED BY <1>2, <1>3 DEF PInv

-----------------------------------------------------------------------------
(* The theorems about papers, questions and the cache.                     *)

\* What requests rely on is an inductive invariant of papers and questions.
THEOREM PapersInvariance == PapersSpec => []PInv
<1>1. PapersInit => PInv
  <2> SUFFICES ASSUME PapersInit PROVE PInv
    OBVIOUS
  <2>1. NoLink \in Links /\ In(NoLink) = {}
    BY DEF NoLink, Links, In
  <2>2. PapersTypeOK
    BY <2>1, WorkTypes DEF PapersInit, PapersTypeOK, Unique
  <2>3. LinksExist /\ CacheTrueUnlessUnsure
    BY <2>1 DEF PapersInit, LinksExist, CacheTrueUnlessUnsure
  <2>4. \A w \in Thread : RequestFits(work[w]) /\ LoadFits(work[w])
    BY WorkTypes DEF PapersInit, RequestFits, LoadFits
  <2> QED BY <2>2, <2>3, <2>4 DEF PInv
<1>2. PInv /\ [PapersNext]_paperVars => PInv'
  <2> SUFFICES ASSUME PInv, [PapersNext]_paperVars PROVE PInv'
    OBVIOUS
  <2>1. ASSUME NEW t \in Title, NEW k \in Links, CreatePaper(t, k) PROVE PInv'
    BY <2>1, CreatePaperStep
  <2>2. ASSUME NEW w \in Thread, NEW q \in Asked, StartPaper(w, q) PROVE PInv'
    BY <2>2, StartPaperStep, RequestAssumption
  <2>3. ASSUME NEW w \in Thread,
               ReadLinks(w) \/ ReadNames(w) \/ Resolve(w) \/ ExportNames(w) \/ Expand(w)
        PROVE  PInv'
    BY <2>3, ReadLinksStep, ReadNamesStep, ResolveStep, ExportNamesStep, ExpandStep
  <2>4. ASSUME NEW w \in Thread, SavePaper(w) PROVE PInv'
    BY <2>4, SavePaperStep
  <2>5. ASSUME NEW w \in Thread, AnswerExport(w) \/ RefusePaper(w) \/ DeleteTwice(w) PROVE PInv'
    BY <2>5, LetGoStep
  <2>6. ASSUME NEW w \in Thread, NEW q \in Question, CreateQuestion(w, q) PROVE PInv'
    BY <2>6, CreateQuestionStep
  <2>7. ASSUME NEW w \in Thread,
               (\E q \in QuestionRequest : StartQuestion(w, q)) \/ LoadMetadata(w)
        PROVE  PInv'
    BY <2>7, QuestionReadStep
  <2>8. ASSUME NEW w \in Thread, UpdateQuestion(w) \/ DeleteQuestion(w) PROVE PInv'
    BY <2>8, UpdateQuestionStep, DeleteQuestionStep
  <2>9. ASSUME NEW w \in Thread, Invalidate(w) \/ InvalidateFails(w) \/ StoreMetadata(w) PROVE PInv'
    BY <2>9, CacheStep
  <2>10. ASSUME NEW q \in Question, Fork(q) PROVE PInv'
    BY <2>10, ForkStep
  <2>11. CASE Expire
    BY <2>11, ExpireStep
  <2>12. CASE UNCHANGED paperVars
    <3>1. UNCHANGED <<exists, paper, links, cached, unsure, work>>
      BY <2>12 DEF paperVars, tables
    <3> QED BY <3>1 DEF PInv, PapersTypeOK, LinksExist, CacheTrueUnlessUnsure, RequestFits, Wanted, TitleToBe, LoadFits
  <2> QED BY <2>1, <2>2, <2>3, <2>4, <2>5, <2>6, <2>7, <2>8, <2>9, <2>10, <2>11, <2>12 DEF PapersNext
<1> QED BY <1>1, <1>2, PTL DEF PapersSpec

\* Whatever is created, saved, updated, deleted and forked meanwhile, a paper
\* refers to questions that exist, under unique numbers, and the cached metadata
\* is that of the questions unless it is known to be unsure.
THEOREM PapersConsistentAlways == PapersSpec => []PapersConsistent
<1>1. PInv => PapersConsistent
  BY DEF PInv, PapersConsistent
<1> QED BY <1>1, PapersInvariance, PTL

\* A save that nothing overlapped writes the entity as it was changed.
LEMMA SavedAlone ==
  ASSUME PInv, NEW w \in Thread, OnPaper(work[w]), ~ work[w].raced, SavePaper(w)
  PROVE  StoredAsAsked(work[w].req)
<1> DEFINE j == work[w]
           q == j.req
           e == j.base
<1>1. /\ j.pc = "flush" /\ paper' = TitleToBe(j)
      /\ links' = [p \in Question |-> IF e.links[p] # Null THEN e.links[p]
                                      ELSE IF j.old[p] # Null THEN Null ELSE links[p]]
  BY DEF SavePaper, TitleToBe
<1>2. /\ RequestFits(j) /\ q \in PaperRequest /\ e.links \in Links /\ links \in Links
  BY InHand
<1>3. /\ q.kind # "export" /\ j.old = links
      /\ paper' = Wanted(j).title /\ e.links = Wanted(j).links
  BY <1>1, <1>2 DEF RequestFits, Exporting
<1>4. links' = Wanted(j).links
  BY <1>1, <1>2, <1>3 DEF Links
<1> HIDE DEF j, q, e
<1>5. CASE q.kind = "rename"
  <2>1. paper' = q.title /\ links' = links
    BY <1>3, <1>4, <1>5 DEF Wanted, Changed, q
  <2> QED BY <1>1, <1>4, <1>5, <2>1 DEF StoredAsAsked, q, j
<1>6. CASE q.kind = "add"
  <2>1. paper' = paper /\ links' = [links EXCEPT ![q.question] = q.order]
    BY <1>3, <1>4, <1>6 DEF Wanted, Changed, q
  <2>2. \A p \in Question : links'[p] = IF p = q.question THEN q.order ELSE links[p]
    BY <1>2, <1>4, <1>6, <2>1 DEF Links
  <2> QED BY <1>1, <1>6, <2>1, <2>2 DEF StoredAsAsked, q, j
<1>7. CASE q.kind = "remove"
  <2>1. paper' = paper /\ links' = [links EXCEPT ![q.question] = Null]
    BY <1>3, <1>4, <1>7 DEF Wanted, Changed, q
  <2>2. \A p \in Question : links'[p] = IF p = q.question THEN Null ELSE links[p]
    BY <1>2, <1>4, <1>7, <2>1 DEF Links
  <2> QED BY <1>1, <1>7, <2>1, <2>2 DEF StoredAsAsked, q, j
<1>8. CASE q.kind \in {"reorder", "replace"}
  <2>1. paper' = paper /\ links' = q.links
    BY <1>3, <1>4, <1>8 DEF Wanted, Changed, q
  <2> QED BY <1>1, <1>4, <1>8, <2>1 DEF StoredAsAsked, q, j
<1> QED BY <1>2, <1>3, <1>5, <1>6, <1>7, <1>8, RequestForms

\* A save that nothing overlapped finds every link to update and may insert every
\* other: it is refused only for a number that is taken.
LEMMA RefusedAlone ==
  ASSUME PInv, NEW w \in Thread, OnPaper(work[w]), ~ work[w].raced, RefusePaper(w)
  PROVE  RenumbersOnto(work[w])
<1> DEFINE j == work[w]
           base == j.base.links
<1>1. j.pc = "flush" /\ (Stale(j) \/ Refers(j) \/ Taken(j))
  BY DEF RefusePaper
<1>2. RequestFits(j)
  BY InHand
<1>3. j.old = links /\ In(base) \subseteq exists
  BY <1>1, <1>2 DEF RequestFits, Exporting
<1> HIDE DEF j, base
<1>4. Updated(j) = In(links) \cap In(base) /\ Added(j) = In(base) \ In(links)
  BY <1>3 DEF Updated, Added, base
<1>5. ~ Stale(j) /\ ~ Refers(j)
  BY <1>3, <1>4 DEF Stale, Refers
<1>6. \E q \in In(base), p \in In(links) : p # q /\ links[p] = base[q]
  BY <1>1, <1>4, <1>5 DEF Taken, base
<1> QED BY <1>3, <1>6 DEF RenumbersOnto, j, base

\* A rename, an addition, a removal, a reorder or a replacement that nothing
\* overlapped changes exactly what it asks for, and is refused only when it
\* renumbers a question onto another one of the paper.
THEOREM StoredAloneAlways == PapersSpec => AloneExact
<1>1. PInv /\ [PapersNext]_paperVars =>
        [\A w \in Thread : OnPaper(work[w]) /\ ~work[w].raced =>
           /\ SavePaper(w) => StoredAsAsked(work[w].req)
           /\ RefusePaper(w) => RenumbersOnto(work[w])]_paperVars
  BY SavedAlone, RefusedAlone
<1> QED BY <1>1, PapersInvariance, PTL DEF PapersSpec, AloneExact

LEMMA ExpandedWhole ==
  ASSUME PInv, NEW w \in Thread, Expand(w)
  PROVE  LET j == work[w]
             list == work'[w].questions
             At(q) == CHOOSE i \in DOMAIN list : list[i] = q
         IN /\ IsInjective(list)
            /\ In(j.old) \subseteq ToSet(list) /\ ToSet(list) \subseteq In(j.base.links)
            /\ j.req.by = "paper" =>
                 \A p, q \in In(j.old) : j.old[p] < j.old[q] => At(p) < At(q)
<1> DEFINE j == work[w]
           k == Expanded(j.base.links)
           list == work'[w].questions
           At(q) == CHOOSE i \in DOMAIN list : list[i] = q
<1>1. j.pc = "expand" /\ OnPaper(j)
  BY DEF Expand, OnPaper
<1>2. /\ RequestFits(j) /\ j.base.links \in Links /\ Unique(j.base.links) /\ LinksExist
      /\ work \in [Thread -> Work] /\ j.old \in Links
  BY <1>1, InHand DEF PInv
<1>3. PICK type \in [Question -> 1..2] :
         work' = [work EXCEPT ![w] = [pc |-> "listed", questions |-> Listing(k, j.req.by, type)]]
  BY DEF Expand
<1>4. list = Listing(k, j.req.by, type)
  BY <1>2, <1>3
<1>5. k \in Links /\ Unique(k) /\ In(k) = In(j.base.links) \cap exists
  BY <1>2, ExistingType DEF Expanded
<1>6. \A q \in In(j.old) : q \in In(k) /\ k[q] = j.old[q]
  <2>1. Exporting(j)
    BY <1>1, <1>2 DEF RequestFits, Exporting
  <2>2. \A q \in In(j.old) : links[q] = j.old[q] /\ j.base.links[q] = j.old[q]
    BY <1>1, <1>2, <2>1 DEF RequestFits
  <2>3. \A q \in In(j.old) : q \in Question /\ j.old[q] # Null
    BY DEF In
  <2>4. \A q \in In(j.old) : q \in exists
    BY <1>2, <2>2, <2>3 DEF LinksExist, In
  <2> QED BY <2>2, <2>3, <2>4 DEF Expanded, Existing, In
<1> DEFINE by == j.req.by
<1> HIDE DEF j, k, list, by
<1>7. /\ list \in [DOMAIN list -> In(k)] /\ DOMAIN list \in SUBSET Nat
      /\ IsInjective(list) /\ ToSet(list) = In(k)
      /\ \A i, m \in DOMAIN list : i < m => Before(k, by, type, list[i], list[m])
  BY <1>4, <1>5, ListingProperty DEF by
<1>8. In(j.old) \subseteq ToSet(list) /\ ToSet(list) \subseteq In(j.base.links)
  BY <1>5, <1>6, <1>7
<1>9. ASSUME by = "paper", NEW p \in In(j.old), NEW q \in In(j.old), j.old[p] < j.old[q]
      PROVE  At(p) < At(q)
  <2>1. At(p) \in DOMAIN list /\ list[At(p)] = p /\ At(q) \in DOMAIN list /\ list[At(q)] = q
    BY <1>7, <1>8 DEF ToSet
  <2> HIDE DEF At
  <2>2. At(p) \in Nat /\ At(q) \in Nat
    BY <1>7, <2>1
  <2>3. k[p] \in Nat /\ k[q] \in Nat /\ k[p] < k[q]
    BY <1>5, <1>6, <1>9 DEF Links, In, Order
  <2>4. At(p) # At(q)
    BY <2>1, <2>3
  <2>5. ~ (At(q) < At(p))
    <3> SUFFICES ASSUME At(q) < At(p) PROVE FALSE
      OBVIOUS
    <3>1. Before(k, by, type, list[At(q)], list[At(p)])
      BY <1>7, <2>1
    <3>2. k[q] < k[p]
      BY <1>9, <2>1, <3>1 DEF Before
    <3> QED BY <2>3, <3>2
  <2> QED BY <2>2, <2>4, <2>5
<1> QED BY <1>7, <1>8, <1>9 DEF j, list, by

\* An export that reads the paper, its questions' names and their rows one after
\* another lists, without repetition and in the order of the numbers, every
\* question that stays in the paper meanwhile.
THEOREM ExportsWholeAlways == PapersSpec => ExportWhole
<1>1. PInv /\ [PapersNext]_paperVars =>
       [\A w \in Thread : Expand(w) =>
        LET j == work[w]
            list == work'[w].questions
            At(q) == CHOOSE i \in DOMAIN list : list[i] = q
        IN /\ IsInjective(list)
           /\ In(j.old) \subseteq ToSet(list) /\ ToSet(list) \subseteq In(j.base.links)
           /\ j.req.by = "paper" =>
                \A p, q \in In(j.old) : j.old[p] < j.old[q] => At(p) < At(q)]_paperVars
  BY ExpandedWhole
<1> QED BY <1>1, PapersInvariance, PTL DEF PapersSpec, ExportWhole

-----------------------------------------------------------------------------
(* Induction and recursion.  What is proved by induction is stated by the  *)
(* set of the numbers, or of the finite sets, for which it holds.          *)

\* A set of naturals has a least element.
LEMMA LeastNumber ==
  ASSUME NEW S \in SUBSET Nat, S # {}
  PROVE  \E m \in S : \A n \in S : m <= n
<1>1. PICK m \in S : \A n \in S : ~ (<<n, m>> \in OpToRel(<, Nat))
  BY NatLessThanWellFounded, WFMin
<1>2. \A n \in S : ~ (n < m)
  BY <1>1 DEF OpToRel
<1> QED BY <1>2

\* Induction on the naturals.
LEMMA NumberInduction ==
  ASSUME NEW T, 0 \in T, \A n \in Nat : n \in T => n + 1 \in T
  PROVE  \A n \in Nat : n \in T
<1> SUFFICES ASSUME Nat \ T # {}
             PROVE  FALSE
  OBVIOUS
<1>1. PICK m \in Nat \ T : \A n \in Nat \ T : m <= n
  BY LeastNumber
<1>2. m - 1 \in Nat /\ m - 1 \in T
  BY <1>1
<1> QED BY <1>1, <1>2

\* Induction on the subsets of a finite set, by one element.
LEMMA SubsetInduction ==
  ASSUME NEW S, IsFiniteSet(S), NEW T,
         \A s \in SUBSET S : (\A x \in s : s \ {x} \in T) => s \in T
  PROVE  \A s \in SUBSET S : s \in T
<1> DEFINE N == {n \in Nat : \A s \in SUBSET S : Cardinality(s) = n => s \in T}
<1>1. \A s \in SUBSET S : IsFiniteSet(s) /\ Cardinality(s) \in Nat
  BY FS_Subset, FS_CardinalityType
<1>2. 0 \in N
  BY <1>1, FS_EmptySet
<1>3. ASSUME NEW n \in Nat, n \in N
      PROVE  n + 1 \in N
  <2>1. ASSUME NEW s \in SUBSET S, Cardinality(s) = n + 1, NEW x \in s
        PROVE  s \ {x} \in T
    BY <1>1, <1>3, <2>1, FS_RemoveElement
  <2> QED BY <2>1
<1>4. \A n \in Nat : n \in N
  <2> HIDE DEF N
  <2> QED BY <1>2, <1>3, NumberInduction
<1> QED BY <1>1, <1>4

\* A function on the naturals that is defined by recursion exists.
Unrolls(t, a, g) == t = [k \in Nat |-> IF k = 0 THEN a ELSE g[<<k, t[k - 1]>>]]

\* There is a function on the naturals that unrolls from a.
LEMMA NumberRecursion ==
  ASSUME NEW a, NEW g
  PROVE  \E t : Unrolls(t, a, g)
<1> DEFINE Begins(t, n) == t = [k \in 0..n |-> IF k = 0 THEN a ELSE g[<<k, t[k - 1]>>]]
           N == {n \in Nat : \E t : Begins(t, n)}
           part == [n \in Nat |-> CHOOSE t : Begins(t, n)]
           whole == [k \in Nat |-> part[k][k]]
<1>1. 0 \in N
  <2> DEFINE t == [k \in 0..0 |-> a]
  <2>1. Begins(t, 0)
    OBVIOUS
  <2> QED BY <2>1
<1>2. ASSUME NEW n \in Nat, n \in N
      PROVE  n + 1 \in N
  <2>1. PICK t : Begins(t, n)
    BY <1>2
  <2> DEFINE u == [k \in 0..(n + 1) |-> IF k = 0 THEN a ELSE g[<<k, t[k - 1]>>]]
  <2>2. ASSUME NEW k \in 0..n
        PROVE  u[k] = t[k]
    BY <2>1
  <2>3. Begins(u, n + 1)
    <3>1. ASSUME NEW k \in 0..(n + 1), k # 0
          PROVE  u[k] = g[<<k, u[k - 1]>>]
      <4>1. k - 1 \in 0..n
        BY <3>1
      <4> QED BY <4>1, <2>2, <3>1
    <3> HIDE DEF u
    <3>2. u[0] = a
      BY DEF u
    <3>3. u = [k \in 0..(n + 1) |-> u[k]]
      BY DEF u
    <3> QED BY <3>1, <3>2, <3>3
  <2>4. \E v : Begins(v, n + 1)
    <3> HIDE DEF u, Begins
    <3> QED BY <2>3
  <2> QED BY <2>4
<1>3. \A n \in Nat : n \in N
  <2> HIDE DEF N
  <2> QED BY <1>1, <1>2, NumberInduction
<1>4. ASSUME NEW n \in Nat
      PROVE  /\ part[n][0] = a
             /\ \A k \in 1..n : part[n][k] = g[<<k, part[n][k - 1]>>]
  <2>1. \E t : Begins(t, n)
    BY <1>3
  <2>2. Begins(part[n], n)
    <3> HIDE DEF Begins
    <3> QED BY <2>1
  <2> DEFINE t == part[n]
  <2> HIDE DEF part
  <2>3. t = [k \in 0..n |-> IF k = 0 THEN a ELSE g[<<k, t[k - 1]>>]]
    BY <2>2
  <2> HIDE DEF t
  <2>4. t[0] = a /\ \A k \in 1..n : t[k] = g[<<k, t[k - 1]>>]
    <3>1. 0 \in 0..n /\ \A k \in 1..n : k \in 0..n /\ k # 0
      OBVIOUS
    <3> QED BY <2>3, <3>1, Zenon
  <2> QED BY <2>4 DEF t
<1> HIDE DEF part, Begins
<1>5. ASSUME NEW n \in Nat
      PROVE  part[n + 1][n] = part[n][n]
  <2> DEFINE K == {k \in Nat : k <= n => part[n + 1][k] = part[n][k]}
  <2>1. 0 \in K
    BY <1>4
  <2>2. ASSUME NEW k \in Nat, k \in K
        PROVE  k + 1 \in K
    <3>1. CASE k + 1 <= n
      <4>1. /\ n + 1 \in Nat /\ k + 1 \in 1..n /\ k + 1 \in 1..(n + 1)
            /\ (k + 1) - 1 = k /\ k <= n
        BY <3>1
      <4>2. part[n + 1][k + 1] = g[<<k + 1, part[n + 1][k]>>]
        BY <1>4, <4>1
      <4>3. part[n][k + 1] = g[<<k + 1, part[n][k]>>]
        BY <1>4, <4>1
      <4> QED BY <4>1, <4>2, <4>3, <2>2
    <3> QED BY <3>1
  <2>3. \A k \in Nat : k \in K
    <3> HIDE DEF K
    <3> QED BY <2>1, <2>2, NumberInduction
  <2> QED BY <2>3
<1>6. ASSUME NEW k \in Nat, k # 0
      PROVE  whole[k] = g[<<k, whole[k - 1]>>]
  <2>1. part[k][k] = g[<<k, part[k][k - 1]>>]
    BY <1>4, <1>6
  <2>2. part[k][k - 1] = part[k - 1][k - 1]
    <3>1. k - 1 \in Nat /\ (k - 1) + 1 = k
      BY <1>6
    <3> QED BY <3>1, <1>5
  <2> QED BY <2>1, <2>2, <1>6
<1>7. whole[0] = a
  BY <1>4
<1>8. whole = [k \in Nat |-> whole[k]]
  OBVIOUS
<1> HIDE DEF whole
<1>9. Unrolls(whole, a, g)
  BY <1>6, <1>7, <1>8 DEF Unrolls
<1> QED BY <1>9

Typed(t, X, a, g) == t \in [Nat -> X] /\ t[0] = a /\ \A k \in Nat \ {0} : t[k] = g[<<k, t[k - 1]>>]

\* Its values have the type that its step keeps.
LEMMA TypedRecursion ==
  ASSUME NEW X, NEW a \in X, NEW g \in [(Nat \ {0}) \X X -> X], NEW t, Unrolls(t, a, g)
  PROVE  Typed(t, X, a, g)
<1>1. t = [k \in Nat |-> IF k = 0 THEN a ELSE g[<<k, t[k - 1]>>]]
  BY DEF Unrolls
<1>2. t[0] = a
  BY <1>1
<1>3. ASSUME NEW k \in Nat \ {0}
      PROVE  t[k] = g[<<k, t[k - 1]>>]
  BY <1>1
<1> DEFINE T == {k \in Nat : t[k] \in X}
<1>4. 0 \in T
  BY <1>2
<1>5. ASSUME NEW k \in Nat, k \in T
      PROVE  k + 1 \in T
  <2>1. k + 1 \in Nat \ {0} /\ (k + 1) - 1 = k
    OBVIOUS
  <2>2. t[k + 1] = g[<<k + 1, t[k]>>]
    BY <1>3, <2>1
  <2>3. <<k + 1, t[k]>> \in (Nat \ {0}) \X X
    BY <1>5, <2>1
  <2>4. g[<<k + 1, t[k]>>] \in X
    BY <2>3
  <2> QED BY <2>1, <2>2, <2>4
<1>6. \A k \in Nat : k \in T
  <2> HIDE DEF T
  <2> QED BY <1>4, <1>5, NumberInduction
<1>7. t = [k \in Nat |-> t[k]]
  BY <1>1
<1>8. t \in [Nat -> X]
  BY <1>6, <1>7
<1> QED BY <1>2, <1>3, <1>8 DEF Typed

-----------------------------------------------------------------------------
(* The sum of a function over its domain.                                  *)

\* The element that SumFunction adds last.
Pick(s) == CHOOSE x \in s : TRUE

\* The sums over the subsets of the domain, as SumFunction computes them.
Sums(f, h) ==
  h = [s \in SUBSET DOMAIN f |-> IF s = {} THEN 0 ELSE f[Pick(s)] + h[s \ {Pick(s)}]]
Partial(f) == CHOOSE h : Sums(f, h)

SumOver(f, s) == Partial(f)[s]

\* SumFunction is the sum over the whole domain.
LEMMA SumIsPartial ==
  ASSUME NEW f
  PROVE  SumFunction(f) = SumOver(f, DOMAIN f)
BY DEF SumOver, Partial, Sums, Pick, SumFunction, SumFunctionOnSet, FoldFunctionOnSet, MapThenFoldSet

\* The sums over subsets exist.
LEMMA PartialExists ==
  ASSUME NEW f, IsFiniteSet(DOMAIN f)
  PROVE  \E h : Sums(f, h)
<1> DEFINE S == DOMAIN f
           Small(n) == {s \in SUBSET S : Cardinality(s) <= n}
           Upto(h, n) == h = [s \in Small(n) |-> IF s = {} THEN 0 ELSE f[Pick(s)] + h[s \ {Pick(s)}]]
           N == {n \in Nat : \E h : Upto(h, n)}
<1>1. \A s \in SUBSET S : IsFiniteSet(s) /\ Cardinality(s) \in Nat
  BY FS_Subset, FS_CardinalityType
<1>2. \A s \in SUBSET S : s # {} =>
         s \ {Pick(s)} \in SUBSET S /\ Cardinality(s \ {Pick(s)}) = Cardinality(s) - 1
  <2>1. \A s : s # {} => Pick(s) \in s
    BY DEF Pick
  <2> QED BY <1>1, <2>1, FS_RemoveElement
<1>3. 0 \in N
  <2>1. Small(0) = {{}}
    BY <1>1, FS_EmptySet
  <2> DEFINE h == [s \in Small(0) |-> 0]
  <2>2. Upto(h, 0)
    BY <2>1
  <2> QED BY <2>2
<1>4. ASSUME NEW n \in Nat, n \in N
      PROVE  n + 1 \in N
  <2>1. PICK h : Upto(h, n)
    BY <1>4
  <2> DEFINE next == [s \in Small(n + 1) |-> IF s = {} THEN 0 ELSE f[Pick(s)] + h[s \ {Pick(s)}]]
  <2>2. ASSUME NEW s \in Small(n)
        PROVE  next[s] = h[s]
    <3>1. s \in Small(n + 1)
      BY <1>1
    <3> QED BY <2>1, <3>1
  <2>3. ASSUME NEW s \in Small(n + 1), s # {}
        PROVE  next[s] = f[Pick(s)] + next[s \ {Pick(s)}]
    <3>1. s \ {Pick(s)} \in Small(n)
      BY <1>1, <1>2, <2>3
    <3>2. next[s \ {Pick(s)}] = h[s \ {Pick(s)}]
      BY <3>1, <2>2
    <3> HIDE DEF Small
    <3> QED BY <2>3, <3>2
  <2>4. {} \in Small(n + 1)
    BY <1>1, FS_EmptySet
  <2>5. next[{}] = 0
    BY <2>4
  <2>6. next = [s \in Small(n + 1) |-> next[s]]
    OBVIOUS
  <2> HIDE DEF next, Small
  <2>7. Upto(next, n + 1)
    BY <2>3, <2>5, <2>6
  <2> HIDE DEF Upto
  <2> QED BY <2>7
<1>5. \A n \in Nat : n \in N
  <2> HIDE DEF N
  <2> QED BY <1>3, <1>4, NumberInduction
<1>6. Small(Cardinality(S)) = SUBSET S /\ Cardinality(S) \in Nat
  BY <1>1, FS_Subset
<1>7. PICK h : Upto(h, Cardinality(S))
  BY <1>5, <1>6
<1>8. Sums(f, h)
  <2> HIDE DEF Small
  <2> QED BY <1>6, <1>7 DEF Sums
<1> QED BY <1>8

\* A sum is the element added last and the sum of the others.
LEMMA PartialUnfolds ==
  ASSUME NEW S, IsFiniteSet(S), NEW f \in [S -> Int]
  PROVE  /\ SumOver(f, {}) = 0
         /\ \A s \in SUBSET S : SumOver(f, s) \in Int
         /\ \A s \in SUBSET S : s # {} =>
              SumOver(f, s) = f[Pick(s)] + SumOver(f, s \ {Pick(s)})
<1>1. DOMAIN f = S
  OBVIOUS
<1>2. Sums(f, Partial(f))
  BY <1>1, PartialExists, Zenon DEF Partial
<1>3. Partial(f) = [s \in SUBSET DOMAIN f |->
        IF s = {} THEN 0 ELSE f[Pick(s)] + Partial(f)[s \ {Pick(s)}]]
  BY <1>2 DEF Sums
<1> DEFINE P == Partial(f)
<1>4. P = [s \in SUBSET S |->
        IF s = {} THEN 0 ELSE f[Pick(s)] + P[s \ {Pick(s)}]]
  BY <1>3, <1>1
<1> HIDE DEF P
<1>5. P[{}] = 0
  BY <1>4
<1>6. ASSUME NEW s \in SUBSET S, s # {}
       PROVE  P[s] = f[Pick(s)] + P[s \ {Pick(s)}]
  BY <1>4, <1>6
<1>7. \A s \in SUBSET S : P[s] \in Int
  <2> DEFINE T == {s \in SUBSET S : P[s] \in Int}
  <2>1. ASSUME NEW s \in SUBSET S, \A x \in s : s \ {x} \in T
        PROVE  s \in T
    <3>1. CASE s = {}
      BY <1>5, <3>1
    <3>2. CASE s # {}
      <4>1. PICK x \in s : x = Pick(s)
        BY <3>2 DEF Pick
      <4>2. P[s \ {x}] \in Int /\ f[x] \in Int
        BY <2>1
      <4> QED BY <1>6, <3>2, <4>1, <4>2
    <3> QED BY <3>1, <3>2
  <2>2. \A s \in SUBSET S : s \in T
    <3> HIDE DEF T
    <3> QED BY <2>1, SubsetInduction
  <2> QED BY <2>2
<1> QED BY <1>5, <1>6, <1>7 DEF P, SumOver

\* Any element may be added last.
LEMMA PartialRemoves ==
  ASSUME NEW S, IsFiniteSet(S), NEW f \in [S -> Int]
  PROVE  \A s \in SUBSET S, x \in S : x \in s => SumOver(f, s) = f[x] + SumOver(f, s \ {x})
<1> DEFINE T == {s \in SUBSET S : \A x \in s : SumOver(f, s) = f[x] + SumOver(f, s \ {x})}
<1>1. /\ \A s \in SUBSET S : SumOver(f, s) \in Int
      /\ \A s \in SUBSET S : s # {} =>
           SumOver(f, s) = f[Pick(s)] + SumOver(f, s \ {Pick(s)})
  BY PartialUnfolds
<1>2. ASSUME NEW s \in SUBSET S, \A x \in s : s \ {x} \in T, NEW x \in s
      PROVE  SumOver(f, s) = f[x] + SumOver(f, s \ {x})
  <2>1. PICK y \in s : y = Pick(s)
    BY DEF Pick
  <2>2. SumOver(f, s) = f[y] + SumOver(f, s \ {y})
    BY <1>1, <2>1
  <2>3. CASE x # y
    <3>1. SumOver(f, s \ {y}) = f[x] + SumOver(f, (s \ {y}) \ {x})
      BY <1>2, <2>3
    <3>2. SumOver(f, s \ {x}) = f[y] + SumOver(f, (s \ {x}) \ {y})
      BY <1>2, <2>3
    <3>3. (s \ {y}) \ {x} = (s \ {x}) \ {y}
      OBVIOUS
    <3>4. /\ f[x] \in Int /\ f[y] \in Int
          /\ SumOver(f, (s \ {x}) \ {y}) \in Int /\ SumOver(f, s \ {x}) \in Int /\ SumOver(f, s \ {y}) \in Int
      BY <1>1
    <3>5. PICK r \in Int : SumOver(f, (s \ {x}) \ {y}) = r
      BY <3>4
    <3>6. SumOver(f, s \ {y}) = f[x] + r /\ SumOver(f, s \ {x}) = f[y] + r
      BY <3>1, <3>2, <3>3, <3>5
    <3>7. f[y] + (f[x] + r) = f[x] + (f[y] + r)
      BY <3>4
    <3> QED BY <2>2, <3>6, <3>7, Zenon
  <2> QED BY <2>2, <2>3
<1>3. \A s \in SUBSET S : (\A x \in s : s \ {x} \in T) => s \in T
  BY <1>2
<1>4. \A s \in SUBSET S : s \in T
  <2> HIDE DEF T
  <2> QED BY <1>3, SubsetInduction
<1> QED BY <1>4

\* A sum of integers is an integer.
LEMMA SumType ==
  ASSUME NEW S, IsFiniteSet(S), NEW f \in [S -> Int]
  PROVE  SumFunction(f) \in Int
<1>1. SumOver(f, S) \in Int
  BY PartialUnfolds
<1> QED BY <1>1, SumIsPartial

\* Sums over a set on which the functions agree, but for a factor and an amount.
LEMMA PartialsAgree ==
  ASSUME NEW S, IsFiniteSet(S), NEW f \in [S -> Int], NEW g \in [S -> Int],
         NEW s \in SUBSET S, \A x \in s : f[x] = g[x]
  PROVE  SumOver(f, s) = SumOver(g, s)
<1> DEFINE T == {u \in SUBSET S : u \subseteq s => SumOver(f, u) = SumOver(g, u)}
<1>1. /\ SumOver(f, {}) = 0 /\ SumOver(g, {}) = 0
      /\ \A u \in SUBSET S : SumOver(f, u) \in Int /\ SumOver(g, u) \in Int
  BY PartialUnfolds
<1>2. \A u \in SUBSET S, x \in S : x \in u => SumOver(f, u) = f[x] + SumOver(f, u \ {x})
  BY PartialRemoves
<1>3. \A u \in SUBSET S, x \in S : x \in u => SumOver(g, u) = g[x] + SumOver(g, u \ {x})
  BY PartialRemoves
<1>4. ASSUME NEW u \in SUBSET S, \A x \in u : u \ {x} \in T, u \subseteq s
      PROVE  SumOver(f, u) = SumOver(g, u)
  <2>1. CASE u = {}
    BY <1>1, <2>1
  <2>2. CASE u # {}
    <3>1. PICK x \in u : TRUE
      BY <2>2
    <3>2. SumOver(f, u \ {x}) = SumOver(g, u \ {x})
      BY <1>4
    <3> QED BY <1>2, <1>3, <1>4, <3>1, <3>2
  <2> QED BY <2>1, <2>2
<1>5. \A u \in SUBSET S : (\A x \in u : u \ {x} \in T) => u \in T
  BY <1>4
<1>6. \A u \in SUBSET S : u \in T
  <2> HIDE DEF T
  <2> QED BY <1>5, SubsetInduction
<1> QED BY <1>6

\* One value changes.
LEMMA SumUpdates ==
  ASSUME NEW S, IsFiniteSet(S), NEW f \in [S -> Int], NEW x \in S, NEW v \in Int
  PROVE  SumFunction([f EXCEPT ![x] = v]) = SumFunction(f) - f[x] + v
<1> DEFINE g == [f EXCEPT ![x] = v]
<1>1. g \in [S -> Int] /\ g[x] = v /\ \A y \in S \ {x} : g[y] = f[y]
  OBVIOUS
<1> HIDE DEF g
<1>2. SumOver(f, S \ {x}) = SumOver(g, S \ {x}) /\ SumOver(f, S \ {x}) \in Int
  BY <1>1, PartialsAgree, PartialUnfolds
<1>3. SumOver(f, S) = f[x] + SumOver(f, S \ {x})
  BY PartialRemoves
<1>4. SumOver(g, S) = v + SumOver(g, S \ {x})
  BY <1>1, PartialRemoves
<1>5. SumFunction(f) = SumOver(f, S) /\ SumFunction(g) = SumOver(g, S)
  BY <1>1, SumIsPartial
<1>6. f[x] \in Int
  OBVIOUS
<1>7. SumFunction(g) = SumFunction(f) - f[x] + v
  BY <1>2, <1>3, <1>4, <1>5, <1>6
<1> QED BY <1>7 DEF g

\* What is at most an amount for each element.
LEMMA SumAtMost ==
  ASSUME NEW S, IsFiniteSet(S), NEW f \in [S -> Int], NEW c \in Int, \A x \in S : f[x] <= c
  PROVE  SumFunction(f) <= c * Cardinality(S)
<1> DEFINE T == {s \in SUBSET S : SumOver(f, s) <= c * Cardinality(s)}
<1>1. /\ SumOver(f, {}) = 0
      /\ \A s \in SUBSET S : SumOver(f, s) \in Int /\ IsFiniteSet(s) /\ Cardinality(s) \in Nat
  BY PartialUnfolds, FS_Subset, FS_CardinalityType
<1>2. \A s \in SUBSET S, x \in S : x \in s => SumOver(f, s) = f[x] + SumOver(f, s \ {x})
  BY PartialRemoves
<1>3. ASSUME NEW s \in SUBSET S, \A x \in s : s \ {x} \in T
      PROVE  SumOver(f, s) <= c * Cardinality(s)
  <2>1. CASE s = {}
    <3>1. c * Cardinality(s) = 0
      BY <2>1, FS_EmptySet
    <3> QED BY <1>1, <2>1, <3>1
  <2>2. CASE s # {}
    <3>1. PICK x \in s : TRUE
      BY <2>2
    <3>2. Cardinality(s \ {x}) = Cardinality(s) - 1
      BY <1>1, <3>1, FS_RemoveElement
    <3>3. SumOver(f, s \ {x}) <= c * Cardinality(s \ {x})
      BY <1>3, <3>1
    <3>4. SumOver(f, s) = f[x] + SumOver(f, s \ {x}) /\ f[x] <= c /\ f[x] \in Int
      BY <1>2, <3>1
    <3>5. Cardinality(s) \in Nat /\ SumOver(f, s \ {x}) \in Int
      BY <1>1
    <3>6. c * (Cardinality(s) - 1) = c * Cardinality(s) - c
      BY <3>5
    <3>7. c * Cardinality(s) \in Int
      BY <3>5
    <3> QED BY <3>2, <3>3, <3>4, <3>5, <3>6, <3>7
  <2> QED BY <2>1, <2>2
<1>4. \A s \in SUBSET S : (\A x \in s : s \ {x} \in T) => s \in T
  BY <1>3
<1>5. \A s \in SUBSET S : s \in T
  <2> HIDE DEF T
  <2> QED BY <1>4, SubsetInduction
<1> QED BY <1>5, SumIsPartial

\* Sums of numbers one of which is never more than the other, each times a factor.
LEMMA SumsCompare ==
  ASSUME NEW S, IsFiniteSet(S), NEW f \in [S -> Int], NEW g \in [S -> Int],
         NEW a \in Int, NEW b \in Int, \A x \in S : a * f[x] <= b * g[x]
  PROVE  a * SumFunction(f) <= b * SumFunction(g)
<1> DEFINE T == {s \in SUBSET S : a * SumOver(f, s) <= b * SumOver(g, s)}
<1>1. /\ SumOver(f, {}) = 0 /\ SumOver(g, {}) = 0
      /\ \A s \in SUBSET S : SumOver(f, s) \in Int /\ SumOver(g, s) \in Int
  BY PartialUnfolds
<1>2. \A s \in SUBSET S, x \in S : x \in s => SumOver(f, s) = f[x] + SumOver(f, s \ {x})
  BY PartialRemoves
<1>3. \A s \in SUBSET S, x \in S : x \in s => SumOver(g, s) = g[x] + SumOver(g, s \ {x})
  BY PartialRemoves
<1>4. ASSUME NEW s \in SUBSET S, \A x \in s : s \ {x} \in T
      PROVE  a * SumOver(f, s) <= b * SumOver(g, s)
  <2>1. CASE s = {}
    BY <1>1, <2>1
  <2>2. CASE s # {}
    <3>1. PICK x \in s : TRUE
      BY <2>2
    <3> DEFINE fx == f[x]
               gx == g[x]
               fs == SumOver(f, s \ {x})
               gs == SumOver(g, s \ {x})
    <3>2. SumOver(f, s) = fx + fs /\ SumOver(g, s) = gx + gs
      BY <1>2, <1>3, <3>1
    <3>3. a * fs <= b * gs /\ a * fx <= b * gx
      BY <1>4, <3>1
    <3>4. fx \in Int /\ gx \in Int /\ fs \in Int /\ gs \in Int
      BY <1>1
    <3> HIDE DEF fx, gx, fs, gs
    <3>5. a * (fx + fs) = a * fx + a * fs /\ b * (gx + gs) = b * gx + b * gs
      BY <3>4
    <3>6. a * fx \in Int /\ a * fs \in Int /\ b * gx \in Int /\ b * gs \in Int
      BY <3>4
    <3> QED BY <3>2, <3>3, <3>5, <3>6
  <2> QED BY <2>1, <2>2
<1>5. \A s \in SUBSET S : (\A x \in s : s \ {x} \in T) => s \in T
  BY <1>4
<1>6. \A s \in SUBSET S : s \in T
  <2> HIDE DEF T
  <2> QED BY <1>5, SubsetInduction
<1> QED BY <1>6, SumIsPartial

\* The values of some elements are raised by one.
LEMMA SumRaised ==
  ASSUME NEW S, IsFiniteSet(S), NEW f \in [S -> Int], NEW g \in [S -> Int], NEW A \in SUBSET S,
         \A x \in S : g[x] = IF x \in A THEN f[x] + 1 ELSE f[x]
  PROVE  SumFunction(g) = SumFunction(f) + Cardinality(A)
<1> DEFINE T == {s \in SUBSET S : SumOver(g, s) = SumOver(f, s) + Cardinality(A \cap s)}
<1>1. /\ SumOver(f, {}) = 0 /\ SumOver(g, {}) = 0
      /\ \A s \in SUBSET S : /\ SumOver(f, s) \in Int /\ SumOver(g, s) \in Int
                             /\ IsFiniteSet(A \cap s) /\ Cardinality(A \cap s) \in Nat
  BY PartialUnfolds, FS_Subset, FS_CardinalityType
<1>2. \A s \in SUBSET S, x \in S : x \in s => SumOver(f, s) = f[x] + SumOver(f, s \ {x})
  BY PartialRemoves
<1>3. \A s \in SUBSET S, x \in S : x \in s => SumOver(g, s) = g[x] + SumOver(g, s \ {x})
  BY PartialRemoves
<1>4. ASSUME NEW s \in SUBSET S, \A x \in s : s \ {x} \in T
      PROVE  SumOver(g, s) = SumOver(f, s) + Cardinality(A \cap s)
  <2>1. CASE s = {}
    <3>1. A \cap s = {}
      BY <2>1
    <3> QED BY <1>1, <2>1, <3>1, FS_EmptySet
  <2>2. CASE s # {}
    <3>1. PICK x \in s : TRUE
      BY <2>2
    <3>2. SumOver(g, s \ {x}) = SumOver(f, s \ {x}) + Cardinality(A \cap (s \ {x}))
      BY <1>4, <3>1
    <3>3. SumOver(f, s) = f[x] + SumOver(f, s \ {x}) /\ SumOver(g, s) = g[x] + SumOver(g, s \ {x})
      BY <1>2, <1>3, <3>1
    <3>4. /\ f[x] \in Int /\ g[x] \in Int
          /\ SumOver(f, s \ {x}) \in Int /\ SumOver(g, s \ {x}) \in Int
          /\ Cardinality(A \cap s) \in Nat
      BY <1>1
    <3>5. CASE x \in A
      <4>1. A \cap (s \ {x}) = (A \cap s) \ {x} /\ x \in A \cap s
        BY <3>1, <3>5
      <4>2. Cardinality(A \cap (s \ {x})) = Cardinality(A \cap s) - 1
        <5> DEFINE B == A \cap s
        <5>1. IsFiniteSet(B) /\ x \in B
          BY <1>1, <4>1
        <5> HIDE DEF B
        <5>2. Cardinality(B \ {x}) = Cardinality(B) - 1
          BY <5>1, FS_RemoveElement
        <5> QED BY <4>1, <5>2 DEF B
      <4> QED BY <3>2, <3>3, <3>4, <3>5, <4>2
    <3>6. CASE x \notin A
      <4>1. A \cap (s \ {x}) = A \cap s
        BY <3>6
      <4> QED BY <3>2, <3>3, <3>4, <3>6, <4>1
    <3> QED BY <3>5, <3>6
  <2> QED BY <2>1, <2>2
<1>5. \A s \in SUBSET S : (\A x \in s : s \ {x} \in T) => s \in T
  BY <1>4
<1>6. \A s \in SUBSET S : s \in T
  <2> HIDE DEF T
  <2> QED BY <1>5, SubsetInduction
<1>7. S \in T /\ A \cap S = A
  BY <1>6
<1> QED BY <1>7, SumIsPartial

\* No value is more than the sum, where none is negative.
LEMMA SumHasEach ==
  ASSUME NEW S, IsFiniteSet(S), NEW f \in [S -> Nat]
  PROVE  SumFunction(f) \in Nat /\ \A x \in S : f[x] <= SumFunction(f)
<1>1. f \in [S -> Int]
  OBVIOUS
<1> DEFINE T == {s \in SUBSET S : SumOver(f, s) \in Nat}
<1>2. SumOver(f, {}) = 0
  BY <1>1, PartialUnfolds
<1>3. \A s \in SUBSET S, x \in S : x \in s => SumOver(f, s) = f[x] + SumOver(f, s \ {x})
  BY <1>1, PartialRemoves
<1>4. ASSUME NEW s \in SUBSET S, \A x \in s : s \ {x} \in T
      PROVE  SumOver(f, s) \in Nat
  <2>1. CASE s = {}
    BY <1>2, <2>1
  <2>2. CASE s # {}
    <3>1. PICK x \in s : TRUE
      BY <2>2
    <3>2. SumOver(f, s \ {x}) \in Nat /\ f[x] \in Nat
      BY <1>4, <3>1
    <3>3. SumOver(f, s) = f[x] + SumOver(f, s \ {x})
      BY <1>3, <3>1
    <3> QED BY <3>2, <3>3
  <2> QED BY <2>1, <2>2
<1>5. \A s \in SUBSET S : (\A x \in s : s \ {x} \in T) => s \in T
  BY <1>4
<1>6. \A s \in SUBSET S : s \in T
  <2> HIDE DEF T
  <2> QED BY <1>5, SubsetInduction
<1>7. ASSUME NEW x \in S
      PROVE  f[x] <= SumOver(f, S)
  <2>1. SumOver(f, S) = f[x] + SumOver(f, S \ {x}) /\ SumOver(f, S \ {x}) \in Nat
    BY <1>3, <1>6
  <2> QED BY <2>1
<1> QED BY <1>6, <1>7, SumIsPartial

\* The sum of three values.
LEMMA SumOfThree ==
  ASSUME NEW S, IsFiniteSet(S), NEW f \in [S -> Int],
         NEW a \in S, NEW b \in S, NEW c \in S, S \ {a, b, c} = {}, a # b, a # c, b # c
  PROVE  SumFunction(f) = f[a] + f[b] + f[c]
<1>1. SumOver(f, {}) = 0
  BY PartialUnfolds
<1>2. \A s \in SUBSET S, x \in S : x \in s => SumOver(f, s) = f[x] + SumOver(f, s \ {x})
  BY PartialRemoves
<1> DEFINE A == S \ {a}
           B == A \ {b}
<1>3. /\ b \in A /\ c \in B
      /\ A \in SUBSET S /\ B \in SUBSET S /\ B \ {c} = {}
  OBVIOUS
<1>4. SumOver(f, S) = f[a] + SumOver(f, A)
  BY <1>2, <1>3
<1>5. SumOver(f, A) = f[b] + SumOver(f, B)
  <2> HIDE DEF A
  <2> QED BY <1>2, <1>3
<1>6. SumOver(f, B) = f[c] + 0
  <2> HIDE DEF A, B
  <2>1. SumOver(f, B) = f[c] + SumOver(f, B \ {c})
    BY <1>2, <1>3
  <2> QED BY <1>1, <1>3, <2>1
<1>7. f[a] \in Int /\ f[b] \in Int /\ f[c] \in Int
  OBVIOUS
<1> QED BY <1>4, <1>5, <1>6, <1>7, SumIsPartial

-----------------------------------------------------------------------------
(* Amounts dealt in turns: the turns are those of the places of the order  *)
(* again and again.                                                        *)

\* How often it was the turn of place x, when there were k turns of n places.
Turns(n, k, x) == k \div n + (IF x <= k % n THEN 1 ELSE 0)

\* A turn more is the turn of one place.
LEMMA TurnsCycle ==
  ASSUME NEW n \in Nat \ {0}, NEW k \in Nat
  PROVE  /\ k % n \in 0..(n - 1) /\ k \div n \in Nat /\ k = n * (k \div n) + (k % n)
         /\ (k + 1) % n = IF k % n = n - 1 THEN 0 ELSE (k % n) + 1
         /\ (k + 1) \div n = IF k % n = n - 1 THEN k \div n + 1 ELSE k \div n
<1> DEFINE q == k \div n
           r == k % n
           a == (k + 1) \div n
           b == (k + 1) % n
<1>1. q \in Nat /\ r \in 0..(n - 1) /\ k = n * q + r
  OBVIOUS
<1>2. a \in Nat /\ b \in 0..(n - 1) /\ k + 1 = n * a + b
  OBVIOUS
<1> HIDE DEF q, r, a, b
<1>3. n * a + b = n * q + r + 1
  BY <1>1, <1>2
<1>4. CASE r = n - 1
  <2>1. n * (q + 1) = n * q + n
    BY <1>1
  <2>2. n * a + b = n * (q + 1)
    BY <1>1, <1>2, <1>3, <1>4, <2>1
  <2>3. a = q + 1
    <3>1. CASE a < q + 1
      <4>1. PICK d \in Nat : q + 1 = a + 1 + d
        BY <1>1, <1>2, <3>1
      <4>2. n * (a + 1 + d) = n * a + n + n * d /\ n * d >= 0 /\ n * a \in Int /\ n * d \in Int
        BY <1>2, <4>1
      <4> QED BY <1>2, <2>2, <4>1, <4>2
    <3>2. CASE a > q + 1
      <4>1. PICK d \in Nat : a = q + 1 + 1 + d
        BY <1>1, <1>2, <3>2
      <4>2. n * a = n * (q + 1) + n + n * d /\ n * d >= 0 /\ n * (q + 1) \in Int /\ n * d \in Int
        BY <1>1, <4>1
      <4> QED BY <1>2, <2>2, <4>2
    <3> QED BY <1>1, <1>2, <3>1, <3>2
  <2>4. b = 0
    <3>1. n * (q + 1) \in Int
      BY <1>1
    <3> QED BY <1>2, <2>2, <2>3, <3>1
  <2> QED BY <1>1, <1>4, <2>3, <2>4 DEF q, r, a, b
<1>5. CASE r # n - 1
  <2>1. a = q
    <3>1. CASE a < q
      <4>1. PICK d \in Nat : q = a + 1 + d
        BY <1>1, <1>2, <3>1
      <4>2. n * q = n * a + n + n * d /\ n * d >= 0 /\ n * a \in Int /\ n * d \in Int
        BY <1>2, <4>1
      <4> QED BY <1>1, <1>2, <1>3, <4>2
    <3>2. CASE a > q
      <4>1. PICK d \in Nat : a = q + 1 + d
        BY <1>1, <1>2, <3>2
      <4>2. n * a = n * q + n + n * d /\ n * d >= 0 /\ n * q \in Int /\ n * d \in Int
        BY <1>1, <4>1
      <4> QED BY <1>1, <1>2, <1>3, <1>5, <4>2
    <3> QED BY <1>1, <1>2, <3>1, <3>2
  <2>2. b = r + 1
    <3>1. n * q \in Int
      BY <1>1
    <3> QED BY <1>1, <1>2, <1>3, <2>1, <3>1
  <2> QED BY <1>1, <1>5, <2>1, <2>2 DEF q, r, a, b
<1> QED BY <1>4, <1>5

\* All turns together.
LEMMA TurnsCount ==
  ASSUME NEW n \in Nat \ {0}, NEW x \in 1..n
  PROVE  /\ Turns(n, 0, x) = 0
         /\ \A k \in Nat : /\ Turns(n, k, x) \in Nat
                           /\ (k % n) + 1 \in 1..n
                           /\ Turns(n, k + 1, x) = IF x = (k % n) + 1 THEN Turns(n, k, x) + 1 ELSE Turns(n, k, x)
<1>1. Turns(n, 0, x) = 0
  <2>1. 0 \div n = 0 /\ 0 % n = 0
    OBVIOUS
  <2> QED BY <2>1 DEF Turns
<1>2. ASSUME NEW k \in Nat
      PROVE  /\ Turns(n, k, x) \in Nat
             /\ (k % n) + 1 \in 1..n
             /\ Turns(n, k + 1, x) = IF x = (k % n) + 1 THEN Turns(n, k, x) + 1 ELSE Turns(n, k, x)
  <2> DEFINE q == k \div n
             r == k % n
             a == (k + 1) \div n
             b == (k + 1) % n
  <2>1. /\ r \in 0..(n - 1) /\ q \in Nat
        /\ b = IF r = n - 1 THEN 0 ELSE r + 1
        /\ a = IF r = n - 1 THEN q + 1 ELSE q
    BY TurnsCycle
  <2>2. Turns(n, k, x) = q + (IF x <= r THEN 1 ELSE 0) /\ Turns(n, k + 1, x) = a + (IF x <= b THEN 1 ELSE 0)
    BY DEF Turns
  <2>3. (k % n) + 1 = r + 1
    OBVIOUS
  <2> HIDE DEF q, r, a, b
  <2> QED BY <2>1, <2>2, <2>3
<1> QED BY <1>1, <1>2

IsDealing(t, amount, order, total, least) ==
  t = [k \in Nat |-> IF k = 0 THEN amount
                     ELSE Turn(t[k - 1], order[((k - 1) % Len(amount)) + 1], total, least)]
Dealing(amount, order, total, least) == CHOOSE t : IsDealing(t, amount, order, total, least)
DealtAfter(k, amount, order, total, least) == Dealing(amount, order, total, least)[k]

\* What is dealt are the amounts after the last turn.
LEMMA DealtIsDealing ==
  ASSUME NEW amount, NEW order, NEW total, NEW least
  PROVE  Dealt(amount, order, total, least)
           = DealtAfter(Len(amount) * Greater(total, SumFunction(amount)), amount, order, total, least)
BY DEF Dealt, DealtAfter, Dealing, IsDealing

TurnTaken(n, amount, i, total, least) ==
  /\ Turn(amount, i, total, least) \in [1..n -> Int]
  /\ SumFunction(amount) \in Int
  /\ SumFunction(amount) < total =>
       /\ Turn(amount, i, total, least) = [amount EXCEPT ![i] = @ + 1]
       /\ SumFunction(Turn(amount, i, total, least)) = SumFunction(amount) + 1
  /\ SumFunction(amount) > total /\ amount[i] > least =>
       /\ Turn(amount, i, total, least) = [amount EXCEPT ![i] = @ - 1]
       /\ SumFunction(Turn(amount, i, total, least)) = SumFunction(amount) - 1
  /\ SumFunction(amount) > total /\ ~(amount[i] > least) => Turn(amount, i, total, least) = amount
  /\ SumFunction(amount) = total => Turn(amount, i, total, least) = amount

\* A turn keeps the type of the amounts.
LEMMA TurnType ==
  ASSUME NEW n \in Nat, NEW amount \in [1..n -> Int], NEW i \in 1..n, NEW total \in Int, NEW least \in Int
  PROVE  TurnTaken(n, amount, i, total, least)
<1> DEFINE S == 1..n
           T == Turn(amount, i, total, least)
           s == SumFunction(amount)
<1>1. IsFiniteSet(S)
  BY FS_Interval
<1>2. amount \in [S -> Int] /\ i \in S /\ amount[i] \in Int
  OBVIOUS
<1>3. s \in Int
  <2> HIDE DEF S
  <2> QED BY <1>1, <1>2, SumType
<1>4. /\ s < total => T = [amount EXCEPT ![i] = @ + 1]
      /\ s > total /\ amount[i] > least => T = [amount EXCEPT ![i] = @ - 1]
      /\ s > total /\ ~(amount[i] > least) => T = amount
      /\ s = total => T = amount
  <2> HIDE DEF S, s
  <2>1. T = CASE s < total -> [amount EXCEPT ![i] = @ + 1]
              [] s > total /\ amount[i] > least -> [amount EXCEPT ![i] = @ - 1]
              [] OTHER -> amount
    BY DEF Turn, s
  <2> HIDE DEF T
  <2> QED BY <1>3, <2>1
<1>5. /\ SumFunction([amount EXCEPT ![i] = amount[i] + 1]) = s - amount[i] + (amount[i] + 1)
      /\ SumFunction([amount EXCEPT ![i] = amount[i] - 1]) = s - amount[i] + (amount[i] - 1)
  <2>1. amount[i] + 1 \in Int /\ amount[i] - 1 \in Int
    BY <1>2
  <2> DEFINE up == amount[i] + 1
             down == amount[i] - 1
  <2> HIDE DEF S, up, down
  <2>2. up \in Int /\ down \in Int
    BY <2>1 DEF up, down
  <2>3. SumFunction([amount EXCEPT ![i] = up]) = s - amount[i] + up
    BY <1>1, <1>2, <2>2, SumUpdates
  <2>4. SumFunction([amount EXCEPT ![i] = down]) = s - amount[i] + down
    BY <1>1, <1>2, <2>2, SumUpdates
  <2> QED BY <2>3, <2>4 DEF up, down
<1>6. T \in [S -> Int]
  <2>1. s < total \/ (s > total /\ amount[i] > least) \/ (s > total /\ ~(amount[i] > least)) \/ s = total
    <3> HIDE DEF s
    <3> QED BY <1>3
  <2> HIDE DEF T, s
  <2> QED BY <1>2, <1>4, <2>1
<1>7. /\ s - amount[i] + (amount[i] + 1) = s + 1
      /\ s - amount[i] + (amount[i] - 1) = s - 1
  <2> HIDE DEF s
  <2> QED BY <1>2, <1>3
<1>8. /\ s < total => SumFunction(T) = s + 1
      /\ s > total /\ amount[i] > least => SumFunction(T) = s - 1
  <2> HIDE DEF T, s
  <2> QED BY <1>4, <1>5, <1>7
<1> HIDE DEF T, s
<1> QED BY <1>3, <1>4, <1>6, <1>8 DEF T, s, TurnTaken

DealsInTurns(n, amount, order, total, least) ==
  /\ DealtAfter(0, amount, order, total, least) = amount
  /\ \A k \in Nat :
       /\ DealtAfter(k, amount, order, total, least) \in [1..n -> Int]
       /\ DealtAfter(k + 1, amount, order, total, least)
            = Turn(DealtAfter(k, amount, order, total, least), order[(k % n) + 1], total, least)

\* The amounts after each turn.
LEMMA DealingUnfolds ==
  ASSUME NEW n \in Nat \ {0}, NEW amount \in [1..n -> Int], NEW order \in [1..n -> 1..n],
         NEW total \in Int, NEW least \in Int
  PROVE  DealsInTurns(n, amount, order, total, least)
<1> DEFINE X == [1..n -> Int]
           next(x, k) == Turn(x, order[((k - 1) % n) + 1], total, least)
           g == [p \in (Nat \ {0}) \X X |-> next(p[2], p[1])]
<1>1. n = Len(amount)
  OBVIOUS
<1>2. \A k \in Nat : order[(k % n) + 1] \in 1..n
  <2>1. ASSUME NEW k \in Nat
        PROVE  (k % n) + 1 \in 1..n
    <3> DEFINE r == k % n
    <3>1. r \in 0..(n - 1)
      BY TurnsCycle
    <3> HIDE DEF r
    <3>2. r + 1 \in 1..n
      BY <3>1
    <3> QED BY <3>2 DEF r
  <2> QED BY <2>1
<1>3. ASSUME NEW k \in Nat \ {0}, NEW x \in X
      PROVE  next(x, k) \in X
  <2>1. k - 1 \in Nat
    OBVIOUS
  <2>2. order[((k - 1) % n) + 1] \in 1..n
    BY <1>2, <2>1
  <2> QED BY <2>2, TurnType DEF TurnTaken
<1>4. g \in [(Nat \ {0}) \X X -> X]
  <2> HIDE DEF X, next
  <2> QED BY <1>3
<1>5. amount \in X
  OBVIOUS
<1>6. \A k \in Nat \ {0}, x \in X : g[<<k, x>>] = next(x, k)
  <2> HIDE DEF X, next
  <2> QED OBVIOUS
<1>7. PICK t : Unrolls(t, amount, g)
  BY NumberRecursion
<1>8. t \in [Nat -> X] /\ t[0] = amount /\ \A k \in Nat \ {0} : t[k] = g[<<k, t[k - 1]>>]
  <2> HIDE DEF X, g
  <2>1. Typed(t, X, amount, g)
    BY <1>4, <1>5, <1>7, TypedRecursion
  <2> QED BY <2>1 DEF Typed
<1>9. \A k \in Nat \ {0} : t[k] = next(t[k - 1], k)
  <2> HIDE DEF X, next, g
  <2>1. \A k \in Nat \ {0} : k - 1 \in Nat
    OBVIOUS
  <2> QED BY <1>6, <1>8, <2>1
<1>10. IsDealing(t, amount, order, total, least)
  <2>1. t = [k \in Nat |-> IF k = 0 THEN amount ELSE next(t[k - 1], k)]
    <3> HIDE DEF next, g
    <3> QED BY <1>8, <1>9
  <2> QED BY <2>1, <1>1 DEF IsDealing
<1> DEFINE D == Dealing(amount, order, total, least)
<1>11. IsDealing(D, amount, order, total, least)
  BY <1>10, Zenon DEF Dealing
<1>12. D = [k \in Nat |-> IF k = 0 THEN amount ELSE next(D[k - 1], k)]
  <2> HIDE DEF D
  <2> QED BY <1>11, <1>1 DEF IsDealing
<1> HIDE DEF D
<1>13. D[0] = amount /\ \A k \in Nat \ {0} : D[k] = next(D[k - 1], k)
  <2> HIDE DEF next
  <2> QED BY <1>12
<1>14. \A k \in Nat : D[k + 1] = next(D[k], k + 1)
  <2> HIDE DEF next
  <2>1. \A k \in Nat : k + 1 \in Nat \ {0} /\ (k + 1) - 1 = k
    OBVIOUS
  <2> QED BY <1>13, <2>1
<1> DEFINE T == {k \in Nat : D[k] \in X}
<1>15. 0 \in T
  BY <1>5, <1>13
<1>16. ASSUME NEW k \in Nat, k \in T
       PROVE  k + 1 \in T
  <2> HIDE DEF next, X
  <2>1. k + 1 \in Nat \ {0}
    OBVIOUS
  <2> QED BY <1>3, <1>14, <1>16, <2>1
<1>17. \A k \in Nat : k \in T
  <2> HIDE DEF T
  <2> QED BY <1>15, <1>16, NumberInduction
<1>18. ASSUME NEW k \in Nat
       PROVE  next(D[k], k + 1) = Turn(D[k], order[(k % n) + 1], total, least)
  <2>1. (k + 1) - 1 = k
    OBVIOUS
  <2> QED BY <2>1
<1>19. /\ D[0] = amount
       /\ \A k \in Nat : D[k] \in [1..n -> Int] /\ D[k + 1] = Turn(D[k], order[(k % n) + 1], total, least)
  <2> HIDE DEF next
  <2> QED BY <1>13, <1>14, <1>17, <1>18
<1>20. \A k : D[k] = DealtAfter(k, amount, order, total, least)
  BY DEF D, DealtAfter
<1> QED BY <1>19, <1>20 DEF DealsInTurns

\* The places of an order are those of its elements.
IsOrder(order, n) ==
  /\ order \in [1..n -> 1..n]
  /\ \A x, y \in 1..n : order[x] = order[y] => x = y
  /\ \A i \in 1..n : \E x \in 1..n : order[x] = i

\* An order has every place once.
LEMMA BijectionIsOrder ==
  ASSUME NEW n \in Nat, NEW order \in Bijection(1..n, 1..n)
  PROVE  IsOrder(order, n)
BY DEF IsOrder, Bijection, Injection, Surjection, IsInjective

Gained(amount, order, n, k, a) ==
  /\ a \in [1..n -> Int]
  /\ SumFunction(a) = SumFunction(amount) + k
  /\ \A x \in 1..n : a[order[x]] = amount[order[x]] + Turns(n, k, x)

\* Amounts that are too few gain exactly what lacks, in turns.
LEMMA DealtGains ==
  ASSUME NEW n \in Nat \ {0}, NEW amount \in [1..n -> Nat], NEW order, IsOrder(order, n),
         NEW total \in Nat, NEW least \in Int, SumFunction(amount) <= total
  PROVE  /\ total - SumFunction(amount) \in Nat
         /\ Gained(amount, order, n, total - SumFunction(amount), Dealt(amount, order, total, least))
<1> DEFINE A(k) == DealtAfter(k, amount, order, total, least)
           s == SumFunction(amount)
           d == total - s
           i(k) == order[(k % n) + 1]
<1>1. amount \in [1..n -> Int] /\ order \in [1..n -> 1..n] /\ total \in Int
  <2>1. amount \in [1..n -> Int]
    OBVIOUS
  <2>2. order \in [1..n -> 1..n]
    BY DEF IsOrder
  <2> QED BY <2>1, <2>2
<1>2. A(0) = amount /\ \A k \in Nat : A(k) \in [1..n -> Int] /\ A(k + 1) = Turn(A(k), i(k), total, least)
  <2>1. DealsInTurns(n, amount, order, total, least)
    BY <1>1, DealingUnfolds
  <2> QED BY <2>1 DEF DealsInTurns
<1>3. s \in Nat
  <2>1. IsFiniteSet(1..n)
    BY FS_Interval
  <2> QED BY <2>1, SumHasEach
<1>4. d \in Nat /\ s + d = total
  <2> HIDE DEF s
  <2> QED BY <1>3 DEF s
<1>5. \A k \in Nat : (k % n) + 1 \in 1..n /\ i(k) \in 1..n
  <2>1. ASSUME NEW k \in Nat
        PROVE  (k % n) + 1 \in 1..n
    <3>1. 1 \in 1..n
      OBVIOUS
    <3> QED BY <3>1, TurnsCount
  <2> QED BY <1>1, <2>1
<1> HIDE DEF A, s, d, i
<1> DEFINE T == {k \in Nat : k <= d => Gained(amount, order, n, k, A(k))}
<1>6. 0 \in T
  <2>1. SumFunction(amount) = SumFunction(amount) + 0
    BY <1>3 DEF s
  <2>2. \A x \in 1..n : amount[order[x]] = amount[order[x]] + Turns(n, 0, x)
    <3>1. \A x \in 1..n : Turns(n, 0, x) = 0
      BY TurnsCount
    <3>2. \A x \in 1..n : amount[order[x]] \in Int
      BY <1>1
    <3> QED BY <3>1, <3>2
  <2> QED BY <1>1, <1>2, <2>1, <2>2 DEF Gained
<1>7. ASSUME NEW k \in Nat, k \in T
      PROVE  k + 1 \in T
  <2> SUFFICES ASSUME k + 1 <= d
               PROVE  Gained(amount, order, n, k + 1, A(k + 1))
    OBVIOUS
  <2> DEFINE a == A(k)
             j == i(k)
             b == Turn(a, j, total, least)
  <2>1. /\ a \in [1..n -> Int] /\ SumFunction(a) = s + k
        /\ \A x \in 1..n : a[order[x]] = amount[order[x]] + Turns(n, k, x)
    BY <1>4, <1>7 DEF Gained, s
  <2>2. SumFunction(a) < total /\ j \in 1..n
    BY <1>3, <1>4, <1>5, <2>1
  <2>3. b \in [1..n -> Int] /\ b = [a EXCEPT ![j] = @ + 1] /\ SumFunction(b) = SumFunction(a) + 1
    <3> HIDE DEF a, j
    <3>1. TurnTaken(n, a, j, total, least)
      BY <2>1, <2>2, TurnType
    <3> QED BY <2>2, <3>1 DEF TurnTaken
  <2>4. A(k + 1) = b
    BY <1>2
  <2>5. SumFunction(b) = s + (k + 1)
    BY <1>3, <2>1, <2>3
  <2>6. ASSUME NEW x \in 1..n
        PROVE  b[order[x]] = amount[order[x]] + Turns(n, k + 1, x)
    <3>1. /\ Turns(n, k, x) \in Nat
          /\ Turns(n, k + 1, x) = IF x = (k % n) + 1 THEN Turns(n, k, x) + 1 ELSE Turns(n, k, x)
      BY TurnsCount
    <3>2. order[x] \in 1..n /\ amount[order[x]] \in Int
      BY <1>1
    <3>3. order[x] = j <=> x = (k % n) + 1
      BY <1>5 DEF i, IsOrder
    <3>4. a[order[x]] = amount[order[x]] + Turns(n, k, x)
      BY <2>1
    <3> HIDE DEF a, j, b
    <3>5. b[order[x]] = IF order[x] = j THEN a[order[x]] + 1 ELSE a[order[x]]
      BY <2>1, <2>3, <3>2
    <3> QED BY <3>1, <3>2, <3>3, <3>4, <3>5
  <2> HIDE DEF b
  <2> QED BY <2>3, <2>4, <2>5, <2>6 DEF Gained, s
<1>8. \A k \in Nat : k \in T
  <2> HIDE DEF T
  <2> QED BY <1>6, <1>7, NumberInduction
<1>9. Gained(amount, order, n, d, A(d))
  BY <1>4, <1>8
<1> DEFINE U == {k \in Nat : A(d + k) = A(d)}
<1>10. 0 \in U
  BY <1>4
<1>11. ASSUME NEW k \in Nat, k \in U
       PROVE  k + 1 \in U
  <2>1. A(d) \in [1..n -> Int] /\ SumFunction(A(d)) = total
    <3>1. A(d) \in [1..n -> Int] /\ SumFunction(A(d)) = SumFunction(amount) + d
      BY <1>9 DEF Gained
    <3> QED BY <1>4, <3>1 DEF s
  <2>2. d + k \in Nat /\ d + (k + 1) = (d + k) + 1 /\ i(d + k) \in 1..n
    <3>1. d + k \in Nat /\ d + (k + 1) = (d + k) + 1
      BY <1>4
    <3> DEFINE e == d + k
    <3> HIDE DEF e
    <3>2. e \in Nat => i(e) \in 1..n
      BY <1>5
    <3> QED BY <3>1, <3>2 DEF e
  <2>3. A(d + (k + 1)) = Turn(A(d), i(d + k), total, least)
    BY <1>2, <1>11, <2>2
  <2>4. Turn(A(d), i(d + k), total, least) = A(d)
    <3> DEFINE a == A(d)
    <3> HIDE DEF a
    <3>1. a \in [1..n -> Int] /\ SumFunction(a) = total
      BY <2>1 DEF a
    <3>2. Turn(a, i(d + k), total, least) = a
      BY <2>2, <3>1, TurnType DEF TurnTaken
    <3> QED BY <3>2 DEF a
  <2> QED BY <2>3, <2>4
<1>12. \A k \in Nat : k \in U
  <2> HIDE DEF U
  <2> QED BY <1>10, <1>11, NumberInduction
<1>13. \A k \in Nat : A(d + k) = A(d)
  BY <1>12
<1> HIDE DEF T, U
<1>14. n * Greater(total, s) \in Nat /\ n * Greater(total, s) >= d
  <2>1. Greater(total, s) = total
    BY <1>3, <1>4 DEF Greater, d
  <2>2. n * total >= total /\ n * total \in Nat
    <3>1. PICK m \in Nat : n = m + 1
      <4>1. n - 1 \in Nat /\ n = (n - 1) + 1
        OBVIOUS
      <4> QED BY <4>1
    <3>2. (m + 1) * total = m * total + total /\ m * total \in Nat
      BY <3>1
    <3> QED BY <3>1, <3>2
  <2> QED BY <1>3, <1>4, <2>1, <2>2
<1>15. Dealt(amount, order, total, least) = A(n * Greater(total, s))
  <2>1. Len(amount) = n
    OBVIOUS
  <2> QED BY <2>1, DealtIsDealing DEF A, s
<1>16. n * Greater(total, s) - d \in Nat /\ d + (n * Greater(total, s) - d) = n * Greater(total, s)
  BY <1>4, <1>14
<1>17. Dealt(amount, order, total, least) = A(d)
  BY <1>13, <1>15, <1>16
<1> QED BY <1>4, <1>9, <1>17 DEF d, s

\* Turns that divide evenly.
LEMMA WholeTurns ==
  ASSUME NEW n \in Nat \ {0}, NEW m \in Nat, NEW x \in 1..n
  PROVE  n * m \in Nat /\ Turns(n, n * m, x) = m
<1> DEFINE k == n * m
           q == k \div n
           r == k % n
<1>1. k \in Nat
  OBVIOUS
<1>2. q \in Nat /\ r \in 0..(n - 1) /\ k = n * q + r
  <2> HIDE DEF k
  <2> QED BY <1>1, TurnsCycle
<1>3. k = n * m
  OBVIOUS
<1>4. Turns(n, k, x) = q + (IF x <= r THEN 1 ELSE 0)
  <2> HIDE DEF k
  <2> QED BY DEF Turns
<1> HIDE DEF k, q, r
<1>5. CASE m < q
  <2>1. PICK d \in Nat : q = m + 1 + d
    BY <1>2, <1>5
  <2>2. n * q = n * m + n + n * d /\ n * d >= 0 /\ n * m \in Int /\ n * d \in Int
    BY <2>1
  <2> QED BY <1>2, <1>3, <2>2
<1>6. CASE m > q
  <2>1. PICK d \in Nat : m = q + 1 + d
    BY <1>2, <1>6
  <2>2. n * m = n * q + n + n * d /\ n * d >= 0 /\ n * q \in Int /\ n * d \in Int
    BY <1>2, <2>1
  <2> QED BY <1>2, <1>3, <2>2
<1>7. CASE m = q
  <2>1. r = 0
    <3>1. n * q \in Int
      BY <1>2
    <3> QED BY <1>2, <1>3, <1>7, <3>1
  <2> QED BY <1>1, <1>2, <1>4, <1>7, <2>1 DEF k
<1> QED BY <1>2, <1>5, <1>6, <1>7

Lost(amount, order, least, n, k, a) ==
  /\ a \in [1..n -> Int]
  /\ \A x \in 1..n : a[order[x]] = Greater(least, amount[order[x]] - Turns(n, k, x))

\* Amounts that are too many lose until they have the total, none below the least.
LEMMA DealtLoses ==
  ASSUME NEW n \in Nat \ {0}, NEW amount \in [1..n -> Nat], NEW order, IsOrder(order, n),
         NEW total \in Nat, NEW least \in Nat, SumFunction(amount) >= total,
         total >= least * n, \A i \in 1..n : amount[i] >= least
  PROVE  /\ SumFunction(Dealt(amount, order, total, least)) = total
         /\ \E k \in Nat : Lost(amount, order, least, n, k, Dealt(amount, order, total, least))
<1> DEFINE A(k) == DealtAfter(k, amount, order, total, least)
           s == SumFunction(amount)
           i(k) == order[(k % n) + 1]
<1>1. amount \in [1..n -> Int] /\ order \in [1..n -> 1..n] /\ total \in Int /\ least \in Int
  <2>1. amount \in [1..n -> Int]
    OBVIOUS
  <2>2. order \in [1..n -> 1..n]
    BY DEF IsOrder
  <2>3. total \in Int /\ least \in Int
    OBVIOUS
  <2> QED BY <2>1, <2>2, <2>3
<1>2. A(0) = amount /\ \A k \in Nat : A(k) \in [1..n -> Int] /\ A(k + 1) = Turn(A(k), i(k), total, least)
  <2>1. DealsInTurns(n, amount, order, total, least)
    BY <1>1, DealingUnfolds
  <2> QED BY <2>1 DEF DealsInTurns
<1>3. s \in Nat /\ \A x \in 1..n : amount[x] <= s
  <2>1. IsFiniteSet(1..n)
    BY FS_Interval
  <2> QED BY <2>1, SumHasEach
<1>5. \A k \in Nat : (k % n) + 1 \in 1..n /\ i(k) \in 1..n
  <2>1. ASSUME NEW k \in Nat
        PROVE  (k % n) + 1 \in 1..n
    <3>1. 1 \in 1..n
      OBVIOUS
    <3> QED BY <3>1, TurnsCount
  <2> QED BY <1>1, <2>1
<1> HIDE DEF A, s, i
<1> DEFINE T == {k \in Nat : /\ SumFunction(A(k)) \in Int /\ SumFunction(A(k)) >= total
                             /\ \E m \in Nat : /\ SumFunction(A(k)) = total \/ m = k
                                               /\ Lost(amount, order, least, n, m, A(k))}
<1>6. 0 \in T
  <2>1. Lost(amount, order, least, n, 0, A(0))
    <3>1. ASSUME NEW x \in 1..n
          PROVE  amount[order[x]] = Greater(least, amount[order[x]] - Turns(n, 0, x))
      <4>1. Turns(n, 0, x) = 0
        BY TurnsCount
      <4>2. order[x] \in 1..n
        BY <1>1
      <4>3. amount[order[x]] \in Int /\ amount[order[x]] >= least
        BY <1>1, <4>2
      <4> QED BY <4>1, <4>3 DEF Greater
    <3> QED BY <1>1, <1>2, <3>1 DEF Lost
  <2>2. SumFunction(A(0)) = s /\ s >= total
    BY <1>2 DEF s
  <2> HIDE DEF T
  <2>3. 0 \in Nat
    OBVIOUS
  <2> QED BY <1>3, <2>1, <2>2, <2>3 DEF T
<1>7. ASSUME NEW k \in Nat, k \in T
      PROVE  k + 1 \in T
  <2> DEFINE a == A(k)
             j == i(k)
             b == Turn(a, j, total, least)
             v == SumFunction(a)
  <2>1. v \in Int /\ v >= total /\ a \in [1..n -> Int] /\ j \in 1..n
    BY <1>2, <1>5, <1>7
  <2>2. PICK m \in Nat : (v = total \/ m = k) /\ Lost(amount, order, least, n, m, a)
    BY <1>7
  <2>3. A(k + 1) = b
    BY <1>2
  <2>4. TurnTaken(n, a, j, total, least)
    <3> HIDE DEF a, j
    <3> QED BY <1>1, <2>1, TurnType
  <2>5. CASE v = total
    <3>1. b = a
      <4> HIDE DEF a, j
      <4> QED BY <2>4, <2>5 DEF TurnTaken
    <3> HIDE DEF a, b
    <3>2. SumFunction(A(k + 1)) = total /\ Lost(amount, order, least, n, m, A(k + 1))
      BY <2>2, <2>3, <2>5, <3>1
    <3> QED BY <3>2
  <2>6. CASE v # total
    <3>1. m = k /\ v > total
      BY <2>1, <2>2, <2>6
    <3>2. \A x \in 1..n : a[order[x]] = Greater(least, amount[order[x]] - Turns(n, k, x))
      <4> HIDE DEF a
      <4> QED BY <2>2, <3>1 DEF Lost
    <3>3. PICK y \in 1..n : y = (k % n) + 1 /\ j = order[y]
      BY <1>5 DEF i
    <3>4. \A x \in 1..n : order[x] = j <=> x = y
      BY <3>3 DEF IsOrder
    <3>5. ASSUME NEW x \in 1..n
          PROVE  /\ Turns(n, k, x) \in Nat /\ amount[order[x]] \in Int /\ order[x] \in 1..n
                 /\ Turns(n, k + 1, x) = IF x = y THEN Turns(n, k, x) + 1 ELSE Turns(n, k, x)
      <4>1. order[x] \in 1..n
        BY <1>1
      <4>2. amount[order[x]] \in Int
        BY <1>1, <4>1
      <4>3. /\ Turns(n, k, x) \in Nat
            /\ Turns(n, k + 1, x) = IF x = (k % n) + 1 THEN Turns(n, k, x) + 1 ELSE Turns(n, k, x)
        BY TurnsCount
      <4> QED BY <3>3, <4>1, <4>2, <4>3
    <3>6. CASE a[j] > least
      <4> HIDE DEF a, j, v
      <4>1. b = [a EXCEPT ![j] = @ - 1] /\ SumFunction(b) = v - 1 /\ b \in [1..n -> Int]
        BY <2>4, <3>1, <3>6 DEF TurnTaken, v
      <4> HIDE DEF b
      <4>2. ASSUME NEW x \in 1..n
            PROVE  b[order[x]] = Greater(least, amount[order[x]] - Turns(n, k + 1, x))
        <5>1. b[order[x]] = IF x = y THEN a[order[x]] - 1 ELSE a[order[x]]
          BY <2>1, <3>4, <3>5, <4>1
        <5>2. a[order[x]] = Greater(least, amount[order[x]] - Turns(n, k, x))
          BY <3>2
        <5>3. x = y => a[order[x]] > least
          BY <3>4, <3>6
        <5> DEFINE u == amount[order[x]]
                   t == Turns(n, k, x)
                   w == a[order[x]]
        <5>4. u \in Int /\ t \in Nat /\ Turns(n, k + 1, x) = IF x = y THEN t + 1 ELSE t
          BY <3>5
        <5>5. w = IF least >= u - t THEN least ELSE u - t
          BY <5>2 DEF Greater
        <5>6. b[order[x]] = (IF x = y THEN w - 1 ELSE w) /\ (x = y => w > least)
          BY <5>1, <5>3
        <5> HIDE DEF u, t, w
        <5>7. b[order[x]] = Greater(least, u - Turns(n, k + 1, x))
          <6> DEFINE t2 == Turns(n, k + 1, x)
                     w2 == b[order[x]]
          <6>1. t2 = (IF x = y THEN t + 1 ELSE t) /\ w2 = IF x = y THEN w - 1 ELSE w
            BY <5>4, <5>6
          <6> HIDE DEF t2, w2
          <6>2. CASE x = y
            <7>1. t2 = t + 1 /\ w2 = w - 1 /\ w = u - t /\ w > least
              BY <5>4, <5>5, <5>6, <6>1, <6>2
            <7>2. w2 = Greater(least, u - t2)
              <8>1. u - t2 = w - 1 /\ w - 1 >= least /\ w \in Int
                BY <5>4, <7>1
              <8> QED BY <7>1, <8>1 DEF Greater
            <7> QED BY <7>2 DEF t2, w2
          <6>3. CASE x # y
            BY <5>4, <5>5, <6>1, <6>3 DEF Greater, t2, w2
          <6> QED BY <6>2, <6>3
        <5> QED BY <5>7 DEF u
      <4>3. Lost(amount, order, least, n, k + 1, b)
        BY <4>1, <4>2 DEF Lost
      <4>4. v - 1 \in Int /\ v - 1 >= total
        BY <2>1, <3>1
      <4>5. k + 1 \in Nat
        OBVIOUS
      <4> QED BY <2>3, <4>1, <4>3, <4>4, <4>5
    <3>7. CASE ~(a[j] > least)
      <4> HIDE DEF a, j
      <4>1. b = a
        BY <2>4, <3>1, <3>7 DEF TurnTaken, v
      <4> HIDE DEF b
      <4>2. ASSUME NEW x \in 1..n
            PROVE  a[order[x]] = Greater(least, amount[order[x]] - Turns(n, k + 1, x))
        <5>1. a[order[x]] = Greater(least, amount[order[x]] - Turns(n, k, x))
          BY <3>2
        <5>2. x = y => ~(a[order[x]] > least)
          BY <3>4, <3>7
        <5> DEFINE u == amount[order[x]]
                   t == Turns(n, k, x)
                   w == a[order[x]]
        <5>3. u \in Int /\ t \in Nat /\ Turns(n, k + 1, x) = IF x = y THEN t + 1 ELSE t
          BY <3>5
        <5>4. w = IF least >= u - t THEN least ELSE u - t
          BY <5>1 DEF Greater
        <5>5. x = y => ~(w > least)
          BY <5>2
        <5> HIDE DEF u, t, w
        <5>6. w = Greater(least, u - Turns(n, k + 1, x))
          BY <5>3, <5>4, <5>5 DEF Greater
        <5> QED BY <5>6 DEF u, w
      <4>3. Lost(amount, order, least, n, k + 1, a)
        BY <2>1, <4>2 DEF Lost
      <4>4. k + 1 \in Nat
        OBVIOUS
      <4> QED BY <2>1, <2>3, <4>1, <4>3, <4>4 DEF v
    <3> QED BY <3>6, <3>7
  <2> QED BY <2>5, <2>6
<1>8. \A k \in Nat : k \in T
  <2> HIDE DEF T
  <2> QED BY <1>6, <1>7, NumberInduction
<1> DEFINE e == n * s
           D == A(e)
<1>9. e \in Nat
  BY <1>3
<1>10. Dealt(amount, order, total, least) = D
  <2>1. Len(amount) = n
    OBVIOUS
  <2>2. Greater(total, SumFunction(amount)) = s
    BY <1>3 DEF Greater, s
  <2> QED BY <2>1, <2>2, DealtIsDealing DEF A, s
<1> HIDE DEF D, e
<1>11. /\ SumFunction(D) \in Int /\ SumFunction(D) >= total
       /\ \E m \in Nat : /\ SumFunction(D) = total \/ m = e
                         /\ Lost(amount, order, least, n, m, D)
  BY <1>8, <1>9 DEF D
<1>12. PICK m \in Nat : (SumFunction(D) = total \/ m = e) /\ Lost(amount, order, least, n, m, D)
  BY <1>11
<1>13. SumFunction(D) = total
  <2> SUFFICES ASSUME m = e
               PROVE  SumFunction(D) <= total
    BY <1>11, <1>12
  <2>1. ASSUME NEW z \in 1..n
        PROVE  D[z] <= least
    <3>1. PICK x \in 1..n : order[x] = z
      BY DEF IsOrder
    <3>2. Turns(n, m, x) = s
      BY <1>3, WholeTurns DEF e
    <3>3. D[z] = Greater(least, amount[z] - s)
      BY <1>12, <3>1, <3>2 DEF Lost
    <3>4. amount[z] <= s /\ amount[z] \in Int
      BY <1>1, <1>3
    <3> QED BY <1>3, <3>3, <3>4 DEF Greater
  <2>2. D \in [1..n -> Int] /\ IsFiniteSet(1..n) /\ Cardinality(1..n) = n
    <3>1. 1 \in Int /\ n \in Int /\ ~(1 > n) /\ n - 1 + 1 = n
      OBVIOUS
    <3> QED BY <1>12, <3>1, FS_Interval DEF Lost
  <2> DEFINE S == 1..n
  <2> HIDE DEF S
  <2>3. SumFunction(D) <= least * Cardinality(S)
    BY <1>1, <2>1, <2>2, SumAtMost DEF S
  <2>4. least * n \in Int
    OBVIOUS
  <2> QED BY <1>11, <2>2, <2>3, <2>4 DEF S
<1> QED BY <1>10, <1>12, <1>13

-----------------------------------------------------------------------------
(* The marks of a paper.                                                   *)

Marks(share) == [i \in DOMAIN share |-> share[i].mark]

\* A share is what the division gives, but at least one mark.
SharesOf(n, weight, total, share) ==
  /\ DOMAIN share = 1..n /\ Len(share) = n
  /\ Marks(share) \in [1..n -> Nat]
  /\ \A i \in 1..n :
       /\ share[i].mark \in Nat \ {0} /\ share[i].fraction \in Nat
       /\ (share[i].mark = 1 /\ share[i].fraction = 0)
            \/ total * weight[i] = SumFunction(weight) * share[i].mark + share[i].fraction
       /\ total * weight[i] <= SumFunction(weight) <=> share[i].mark = 1 /\ share[i].fraction = 0
       /\ share[i].fraction < SumFunction(weight)

\* The shares of a total are quotients and remainders, at least one.
LEMMA SharesAreQuotients ==
  ASSUME NEW n \in Nat \ {0}, NEW weight \in [1..n -> Nat \ {0}], NEW total \in Nat
  PROVE  SumFunction(weight) \in Nat \ {0} /\ SharesOf(n, weight, total, Shares(weight, total))
<1> DEFINE whole == SumFunction(weight)
           share == Shares(weight, total)
<1>1. whole \in Nat \ {0}
  <2>1. IsFiniteSet(1..n) /\ weight \in [1..n -> Nat]
    <3>1. weight \in [1..n -> Nat]
      OBVIOUS
    <3>2. IsFiniteSet(1..n)
      BY FS_Interval
    <3> QED BY <3>1, <3>2
  <2>2. 1 \in 1..n
    OBVIOUS
  <2> DEFINE S == 1..n
  <2> HIDE DEF S
  <2>3. SumFunction(weight) \in Nat /\ \A x \in S : weight[x] <= SumFunction(weight)
    BY <2>1, SumHasEach DEF S
  <2>4. weight[1] \in Nat \ {0} /\ weight[1] <= SumFunction(weight)
    BY <2>2, <2>3 DEF S
  <2> QED BY <2>3, <2>4
<1> HIDE DEF whole
<1>2. share = [i \in 1..n |->
          IF total * weight[i] <= whole THEN [mark |-> 1, fraction |-> 0]
          ELSE [mark |-> (total * weight[i]) \div whole, fraction |-> (total * weight[i]) % whole]]
  <2>1. DOMAIN weight = 1..n
    OBVIOUS
  <2> QED BY <2>1, Zenon DEF Shares, whole
<1> HIDE DEF share
<1>3. DOMAIN share = 1..n /\ Len(share) = n
  BY <1>2
<1>4. ASSUME NEW i \in 1..n
      PROVE  /\ share[i].mark \in Nat \ {0} /\ share[i].fraction \in Nat
             /\ (share[i].mark = 1 /\ share[i].fraction = 0)
                  \/ total * weight[i] = whole * share[i].mark + share[i].fraction
             /\ total * weight[i] <= whole <=> share[i].mark = 1 /\ share[i].fraction = 0
             /\ share[i].fraction < whole
  <2> DEFINE t == total * weight[i]
  <2>1. t \in Nat
    OBVIOUS
  <2>2. share[i] = IF t <= whole THEN [mark |-> 1, fraction |-> 0]
                   ELSE [mark |-> t \div whole, fraction |-> t % whole]
    BY <1>2
  <2> HIDE DEF t
  <2>3. CASE t <= whole
    <3>1. share[i].mark = 1 /\ share[i].fraction = 0
      BY <2>2, <2>3
    <3> QED BY <1>1, <2>3, <3>1 DEF t
  <2>4. CASE ~(t <= whole)
    <3> DEFINE q == t \div whole
               r == t % whole
    <3>1. share[i].mark = q /\ share[i].fraction = r
      BY <2>2, <2>4
    <3>2. q \in Nat /\ r \in 0..(whole - 1) /\ t = whole * q + r
      BY <1>1, <2>1, TurnsCycle
    <3> HIDE DEF q, r
    <3>3. q # 0
      <4>1. whole * 0 = 0
        BY <1>1
      <4> QED BY <1>1, <2>1, <2>4, <3>2, <4>1
    <3>4. ~(q = 1 /\ r = 0)
      <4>1. whole * 1 = whole
        BY <1>1
      <4> QED BY <1>1, <2>1, <2>4, <3>2, <4>1
    <3> QED BY <1>1, <2>4, <3>1, <3>2, <3>3, <3>4 DEF t
  <2> QED BY <2>3, <2>4
<1>5. Marks(share) \in [1..n -> Nat]
  BY <1>3, <1>4 DEF Marks
<1> QED BY <1>1, <1>3, <1>4, <1>5 DEF SharesOf, share, whole

\* A question of more weight has no smaller share.
Rises(share, i, j) ==
  \/ share[i].mark > share[j].mark
  \/ share[i].mark = share[j].mark /\ share[i].fraction > share[j].fraction
  \/ /\ share[i].mark = 1 /\ share[j].mark = 1
     /\ share[i].fraction = 0 /\ share[j].fraction = 0

\* More weight has no smaller share.
LEMMA SharesRise ==
  ASSUME NEW n \in Nat \ {0}, NEW weight \in [1..n -> Nat \ {0}], NEW total \in Nat \ {0}, NEW share,
         SumFunction(weight) \in Nat \ {0}, SharesOf(n, weight, total, share),
         NEW i \in 1..n, NEW j \in 1..n, weight[i] > weight[j]
  PROVE  Rises(share, i, j)
<1> DEFINE whole == SumFunction(weight)
           a == total * weight[i]
           b == total * weight[j]
           q == share[i].mark
           r == share[i].fraction
           u == share[j].mark
           v == share[j].fraction
<1>1. /\ q \in Nat \ {0} /\ r \in Nat /\ u \in Nat \ {0} /\ v \in Nat
      /\ (q = 1 /\ r = 0) \/ a = whole * q + r
      /\ (u = 1 /\ v = 0) \/ b = whole * u + v
      /\ a <= whole <=> q = 1 /\ r = 0
      /\ b <= whole <=> u = 1 /\ v = 0
      /\ r < whole /\ v < whole
  BY DEF SharesOf
<1>2. a \in Nat /\ b \in Nat /\ a > b
  <2>1. PICK d \in Nat \ {0} : weight[i] = weight[j] + d
    <3>1. weight[i] \in Nat /\ weight[j] \in Nat
      OBVIOUS
    <3>2. weight[i] - weight[j] \in Nat \ {0} /\ weight[i] = weight[j] + (weight[i] - weight[j])
      BY <3>1
    <3> QED BY <3>2
  <2>2. total * (weight[j] + d) = total * weight[j] + total * d
    BY <2>1
  <2>3. total * d \in Nat \ {0}
    BY <2>1
  <2>4. total * weight[j] \in Nat
    OBVIOUS
  <2> QED BY <2>1, <2>2, <2>3, <2>4
<1>3. whole \in Nat \ {0}
  OBVIOUS
<1> HIDE DEF whole, a, b, q, r, u, v
<1>4. CASE u = 1 /\ v = 0
  <2>1. q > u \/ (q = u /\ r > v) \/ (q = 1 /\ u = 1 /\ r = 0 /\ v = 0)
    BY <1>1, <1>4
  <2> QED BY <2>1 DEF Rises, q, r, u, v
<1>5. CASE ~(u = 1 /\ v = 0)
  <2>1. a = whole * q + r /\ b = whole * u + v
    BY <1>1, <1>2, <1>3, <1>5
  <2>2. CASE q < u
    <3>1. PICK d \in Nat : u = q + 1 + d
      BY <1>1, <2>2
    <3>2. whole * u = whole * q + whole + whole * d /\ whole * d >= 0 /\ whole * q \in Int /\ whole * d \in Int
      BY <1>1, <1>3, <3>1
    <3> QED BY <1>1, <1>2, <1>3, <2>1, <3>2
  <2>3. CASE q = u
    <3>1. whole * q \in Int
      BY <1>1, <1>3
    <3>2. r > v
      BY <1>1, <1>2, <2>1, <2>3, <3>1
    <3> QED BY <2>3, <3>2 DEF Rises, q, r, u, v
  <2>4. CASE q > u
    BY <2>4 DEF Rises, q, u
  <2> QED BY <1>1, <2>2, <2>3, <2>4
<1> QED BY <1>4, <1>5

\* What the shares fall short of the total is no more than there are fractions.
LEMMA FractionsSuffice ==
  ASSUME NEW n \in Nat \ {0}, NEW weight \in [1..n -> Nat \ {0}], NEW total \in Nat \ {0}, NEW share,
         SumFunction(weight) \in Nat \ {0}, SharesOf(n, weight, total, share)
  PROVE  total <= SumFunction(Marks(share)) + Cardinality({i \in 1..n : share[i].fraction > 0})
<1> DEFINE S == 1..n
           A == {i \in S : share[i].fraction > 0}
           mark == Marks(share)
           raised == [i \in S |-> IF i \in A THEN mark[i] + 1 ELSE mark[i]]
           whole == SumFunction(weight)
<1>1. IsFiniteSet(S) /\ A \in SUBSET S
  BY FS_Interval
<1>2. whole \in Nat \ {0}
  OBVIOUS
<1>3. mark \in [S -> Nat]
  BY DEF SharesOf
<1>4. \A i \in S : mark[i] = share[i].mark
  BY DEF SharesOf, Marks
<1>5. weight \in [S -> Int]
  <2>1. weight \in [1..n -> Int]
    OBVIOUS
  <2> QED BY <2>1
<1>6. \A i \in S : /\ share[i].mark \in Nat /\ share[i].fraction \in Nat
                   /\ share[i].fraction < whole
                   /\ total * weight[i] <= whole
                        \/ total * weight[i] = whole * share[i].mark + share[i].fraction
                   /\ share[i].mark # 0
  BY DEF SharesOf
<1> HIDE DEF S, A, mark, whole
<1>7. raised \in [S -> Int] /\ mark \in [S -> Int]
  BY <1>3
<1>8. ASSUME NEW i \in S
      PROVE  total * weight[i] <= whole * raised[i]
  <2> DEFINE m == share[i].mark
             f == share[i].fraction
             t == total * weight[i]
  <2>1. m \in Nat \ {0} /\ f \in Nat /\ f < whole /\ (t <= whole \/ t = whole * m + f)
    BY <1>6
  <2>2. raised[i] = IF f > 0 THEN m + 1 ELSE m
    BY <1>4 DEF A
  <2>3. t \in Int
    BY <1>5
  <2> HIDE DEF m, f, t, raised
  <2>4. whole * (m + 1) = whole * m + whole /\ whole * m >= whole /\ whole * m \in Int
    <3>1. PICK k \in Nat : m = k + 1
      <4>1. m - 1 \in Nat /\ m = (m - 1) + 1
        BY <2>1
      <4> QED BY <4>1
    <3>2. whole * (k + 1) = whole * k + whole /\ whole * k \in Nat
      BY <1>2, <3>1
    <3>3. whole * (m + 1) = whole * m + whole
      BY <1>2, <2>1
    <3> QED BY <1>2, <3>1, <3>2, <3>3
  <2>5. t <= whole * raised[i]
    <3>1. CASE f > 0
      BY <1>2, <2>1, <2>2, <2>3, <2>4, <3>1
    <3>2. CASE f = 0
      BY <1>2, <2>1, <2>2, <2>3, <2>4, <3>2
    <3> QED BY <2>1, <3>1, <3>2
  <2> QED BY <2>5 DEF t
<1>9. SumFunction(raised) = SumFunction(mark) + Cardinality(A)
  <2>1. \A x \in S : raised[x] = IF x \in A THEN mark[x] + 1 ELSE mark[x]
    OBVIOUS
  <2> HIDE DEF raised
  <2> QED BY <1>1, <1>7, <2>1, SumRaised
<1>10. SumFunction(raised) \in Int /\ whole \in Int
  <2> HIDE DEF raised
  <2> QED BY <1>1, <1>2, <1>7, SumType
<1>11. total * SumFunction(weight) <= whole * SumFunction(raised)
  <2>1. total \in Int
    OBVIOUS
  <2>2. raised \in [S -> Int] /\ \A i \in S : total * weight[i] <= whole * raised[i]
    BY <1>7, <1>8
  <2> HIDE DEF raised
  <2> QED BY <1>1, <1>5, <1>10, <2>1, <2>2, SumsCompare
<1>12. total <= SumFunction(raised)
  <2> DEFINE s == SumFunction(raised)
  <2>1. s \in Int /\ total * whole <= whole * s
    BY <1>10, <1>11 DEF whole
  <2> HIDE DEF s
  <2> SUFFICES ASSUME s < total
               PROVE  FALSE
    BY <2>1 DEF s
  <2>2. PICK d \in Nat : total = s + 1 + d
    <3>1. total - s - 1 \in Nat /\ total = s + 1 + (total - s - 1)
      BY <2>1
    <3> QED BY <3>1
  <2>3. (s + 1 + d) * whole = whole * s + whole + d * whole /\ d * whole >= 0 /\ whole * s \in Int /\ d * whole \in Int
    BY <1>2, <2>1, <2>2
  <2> QED BY <1>2, <2>1, <2>2, <2>3
<1> QED BY <1>9, <1>12 DEF A, S, mark

\* An image has no more elements than what it is the image of.
LEMMA ImageBound ==
  ASSUME NEW S, IsFiniteSet(S), NEW f
  PROVE  IsFiniteSet({f[x] : x \in S}) /\ Cardinality({f[x] : x \in S}) <= Cardinality(S)
<1> DEFINE T == {f[x] : x \in S}
           h == [x \in S |-> f[x]]
<1>1. h \in Surjection(S, T)
  BY DEF Surjection
<1> HIDE DEF T, h
<1>2. IsFiniteSet(T) /\ Cardinality(T) <= Cardinality(S)
  BY <1>1, FS_Surjection
<1> QED BY <1>2 DEF T

\* What an order of the shares says of two places.
LEMMA SharingOrders ==
  ASSUME NEW n \in Nat \ {0}, NEW weight, NEW total, NEW share, SharesOf(n, weight, total, share),
         NEW gain \in BOOLEAN, NEW p \in SharingOrder(share, gain)
  PROVE  /\ IsOrder(p, n)
         /\ \A x, y \in 1..n : x < y =>
              IF gain THEN share[p[x]].fraction >= share[p[y]].fraction
              ELSE share[p[x]].fraction <= share[p[y]].fraction
<1>1. Len(share) = n
  BY DEF SharesOf
<1>2. /\ p \in Bijection(1..n, 1..n)
      /\ \A x, y \in 1..n : x < y =>
           \/ share[p[x]] = share[p[y]] /\ p[x] < p[y]
           \/ share[p[x]] # share[p[y]] /\ IF gain THEN share[p[x]].fraction >= share[p[y]].fraction
                                           ELSE share[p[x]].fraction <= share[p[y]].fraction
  BY <1>1, Zenon DEF SharingOrder, Orders
<1>3. IsOrder(p, n)
  BY <1>2, BijectionIsOrder
<1>4. ASSUME NEW x \in 1..n, NEW y \in 1..n, x < y
      PROVE  IF gain THEN share[p[x]].fraction >= share[p[y]].fraction
             ELSE share[p[x]].fraction <= share[p[y]].fraction
  <2>1. p[x] \in 1..n /\ p[y] \in 1..n
    BY <1>3 DEF IsOrder
  <2>2. share[p[x]].fraction \in Nat
    BY <2>1 DEF SharesOf
  <2>3. share[p[x]] = share[p[y]] => share[p[x]].fraction = share[p[y]].fraction
    OBVIOUS
  <2> QED BY <1>2, <1>4, <2>2, <2>3
<1> QED BY <1>3, <1>4

SharedOut(n, weight, total, m) ==
  /\ m \in [1..n -> Nat \ {0}]
  /\ SumFunction(m) = total
  /\ \A i, j \in 1..n : weight[i] > weight[j] => m[i] >= m[j]

\* Shares that add up to less than the total gain and are shared out.
LEMMA GainShared ==
  ASSUME NEW n \in Nat \ {0}, NEW weight \in [1..n -> Nat \ {0}], NEW total \in Nat \ {0}, NEW share,
         SumFunction(weight) \in Nat \ {0}, SharesOf(n, weight, total, share),
         SumFunction(Marks(share)) < total, NEW p \in SharingOrder(share, TRUE)
  PROVE  SharedOut(n, weight, total, Dealt(Marks(share), p, total, 1))
<1> DEFINE mark == Marks(share)
           m == Dealt(mark, p, total, 1)
           d == total - SumFunction(mark)
           A == {i \in 1..n : share[i].fraction > 0}
<1>1. mark \in [1..n -> Nat] /\ \A i \in 1..n : /\ mark[i] = share[i].mark /\ mark[i] \in Nat \ {0}
                                                /\ share[i].fraction \in Nat
  BY DEF SharesOf, Marks
<1>2. IsOrder(p, n) /\ \A x, y \in 1..n : x < y => share[p[x]].fraction >= share[p[y]].fraction
  <2>1. TRUE \in BOOLEAN
    OBVIOUS
  <2> QED BY <2>1, SharingOrders
<1> HIDE DEF mark, m, d
<1>3. SumFunction(mark) \in Nat
  <2>1. IsFiniteSet(1..n)
    BY FS_Interval
  <2> QED BY <1>1, <2>1, SumHasEach
<1>4. d \in Nat /\ Gained(mark, p, n, d, m) /\ SumFunction(mark) + d = total
  <2>1. SumFunction(mark) <= total /\ 1 \in Int /\ total \in Nat
    BY <1>3 DEF mark
  <2>2. total - SumFunction(mark) \in Nat /\ Gained(mark, p, n, total - SumFunction(mark), Dealt(mark, p, total, 1))
    BY <1>1, <1>2, <2>1, DealtGains
  <2> QED BY <1>3, <2>2 DEF d, m
<1>5. IsFiniteSet(A) /\ Cardinality(A) \in Nat /\ d <= Cardinality(A)
  <2>1. IsFiniteSet(1..n) /\ A \in SUBSET (1..n)
    BY FS_Interval
  <2>2. IsFiniteSet(A)
    BY <2>1, FS_Subset
  <2>3. Cardinality(A) \in Nat
    BY <2>2, FS_CardinalityType
  <2>4. total <= SumFunction(mark) + Cardinality(A)
    BY FractionsSuffice DEF mark
  <2> HIDE DEF A
  <2> QED BY <1>3, <1>4, <2>2, <2>3, <2>4
<1>6. ASSUME NEW x \in 1..n, share[p[x]].fraction = 0
      PROVE  Cardinality(A) <= x - 1
  <2> DEFINE I == 1..(x - 1)
             B == {p[y] : y \in I}
  <2>1. A \subseteq B
    <3>1. ASSUME NEW i \in A
          PROVE  \E y \in I : p[y] = i
      <4>1. PICK y \in 1..n : p[y] = i
        BY <1>2 DEF IsOrder
      <4>2. ~(y > x)
        <5>1. share[p[y]].fraction > 0 /\ share[p[y]].fraction \in Nat
          BY <1>1, <4>1
        <5> QED BY <1>2, <1>6, <5>1
      <4>3. y # x
        BY <1>6, <4>1
      <4>4. y \in I
        BY <4>2, <4>3
      <4> QED BY <4>1, <4>4
    <3> QED BY <3>1
  <2>2. IsFiniteSet(I) /\ Cardinality(I) = x - 1
    <3>1. 1 \in Int /\ x - 1 \in Int /\ (IF 1 > x - 1 THEN 0 ELSE x - 1 - 1 + 1) = x - 1
      OBVIOUS
    <3> QED BY <3>1, FS_Interval
  <2>3. IsFiniteSet(B) /\ Cardinality(B) <= Cardinality(I)
    <3> HIDE DEF I
    <3> QED BY <2>2, ImageBound
  <2>4. Cardinality(A) <= Cardinality(B)
    <3> HIDE DEF A, B
    <3> QED BY <2>1, <2>3, FS_Subset
  <2>5. Cardinality(A) \in Nat /\ Cardinality(B) \in Nat
    <3> HIDE DEF A, B
    <3> QED BY <1>5, <2>3, FS_CardinalityType
  <2> HIDE DEF A, B, I
  <2> QED BY <2>2, <2>3, <2>4, <2>5
<1> HIDE DEF A
<1>7. ASSUME NEW x \in 1..n
      PROVE  /\ p[x] \in 1..n
             /\ m[p[x]] = mark[p[x]] + (IF x <= d THEN 1 ELSE 0)
             /\ x <= d => share[p[x]].fraction > 0
  <2>1. p[x] \in 1..n
    BY <1>2 DEF IsOrder
  <2>2. m[p[x]] = mark[p[x]] + Turns(n, d, x)
    BY <1>4 DEF Gained
  <2>3. d <= n
    <3>1. Cardinality(A) <= n
      <4>1. 1 \in Int /\ n \in Int /\ (IF 1 > n THEN 0 ELSE n - 1 + 1) = n
        OBVIOUS
      <4>2. IsFiniteSet(1..n) /\ Cardinality(1..n) = n
        BY <4>1, FS_Interval
      <4>3. A \in SUBSET (1..n)
        BY DEF A
      <4> DEFINE N == 1..n
      <4> HIDE DEF N
      <4>4. IsFiniteSet(N) /\ A \in SUBSET N /\ Cardinality(N) = n
        BY <4>2, <4>3 DEF N
      <4>5. Cardinality(A) <= Cardinality(N)
        BY <4>4, FS_Subset
      <4> QED BY <4>4, <4>5
    <3> QED BY <1>4, <1>5, <3>1
  <2>4. Turns(n, d, x) = IF x <= d THEN 1 ELSE 0
    <3> DEFINE q == d \div n
               r == d % n
    <3>1. q \in Nat /\ r \in 0..(n - 1) /\ d = n * q + r
      BY <1>4, TurnsCycle
    <3>2. Turns(n, d, x) = q + (IF x <= r THEN 1 ELSE 0)
      BY DEF Turns
    <3> HIDE DEF q, r
    <3>3. CASE q = 0
      <4>1. n * 0 = 0
        OBVIOUS
      <4>2. d = r
        BY <3>1, <3>3, <4>1
      <4> QED BY <3>1, <3>2, <3>3, <4>2
    <3>4. CASE q = 1
      <4>1. n * 1 = n
        OBVIOUS
      <4>2. d = n /\ r = 0
        BY <2>3, <3>1, <3>4, <4>1
      <4> QED BY <3>1, <3>2, <3>4, <4>2
    <3>5. CASE q > 1
      <4>1. PICK k \in Nat : q = 2 + k
        <5>1. q - 2 \in Nat /\ q = 2 + (q - 2)
          BY <3>1, <3>5
        <5> QED BY <5>1
      <4>2. n * q = n + n + n * k /\ n * k >= 0 /\ n * k \in Int
        BY <4>1
      <4> QED BY <2>3, <3>1, <4>2
    <3> QED BY <3>1, <3>3, <3>4, <3>5
  <2>5. x <= d => share[p[x]].fraction > 0
    <3>1. SUFFICES ASSUME x <= d, ~(share[p[x]].fraction > 0)
                   PROVE  FALSE
      OBVIOUS
    <3>2. share[p[x]].fraction = 0
      BY <1>1, <2>1, <3>1
    <3>3. Cardinality(A) <= x - 1
      BY <1>6, <3>2
    <3> QED BY <1>4, <1>5, <3>1, <3>3
  <2> QED BY <2>1, <2>2, <2>4, <2>5
<1>8. m \in [1..n -> Nat \ {0}]
  <2>1. m \in [1..n -> Int]
    BY <1>4 DEF Gained
  <2>2. ASSUME NEW i \in 1..n
        PROVE  m[i] \in Nat \ {0}
    <3>1. PICK x \in 1..n : p[x] = i
      BY <1>2 DEF IsOrder
    <3>2. m[i] = mark[i] + (IF x <= d THEN 1 ELSE 0) /\ mark[i] \in Nat \ {0}
      BY <1>1, <1>7, <3>1
    <3> QED BY <3>2
  <2> QED BY <2>1, <2>2
<1>9. SumFunction(m) = total
  BY <1>4 DEF Gained
<1>10. ASSUME NEW i \in 1..n, NEW j \in 1..n, weight[i] > weight[j]
       PROVE  m[i] >= m[j]
  <2>1. PICK x \in 1..n : p[x] = i
    BY <1>2 DEF IsOrder
  <2>2. PICK y \in 1..n : p[y] = j
    BY <1>2 DEF IsOrder
  <2>3. /\ m[i] = mark[i] + (IF x <= d THEN 1 ELSE 0) /\ m[j] = mark[j] + (IF y <= d THEN 1 ELSE 0)
        /\ y <= d => share[j].fraction > 0
    BY <1>7, <2>1, <2>2
  <2>4. /\ mark[i] \in Nat /\ mark[j] \in Nat
        /\ share[i].fraction \in Nat /\ share[j].fraction \in Nat
    BY <1>1
  <2>5. \/ mark[i] > mark[j]
        \/ mark[i] = mark[j] /\ share[i].fraction > share[j].fraction
        \/ mark[i] = mark[j] /\ share[j].fraction = 0
    <3>1. mark[i] = share[i].mark /\ mark[j] = share[j].mark
      BY <1>1
    <3>2. Rises(share, i, j)
      BY <1>10, SharesRise
    <3> QED BY <3>1, <3>2 DEF Rises
  <2>6. share[i].fraction > share[j].fraction => x < y
    <3>1. y < x => share[j].fraction >= share[i].fraction
      BY <1>2, <2>1, <2>2
    <3>2. x = y => share[j].fraction = share[i].fraction
      BY <2>1, <2>2
    <3> QED BY <2>4, <3>1, <3>2
  <2> DEFINE mi == m[i]
             mj == m[j]
             a == mark[i]
             b == mark[j]
             r == share[i].fraction
             v == share[j].fraction
  <2>7. /\ mi = a + (IF x <= d THEN 1 ELSE 0) /\ mj = b + (IF y <= d THEN 1 ELSE 0)
        /\ y <= d => v > 0
        /\ a \in Nat /\ b \in Nat /\ r \in Nat /\ v \in Nat /\ d \in Nat
        /\ a > b \/ (a = b /\ r > v) \/ (a = b /\ v = 0)
        /\ r > v => x < y
    BY <1>4, <2>3, <2>4, <2>5, <2>6
  <2> HIDE DEF mi, mj, a, b, r, v
  <2>8. mi >= mj
    BY <2>7
  <2> QED BY <2>8 DEF mi, mj
<1> QED BY <1>8, <1>9, <1>10 DEF SharedOut, m, mark

\* Of two places the earlier one has its turn as often as the later one, or once more.
LEMMA TurnsFall ==
  ASSUME NEW n \in Nat \ {0}, NEW k \in Nat, NEW x \in 1..n, NEW y \in 1..n, x < y
  PROVE  /\ Turns(n, k, x) \in Nat /\ Turns(n, k, y) \in Nat
         /\ Turns(n, k, x) >= Turns(n, k, y) /\ Turns(n, k, x) <= Turns(n, k, y) + 1
<1> DEFINE q == k \div n
           r == k % n
<1>1. q \in Nat /\ r \in 0..(n - 1)
  BY TurnsCycle
<1>2. Turns(n, k, x) = q + (IF x <= r THEN 1 ELSE 0) /\ Turns(n, k, y) = q + (IF y <= r THEN 1 ELSE 0)
  BY DEF Turns
<1> HIDE DEF q, r
<1> QED BY <1>1, <1>2

\* Shares that add up to more than the total lose and are shared out.
LEMMA LossShared ==
  ASSUME NEW n \in Nat \ {0}, NEW weight \in [1..n -> Nat \ {0}], NEW total \in Nat \ {0}, NEW share,
         SumFunction(weight) \in Nat \ {0}, SharesOf(n, weight, total, share),
         SumFunction(Marks(share)) >= total, total >= n, NEW p \in SharingOrder(share, FALSE)
  PROVE  SharedOut(n, weight, total, Dealt(Marks(share), p, total, 1))
<1> DEFINE mark == Marks(share)
           m == Dealt(mark, p, total, 1)
<1>1. mark \in [1..n -> Nat] /\ \A i \in 1..n : /\ mark[i] = share[i].mark /\ mark[i] \in Nat \ {0}
                                                /\ share[i].fraction \in Nat
  BY DEF SharesOf, Marks
<1>2. IsOrder(p, n) /\ \A x, y \in 1..n : x < y => share[p[x]].fraction <= share[p[y]].fraction
  <2>1. FALSE \in BOOLEAN
    OBVIOUS
  <2> QED BY <2>1, SharingOrders
<1> HIDE DEF mark, m
<1>3. SumFunction(m) = total /\ \E k \in Nat : Lost(mark, p, 1, n, k, m)
  <2>1. SumFunction(mark) >= total /\ 1 \in Nat /\ total \in Nat /\ total >= 1 * n
    BY DEF mark
  <2>2. \A i \in 1..n : mark[i] >= 1
    BY <1>1
  <2> QED BY <1>1, <1>2, <2>1, <2>2, DealtLoses DEF m
<1>4. PICK k \in Nat : Lost(mark, p, 1, n, k, m)
  BY <1>3
<1>5. ASSUME NEW x \in 1..n
      PROVE  /\ Turns(n, k, x) \in Nat
             /\ m[p[x]] = Greater(1, mark[p[x]] - Turns(n, k, x))
  BY <1>4, TurnsCount DEF Lost
<1>6. m \in [1..n -> Nat \ {0}]
  <2>1. m \in [1..n -> Int]
    BY <1>4 DEF Lost
  <2>2. ASSUME NEW i \in 1..n
        PROVE  m[i] \in Nat \ {0}
    <3>1. PICK x \in 1..n : p[x] = i
      BY <1>2 DEF IsOrder
    <3>2. m[i] = Greater(1, mark[i] - Turns(n, k, x)) /\ mark[i] \in Nat /\ Turns(n, k, x) \in Nat
      BY <1>1, <1>5, <3>1
    <3> QED BY <3>2 DEF Greater
  <2> QED BY <2>1, <2>2
<1>7. ASSUME NEW i \in 1..n, NEW j \in 1..n, weight[i] > weight[j]
      PROVE  m[i] >= m[j]
  <2>1. PICK x \in 1..n : p[x] = i
    BY <1>2 DEF IsOrder
  <2>2. PICK y \in 1..n : p[y] = j
    BY <1>2 DEF IsOrder
  <2> DEFINE mi == m[i]
             mj == m[j]
             a == mark[i]
             b == mark[j]
             r == share[i].fraction
             v == share[j].fraction
             s == Turns(n, k, x)
             t == Turns(n, k, y)
  <2>3. /\ mi = Greater(1, a - s) /\ mj = Greater(1, b - t)
        /\ a \in Nat /\ b \in Nat /\ r \in Nat /\ v \in Nat /\ s \in Nat /\ t \in Nat
    BY <1>1, <1>5, <2>1, <2>2
  <2>4. a > b \/ (a = b /\ r > v) \/ (a = 1 /\ b = 1)
    <3>1. a = share[i].mark /\ b = share[j].mark
      BY <1>1
    <3>2. Rises(share, i, j)
      BY <1>7, SharesRise
    <3> HIDE DEF a, b
    <3> QED BY <3>1, <3>2 DEF Rises
  <2>5. /\ x < y => s >= t /\ s <= t + 1
        /\ y < x => t >= s /\ t <= s + 1
        /\ x = y => s = t
    <3>1. x < y => s >= t /\ s <= t + 1
      BY TurnsFall
    <3>2. y < x => t >= s /\ t <= s + 1
      BY TurnsFall
    <3> QED BY <3>1, <3>2
  <2>6. r > v => y < x
    <3>1. x < y => r <= v
      BY <1>2, <2>1, <2>2
    <3>2. x = y => r = v
      BY <2>1, <2>2
    <3> HIDE DEF r, v
    <3> QED BY <2>3, <3>1, <3>2
  <2> HIDE DEF mi, mj, a, b, r, v, s, t
  <2>7. CASE a > b
    <3>1. s <= t + 1
      BY <2>3, <2>5
    <3>2. a - s >= b - t
      BY <2>3, <2>7, <3>1
    <3> QED BY <2>3, <3>2 DEF Greater, mi, mj
  <2>8. CASE a = b /\ r > v
    <3>1. a - s >= b - t
      BY <2>3, <2>5, <2>6, <2>8
    <3> QED BY <2>3, <3>1 DEF Greater, mi, mj
  <2>9. CASE a = 1 /\ b = 1
    BY <2>3, <2>9 DEF Greater, mi, mj
  <2> QED BY <2>4, <2>7, <2>8, <2>9
<1> QED BY <1>3, <1>6, <1>7 DEF SharedOut, m, mark

\* distribute_marks.
LEMMA DistributionsShare ==
  ASSUME NEW n \in Nat \ {0}, NEW weight \in [1..n -> Nat \ {0}], NEW total \in Nat, total >= n,
         NEW m \in Distributions(weight, total)
  PROVE  SharedOut(n, weight, total, m)
<1> DEFINE share == Shares(weight, total)
<1>1. total \in Nat \ {0} /\ SumFunction(weight) \in Nat \ {0} /\ SharesOf(n, weight, total, share)
  <2>1. total \in Nat \ {0}
    OBVIOUS
  <2> QED BY <2>1, SharesAreQuotients
<1>2. PICK p \in SharingOrder(share, SumFunction(Marks(share)) < total) :
         m = Dealt(Marks(share), p, total, 1)
  BY DEF Distributions, Marks
<1> HIDE DEF share
<1>3. SumFunction(Marks(share)) \in Nat
  <2>1. IsFiniteSet(1..n)
    BY FS_Interval
  <2>2. Marks(share) \in [1..n -> Nat]
    BY <1>1 DEF SharesOf
  <2> QED BY <2>1, <2>2, SumHasEach
<1>4. CASE SumFunction(Marks(share)) < total
  <2>1. (SumFunction(Marks(share)) < total) = TRUE
    BY <1>4
  <2>2. p \in SharingOrder(share, TRUE)
    BY <1>2, <2>1, Zenon
  <2> QED BY <1>1, <1>2, <1>4, <2>2, GainShared
<1>5. CASE ~(SumFunction(Marks(share)) < total)
  <2>1. (SumFunction(Marks(share)) < total) = FALSE /\ SumFunction(Marks(share)) >= total
    BY <1>3, <1>5
  <2>2. p \in SharingOrder(share, FALSE)
    BY <1>2, <2>1, Zenon
  <2> QED BY <1>1, <1>2, <2>1, <2>2, LossShared
<1> QED BY <1>4, <1>5

-----------------------------------------------------------------------------
(* Sorting: the order that InOrder chooses exists.                         *)

Sorts(p, n, R) ==
  /\ p \in Bijection(1..n, 1..n)
  /\ \A x, y \in 1..n : x < y => <<p[x], p[y]>> \in R

\* A strict and total order.
Ranks(n, R) ==
  /\ \A x \in 1..n : <<x, x>> \notin R
  /\ \A x, y \in 1..n : x # y => <<x, y>> \in R \/ <<y, x>> \in R
  /\ \A x, y, z \in 1..n : <<x, y>> \in R /\ <<y, z>> \in R => <<x, z>> \in R

\* A strict and total order sorts.
LEMMA OrderExists ==
  ASSUME NEW n \in Nat, NEW R, Ranks(n, R)
  PROVE  \E p : Sorts(p, n, R)
<1> DEFINE N == 1..n
           Below(x) == {y \in N : <<y, x>> \in R}
           rank == [x \in N |-> Cardinality(Below(x)) + 1]
           p == [k \in N |-> CHOOSE x \in N : rank[x] = k]
<1>1. IsFiniteSet(N) /\ Cardinality(N) = n
  <2>1. 1 \in Int /\ n \in Int /\ (IF 1 > n THEN 0 ELSE n - 1 + 1) = n
    OBVIOUS
  <2> QED BY <2>1, FS_Interval
<1>2. ASSUME NEW x \in N
      PROVE  IsFiniteSet(Below(x)) /\ Cardinality(Below(x)) \in Nat /\ x \notin Below(x) /\ Below(x) \in SUBSET N
  <2>1. Below(x) \in SUBSET N /\ x \notin Below(x)
    BY DEF Ranks
  <2> HIDE DEF Below, N
  <2>2. IsFiniteSet(Below(x))
    BY <1>1, <2>1, FS_Subset
  <2> QED BY <2>1, <2>2, FS_CardinalityType
<1>3. ASSUME NEW x \in N
      PROVE  Cardinality(Below(x)) + 1 \in N
  <2> DEFINE B == Below(x) \cup {x}
  <2>1. B \in SUBSET N
    OBVIOUS
  <2>2. IsFiniteSet(B) /\ Cardinality(B) = Cardinality(Below(x)) + 1
    <3> HIDE DEF Below
    <3> QED BY <1>2, FS_AddElement
  <2> HIDE DEF B, N, Below
  <2>3. Cardinality(B) <= Cardinality(N)
    BY <1>1, <2>1, FS_Subset
  <2>4. Cardinality(Below(x)) \in Nat
    BY <1>2
  <2> QED BY <1>1, <2>2, <2>3, <2>4 DEF N
<1>4. ASSUME NEW x \in N, NEW y \in N, <<x, y>> \in R
      PROVE  Cardinality(Below(x)) < Cardinality(Below(y))
  <2> DEFINE B == Below(x) \cup {x}
  <2>1. B \in SUBSET Below(y)
    BY <1>4 DEF Ranks
  <2>2. IsFiniteSet(B) /\ Cardinality(B) = Cardinality(Below(x)) + 1
    <3> HIDE DEF Below
    <3> QED BY <1>2, FS_AddElement
  <2> HIDE DEF B, N, Below
  <2>3. Cardinality(B) <= Cardinality(Below(y))
    BY <1>2, <2>1, FS_Subset
  <2> QED BY <1>2, <2>2, <2>3
<1>5. rank \in [N -> N] /\ \A x \in N : rank[x] = Cardinality(Below(x)) + 1
  <2> HIDE DEF Below, N
  <2> QED BY <1>3
<1> HIDE DEF Below, rank
<1>6. \A x, y \in N : <<x, y>> \in R => rank[x] < rank[y]
  <2> HIDE DEF N
  <2> QED BY <1>2, <1>4, <1>5
<1>7. \A x, y \in N : rank[x] = rank[y] => x = y
  <2>1. \A x \in N : rank[x] \in Int
    BY <1>5
  <2>2. \A x, y \in N : x # y => <<x, y>> \in R \/ <<y, x>> \in R
    BY DEF Ranks
  <2> HIDE DEF N
  <2>3. \A x, y \in N : <<x, y>> \in R => rank[x] # rank[y]
    BY <1>6, <2>1
  <2> QED BY <2>2, <2>3
<1>8. \A k \in N : \E x \in N : rank[x] = k
  <2> HIDE DEF N
  <2>1. rank \in Injection(N, N)
    BY <1>5, <1>7 DEF Injection, IsInjective
  <2>2. rank \in Surjection(N, N)
    BY <1>1, <2>1, FS_Injection
  <2> QED BY <2>2 DEF Surjection
<1>9. \A k \in N : p[k] \in N /\ rank[p[k]] = k
  <2> HIDE DEF N
  <2> QED BY <1>8
<1>10. p \in [N -> N]
  <2> HIDE DEF N
  <2> QED BY <1>8
<1> HIDE DEF p
<1>11. p \in Bijection(N, N)
  <2> HIDE DEF N
  <2>1. \A x, y \in N : p[x] = p[y] => x = y
    BY <1>9
  <2>2. \A i \in N : \E x \in N : p[x] = i
    <3>1. ASSUME NEW i \in N
          PROVE  p[rank[i]] = i /\ rank[i] \in N
      BY <1>5, <1>7, <1>9
    <3> QED BY <3>1
  <2> QED BY <1>10, <2>1, <2>2 DEF Bijection, Injection, Surjection, IsInjective
<1>12. \A x, y \in N : x < y => <<p[x], p[y]>> \in R
  <2>1. ASSUME NEW x \in N, NEW y \in N, x < y
        PROVE  <<p[x], p[y]>> \in R
    <3>1. p[x] # p[y]
      BY <1>9, <2>1
    <3>2. <<p[y], p[x]>> \notin R
      <4>1. <<p[y], p[x]>> \in R => y < x
        BY <1>6, <1>9
      <4> QED BY <2>1, <4>1
    <3> QED BY <1>9, <3>1, <3>2 DEF Ranks
  <2> QED BY <2>1
<1>13. Sorts(p, n, R)
  BY <1>11, <1>12 DEF Sorts
<1> QED BY <1>13

-----------------------------------------------------------------------------
(* The targets.                                                            *)

\* Rounding to even is within a half.
LEMMA HalfEvenNear ==
  ASSUME NEW a \in Nat, NEW b \in Nat \ {0}
  PROVE  /\ HalfEven(a, b) \in Nat
         /\ a = 0 => HalfEven(a, b) = 0
         /\ 2 * a <= 2 * (b * HalfEven(a, b)) + b
<1> DEFINE q == a \div b
           r == a % b
           h == HalfEven(a, b)
<1>1. q \in Nat /\ r \in 0..(b - 1) /\ a = b * q + r
  BY TurnsCycle
<1>2. h = CASE 2 * r < b -> q [] 2 * r > b -> q + 1 [] OTHER -> q + (q % 2)
  BY DEF HalfEven
<1>3. q % 2 \in {0, 1}
  <2> HIDE DEF q
  <2> QED BY <1>1
<1> HIDE DEF q, r, h
<1>4. h = q \/ h = q + 1
  BY <1>1, <1>2, <1>3
<1>5. h = q => 2 * r <= b
  BY <1>1, <1>2, <1>3
<1>6. a = 0 => h = 0
  <2> SUFFICES ASSUME a = 0
               PROVE  h = 0
    OBVIOUS
  <2>1. b * q >= 0 /\ b * q \in Int
    BY <1>1
  <2>2. r = 0 /\ b * q = 0
    BY <1>1, <2>1
  <2>3. q = 0
    BY <1>1, <2>2
  <2>4. 0 % 2 = 0
    OBVIOUS
  <2> QED BY <1>1, <1>2, <2>2, <2>3, <2>4
<1>7. 2 * a <= 2 * (b * h) + b
  <2>1. b * (q + 1) = b * q + b /\ b * q \in Int
    BY <1>1
  <2>2. CASE h = q
    BY <1>1, <1>5, <2>1, <2>2
  <2>3. CASE h = q + 1
    BY <1>1, <2>1, <2>3
  <2> QED BY <1>4, <2>2, <2>3
<1>8. h \in Nat
  BY <1>1, <1>4
<1> QED BY <1>6, <1>7, <1>8 DEF h

\* Where a target is none, so is what becomes of it; the targets add up to the number.
Normalized(target, count, t) ==
  /\ t \in [1..3 -> Nat]
  /\ SumFunction(t) = count
  /\ \A i \in 1..3 : target[i] = 0 => t[i] = 0

\* The sum of the targets of three difficulties.
LEMMA SumOfTargets ==
  ASSUME NEW f \in [1..3 -> Int]
  PROVE  /\ SumFunction(f) = f[1] + f[2] + f[3]
         /\ f[1] \in Int /\ f[2] \in Int /\ f[3] \in Int
<1> DEFINE S == 1..3
<1>1. IsFiniteSet(S)
  <2>1. 1 \in Int /\ 3 \in Int
    OBVIOUS
  <2> QED BY <2>1, FS_Interval, Zenon
<1>2. 1 \in S /\ 2 \in S /\ 3 \in S /\ S \ {1, 2, 3} = {} /\ f \in [S -> Int]
  OBVIOUS
<1> HIDE DEF S
<1>3. SumFunction(f) = f[1] + f[2] + f[3]
  BY <1>1, <1>2, SumOfThree
<1> QED BY <1>2, <1>3

\* The order in which targets gain, or lose.
LEMMA TargetsInOrder ==
  ASSUME NEW target \in [1..3 -> Nat], NEW gain \in BOOLEAN
  PROVE  /\ IsOrder(TargetOrder(target, gain), 3)
         /\ gain => \A x \in 1..3 : target[TargetOrder(target, gain)[1]] >= target[TargetOrder(target, gain)[x]]
<1> DEFINE E(i, j) == (\/ target[i] = target[j] /\ i < j
                       \/ IF gain THEN target[i] > target[j] ELSE target[i] < target[j])
           R == {r \in (1..3) \X (1..3) : E(r[1], r[2])}
           order == TargetOrder(target, gain)
<1>1. \A i, j \in 1..3 : <<i, j>> \in R <=> E(i, j)
  OBVIOUS
<1>2. Ranks(3, R)
  <2>1. \A i \in 1..3 : target[i] \in Nat
    OBVIOUS
  <2>2. \A i \in 1..3 : ~E(i, i)
    BY <2>1
  <2>3. \A i, j \in 1..3 : i # j => E(i, j) \/ E(j, i)
    BY <2>1
  <2>4. \A i, j, k \in 1..3 : E(i, j) /\ E(j, k) => E(i, k)
    BY <2>1
  <2> HIDE DEF E, R
  <2> QED BY <1>1, <2>2, <2>3, <2>4 DEF Ranks
<1>3. PICK p : Sorts(p, 3, R)
  <2> HIDE DEF R
  <2>1. 3 \in Nat
    OBVIOUS
  <2> QED BY <1>2, <2>1, OrderExists
<1>4. order = CHOOSE q \in {q \in Bijection(1..3, 1..3) : \A i, j \in 1..3 : i < j => E(q[i], q[j])} : TRUE
  <2>1. Len(target) = 3
    OBVIOUS
  <2> QED BY <2>1, Zenon DEF TargetOrder, InOrder, Orders
<1>5. p \in {q \in Bijection(1..3, 1..3) : \A i, j \in 1..3 : i < j => E(q[i], q[j])}
  <2>1. \A i \in 1..3 : p[i] \in 1..3
    BY <1>3, BijectionIsOrder DEF Sorts, IsOrder
  <2> HIDE DEF E, R
  <2> QED BY <1>1, <1>3, <2>1 DEF Sorts
<1> HIDE DEF order
<1>6. order \in Bijection(1..3, 1..3) /\ \A i, j \in 1..3 : i < j => E(order[i], order[j])
  <2> HIDE DEF E
  <2> QED BY <1>4, <1>5
<1>7. IsOrder(order, 3)
  <2>1. 3 \in Nat
    OBVIOUS
  <2> QED BY <1>6, <2>1, BijectionIsOrder
<1>8. ASSUME gain, NEW x \in 1..3
      PROVE  target[order[1]] >= target[order[x]]
  <2>1. target[order[1]] \in Nat /\ target[order[x]] \in Nat
    BY <1>7 DEF IsOrder
  <2>2. CASE x = 1
    BY <2>1, <2>2
  <2>3. CASE x # 1
    <3>1. E(order[1], order[x])
      <4> HIDE DEF E
      <4> QED BY <1>6, <2>3
    <3> QED BY <1>8, <2>1, <3>1
  <2> QED BY <2>2, <2>3
<1> QED BY <1>7, <1>8 DEF order

\* normalize_targets: the targets add up, and zeros stay zero.
LEMMA NormalizeTargetsExact ==
  ASSUME NEW target \in [1..3 -> Nat], NEW count \in Nat, SumFunction(target) # 0 \/ count = 0
  PROVE  Normalized(target, count, NormalizeTargets(target, count))
<1> DEFINE total == SumFunction(target)
           scaled == [i \in 1..3 |-> HalfEven(count * target[i], total)]
           gain == SumFunction(scaled) < count
           order == TargetOrder(target, gain)
           t == NormalizeTargets(target, count)
           I == 1..3
<1>1. target \in [I -> Int] /\ IsFiniteSet(I) /\ 1 \in I /\ 2 \in I /\ 3 \in I
  <2>1. 1 \in Int /\ 3 \in Int
    OBVIOUS
  <2>2. IsFiniteSet(I)
    BY <2>1, FS_Interval, Zenon
  <2> QED BY <2>2
<1>2. total \in Nat /\ total = target[1] + target[2] + target[3]
  <2>1. target \in [I -> Nat]
    OBVIOUS
  <2>2. target \in [1..3 -> Int]
    OBVIOUS
  <2>3. SumFunction(target) = target[1] + target[2] + target[3]
    BY <2>2, SumOfTargets
  <2> HIDE DEF I
  <2>4. SumFunction(target) \in Nat
    BY <1>1, <2>1, SumHasEach
  <2> QED BY <2>3, <2>4
<1>3. t = IF total = count THEN target ELSE Dealt(scaled, order, count, 0)
  <2>1. DOMAIN target = 1..3
    OBVIOUS
  <2> QED BY <2>1, Zenon DEF NormalizeTargets
<1> HIDE DEF total, scaled, order, t
<1>4. CASE total = count
  <2>1. t = target
    BY <1>3, <1>4
  <2> QED BY <1>4, <2>1 DEF Normalized, total, t
<1>5. CASE total # count
  <2>1. total \in Nat \ {0}
    BY <1>2, <1>5 DEF total
  <2>2. ASSUME NEW i \in 1..3
        PROVE  /\ scaled[i] \in Nat
               /\ target[i] = 0 => scaled[i] = 0
               /\ 2 * (count * target[i]) <= 2 * (total * scaled[i]) + (IF target[i] = 0 THEN 0 ELSE total)
    <3> DEFINE a == count * target[i]
               h == HalfEven(a, total)
    <3>1. a \in Nat /\ (target[i] = 0 => a = 0)
      OBVIOUS
    <3>2. scaled[i] = h
      BY DEF scaled
    <3> HIDE DEF a
    <3>3. h \in Nat /\ (a = 0 => h = 0) /\ 2 * a <= 2 * (total * h) + total
      BY <2>1, <3>1, HalfEvenNear
    <3> HIDE DEF h
    <3>4. total * h >= 0 /\ total * h \in Int
      BY <2>1, <3>3
    <3>5. target[i] = 0 => 2 * a <= 2 * (total * h) + 0
      BY <3>1, <3>4
    <3>6. 2 * a <= 2 * (total * h) + (IF target[i] = 0 THEN 0 ELSE total)
      BY <3>3, <3>5
    <3> QED BY <3>1, <3>2, <3>3, <3>6 DEF a
  <2>3. scaled \in [1..3 -> Nat]
    <3>1. scaled = [i \in 1..3 |-> scaled[i]]
      BY DEF scaled
    <3> HIDE DEF scaled
    <3> QED BY <2>2, <3>1
  <2>4. SumFunction(scaled) \in Nat /\ SumFunction(scaled) = scaled[1] + scaled[2] + scaled[3]
    <3>1. scaled \in [I -> Nat]
      BY <2>3
    <3>2. scaled \in [1..3 -> Int]
      <4>1. \A i \in 1..3 : scaled[i] \in Int
        BY <2>2
      <4> QED BY <2>3, <4>1
    <3>3. SumFunction(scaled) = scaled[1] + scaled[2] + scaled[3]
      BY <3>2, SumOfTargets
    <3> HIDE DEF I
    <3>4. SumFunction(scaled) \in Nat
      BY <1>1, <3>1, SumHasEach
    <3> QED BY <3>3, <3>4
  <2>5. gain \in BOOLEAN
    BY <2>4
  <2> HIDE DEF gain
  <2>6. IsOrder(order, 3)
    BY <2>5, TargetsInOrder DEF order
  <2>7. t = Dealt(scaled, order, count, 0)
    BY <1>3, <1>5
  <2>8. CASE gain
    <3>1. SumFunction(scaled) < count
      BY <2>8 DEF gain
    <3>2. \A x \in 1..3 : target[order[1]] >= target[order[x]]
      BY <2>5, <2>8, TargetsInOrder DEF order
    <3> DEFINE d == count - SumFunction(scaled)
    <3>3. d \in Nat /\ Gained(scaled, order, 3, d, t)
      <4>1. 3 \in Nat \ {0} /\ 0 \in Int /\ SumFunction(scaled) <= count
        BY <2>4, <3>1
      <4> QED BY <2>3, <2>6, <2>7, <4>1, DealtGains
    <3>4. d <= 1
      <4> DEFINE c == SumFunction(scaled)
                 t1 == target[1]
                 t2 == target[2]
                 t3 == target[3]
                 s1 == scaled[1]
                 s2 == scaled[2]
                 s3 == scaled[3]
      <4>1. /\ t1 \in Nat /\ t2 \in Nat /\ t3 \in Nat /\ total = t1 + t2 + t3
            /\ s1 \in Nat /\ s2 \in Nat /\ s3 \in Nat /\ c = s1 + s2 + s3
        BY <1>1, <1>2, <2>2, <2>4
      <4>2. /\ 2 * (count * t1) <= 2 * (total * s1) + total
            /\ 2 * (count * t2) <= 2 * (total * s2) + total
            /\ 2 * (count * t3) <= 2 * (total * s3) + total
        <5>1. \A i \in 1..3 : 2 * (count * target[i]) <= 2 * (total * scaled[i]) + total
          <6>1. ASSUME NEW i \in 1..3
                PROVE  2 * (count * target[i]) <= 2 * (total * scaled[i]) + total
            <7> DEFINE u == 2 * (count * target[i])
                       v == 2 * (total * scaled[i])
            <7>1. u <= v + (IF target[i] = 0 THEN 0 ELSE total) /\ u \in Int /\ v \in Int
              <8>1. u <= v + (IF target[i] = 0 THEN 0 ELSE total)
                BY <2>2
              <8>2. target[i] \in Nat /\ scaled[i] \in Nat
                BY <2>2
              <8> QED BY <1>2, <8>1, <8>2
            <7> HIDE DEF u, v
            <7>2. u <= v + total
              BY <1>2, <7>1
            <7> QED BY <7>2 DEF u, v
          <6> QED BY <6>1
        <5> QED BY <1>1, <5>1
      <4>3. d = count - c /\ c \in Nat
        BY <2>4
      <4> HIDE DEF c, t1, t2, t3, s1, s2, s3, d
      <4>4. /\ count * (t1 + t2 + t3) = count * t1 + count * t2 + count * t3
            /\ total * (s1 + s2 + s3) = total * s1 + total * s2 + total * s3
            /\ count * t1 \in Int /\ count * t2 \in Int /\ count * t3 \in Int
            /\ total * s1 \in Int /\ total * s2 \in Int /\ total * s3 \in Int
        BY <2>1, <4>1
      <4>5. 2 * (count * total) <= 2 * (total * c) + 3 * total
        BY <2>1, <4>1, <4>2, <4>4
      <4>6. count = c + d
        BY <3>3, <4>3
      <4>7. (c + d) * total = total * c + d * total /\ total * c \in Int
        BY <2>1, <3>3, <4>3
      <4>8. 2 * (d * total) <= 3 * total
        BY <2>1, <3>3, <4>5, <4>6, <4>7
      <4>9. CASE d > 1
        <5>1. PICK k \in Nat : d = 2 + k
          <6>1. d - 2 \in Nat /\ d = 2 + (d - 2)
            BY <3>3, <4>9
          <6> QED BY <6>1
        <5>2. (2 + k) * total = 2 * total + k * total /\ k * total >= 0 /\ k * total \in Int
          BY <2>1
        <5> QED BY <2>1, <4>8, <5>1, <5>2
      <4> QED BY <3>3, <4>9
    <3> HIDE DEF d
    <3>5. target[order[1]] # 0
      <4>1. \A i \in 1..3 : target[i] <= target[order[1]] /\ target[i] \in Nat
        BY <2>6, <3>2 DEF IsOrder
      <4> QED BY <1>1, <1>2, <2>1, <4>1
    <3>6. ASSUME NEW i \in 1..3
          PROVE  t[i] \in Nat /\ (target[i] = 0 => t[i] = 0)
      <4>1. PICK x \in 1..3 : order[x] = i
        BY <2>6 DEF IsOrder
      <4>2. t[i] = scaled[i] + Turns(3, d, x) /\ Turns(3, d, x) \in Nat
        <5>1. 3 \in Nat \ {0}
          OBVIOUS
        <5>2. Turns(3, d, x) \in Nat
          BY <3>3, <5>1, TurnsCount
        <5> QED BY <3>3, <4>1, <5>2 DEF Gained
      <4>3. x # 1 => Turns(3, d, x) = 0
        <5>1. d = 0 \/ d = 1
          BY <3>3, <3>4
        <5>2. 0 \div 3 = 0 /\ 0 % 3 = 0 /\ 1 \div 3 = 0 /\ 1 % 3 = 1
          OBVIOUS
        <5> QED BY <5>1, <5>2 DEF Turns
      <4>4. target[i] = 0 => x # 1
        BY <3>5, <4>1
      <4> QED BY <2>2, <4>2, <4>3, <4>4
    <3>7. t \in [1..3 -> Nat]
      BY <3>3, <3>6 DEF Gained
    <3>8. SumFunction(t) = count
      BY <2>4, <3>3 DEF Gained, d
    <3> QED BY <3>6, <3>7, <3>8 DEF Normalized, t
  <2>9. CASE ~gain
    <3>1. SumFunction(t) = count /\ \E k \in Nat : Lost(scaled, order, 0, 3, k, t)
      <4> DEFINE n == 3
                 z == 0
      <4>1. n \in Nat \ {0} /\ z \in Nat /\ z * n = 0
        OBVIOUS
      <4>2. scaled \in [1..n -> Nat] /\ IsOrder(order, n) /\ t = Dealt(scaled, order, count, z)
        BY <2>3, <2>6, <2>7
      <4>3. \A i \in 1..n : scaled[i] >= z
        BY <2>2
      <4>4. SumFunction(scaled) >= count
        BY <2>4, <2>9 DEF gain
      <4>5. SumFunction(t) = count /\ \E k \in Nat : Lost(scaled, order, z, n, k, t)
        <5> HIDE DEF n, z
        <5>1. count >= z * n
          BY <4>1
        <5>2. /\ SumFunction(Dealt(scaled, order, count, z)) = count
              /\ \E k \in Nat : Lost(scaled, order, z, n, k, Dealt(scaled, order, count, z))
          BY <4>1, <4>2, <4>3, <4>4, <5>1, DealtLoses
        <5> QED BY <4>2, <5>2
      <4> QED BY <4>5
    <3>2. PICK k \in Nat : Lost(scaled, order, 0, 3, k, t)
      BY <3>1
    <3>3. ASSUME NEW i \in 1..3
          PROVE  t[i] \in Nat /\ (target[i] = 0 => t[i] = 0)
      <4>1. PICK x \in 1..3 : order[x] = i
        BY <2>6 DEF IsOrder
      <4>2. Turns(3, k, x) \in Nat
        <5>1. 3 \in Nat \ {0}
          OBVIOUS
        <5> QED BY <5>1, TurnsCount
      <4>3. t[i] = Greater(0, scaled[i] - Turns(3, k, x))
        BY <3>2, <4>1 DEF Lost
      <4>4. scaled[i] \in Nat /\ (target[i] = 0 => scaled[i] = 0)
        BY <2>2
      <4> QED BY <4>2, <4>3, <4>4 DEF Greater
    <3>4. t \in [1..3 -> Nat]
      BY <3>2, <3>3 DEF Lost
    <3> QED BY <3>1, <3>3, <3>4 DEF Normalized, t
  <2> QED BY <2>8, <2>9
<1> QED BY <1>4, <1>5

\* The three anchors.
LEMMA AnchorDomain == DOMAIN Anchor = 1..3 /\ Len(Anchor) = 3
                      /\ Anchor[1] = 0 /\ Anchor[2] = 50 /\ Anchor[3] = 100
BY DEF Anchor

\* The difficulty whose anchor is nearest has weight.
LEMMA NearestHasWeight ==
  ASSUME NEW coefficient \in 0..100
  PROVE  Nearest(coefficient) \in 1..3 /\ Weight(coefficient)[Nearest(coefficient)] # 0
<1> DEFINE D(i) == Distance(coefficient, Anchor[i])
           E(i, j) == D(i) < D(j) \/ (D(i) = D(j) /\ i < j)
           R == {r \in (1..3) \X (1..3) : E(r[1], r[2])}
           P(n) == {q \in Bijection(1..n, 1..n) : \A i, j \in 1..n : i < j => E(q[i], q[j])}
           order == CHOOSE q \in P(Len(Anchor)) : TRUE
           m == order[1]
<1>1. \A i \in 1..3 : Anchor[i] \in 0..100
  BY AnchorDomain
<1>2. \A i \in 1..3 : D(i) \in Nat
  BY <1>1 DEF Distance
<1> HIDE DEF D
<1>3. \A i, j \in 1..3 : <<i, j>> \in R <=> E(i, j)
  <2> HIDE DEF E
  <2> QED OBVIOUS
<1>4. Ranks(3, R)
  <2>1. \A i \in 1..3 : ~E(i, i)
    BY <1>2
  <2>2. \A i, j \in 1..3 : i # j => E(i, j) \/ E(j, i)
    BY <1>2
  <2>3. \A i, j, k \in 1..3 : E(i, j) /\ E(j, k) => E(i, k)
    BY <1>2
  <2> HIDE DEF E, R
  <2> QED BY <1>3, <2>1, <2>2, <2>3 DEF Ranks
<1>5. PICK p : Sorts(p, 3, R)
  <2> HIDE DEF R
  <2>1. 3 \in Nat
    OBVIOUS
  <2> QED BY <1>4, <2>1, OrderExists
<1>6. p \in P(3)
  <2>1. \A i \in 1..3 : p[i] \in 1..3
    BY <1>5, BijectionIsOrder DEF Sorts, IsOrder
  <2> HIDE DEF E, R
  <2> QED BY <1>3, <1>5, <2>1 DEF Sorts
<1>7. order \in Bijection(1..3, 1..3) /\ \A i, j \in 1..3 : i < j => E(order[i], order[j])
  <2>1. order \in P(3)
    <3> HIDE DEF P
    <3> QED BY <1>6, AnchorDomain
  <2> HIDE DEF E, order
  <2> QED BY <2>1
<1>8. Nearest(coefficient) = m
  BY Zenon DEF Nearest, InOrder, Orders, D
<1> HIDE DEF order
<1>9. IsOrder(order, 3)
  <2>1. 3 \in Nat
    OBVIOUS
  <2> QED BY <1>7, <2>1, BijectionIsOrder
<1>10. m \in 1..3
  BY <1>9 DEF IsOrder
<1>11. ASSUME NEW i \in 1..3
       PROVE  D(m) <= D(i)
  <2>1. PICK x \in 1..3 : order[x] = i
    BY <1>9 DEF IsOrder
  <2>2. x # 1 => E(m, i)
    <3> HIDE DEF E
    <3> QED BY <1>7, <2>1
  <2> QED BY <1>2, <1>10, <2>1, <2>2
<1>12. D(1) = coefficient /\ (D(2) < 50 \/ coefficient = 0 \/ coefficient = 100) /\ D(3) = 100 - coefficient
  BY AnchorDomain DEF D, Distance
<1>13. D(m) < 50
  BY <1>2, <1>10, <1>11, <1>12
<1>14. Weight(coefficient)[m] = Greater(0, 100 - 2 * D(m))
  BY <1>10, AnchorDomain DEF Weight, D
<1> QED BY <1>2, <1>8, <1>10, <1>13, <1>14 DEF Greater

\* A request's targets: they add up, and a difficulty without weight has none.
Targeted(coefficient, count, t) ==
  /\ t \in [1..3 -> Nat]
  /\ SumFunction(t) = count
  /\ \A i \in 1..3 : Weight(coefficient)[i] = 0 => t[i] = 0

\* difficulty_targets_from_coefficient, with either rounding of a half.
LEMMA DifficultyTargetsExact ==
  ASSUME NEW coefficient \in 0..100, NEW count \in Nat, NEW t \in DifficultyTargets(coefficient, count)
  PROVE  Targeted(coefficient, count, t)
<1> DEFINE weight == Weight(coefficient)
           n == Nearest(coefficient)
<1>1. PICK r \in [1..3 -> 0..count] :
         /\ \A i \in 1..3 : r[i] \in Roundings(count * weight[i], 100)
         /\ t = NormalizeTargets(IF SumFunction(r) = 0 THEN [r EXCEPT ![n] = count] ELSE r, count)
  <2>1. PICK r \in [DOMAIN Anchor -> 0..count] :
           /\ \A i \in DOMAIN Anchor : r[i] \in Roundings(count * weight[i], 100)
           /\ t = NormalizeTargets(IF SumFunction(r) = 0 THEN [r EXCEPT ![n] = count] ELSE r, count)
    BY Zenon DEF DifficultyTargets
  <2> HIDE DEF weight, n
  <2> QED BY <2>1, AnchorDomain
<1> HIDE DEF weight, n
<1>2. n \in 1..3 /\ weight[n] # 0
  BY NearestHasWeight DEF n, weight
<1>3. r \in [1..3 -> Nat]
  OBVIOUS
<1>4. \A i \in 1..3 : weight[i] = 0 => r[i] = 0
  <2>1. ASSUME NEW i \in 1..3, weight[i] = 0
        PROVE  r[i] = 0
    <3>1. count * 0 = 0 /\ 0 \div 100 = 0
      OBVIOUS
    <3>2. r[i] \in {0, 1} /\ 2 * Distance(r[i] * 100, 0) <= 100
      BY <1>1, <2>1, <3>1 DEF Roundings
    <3>3. r[i] # 1
      <4>1. 2 * Distance(1 * 100, 0) = 200
        BY DEF Distance
      <4> QED BY <3>2, <4>1
    <3> QED BY <3>2, <3>3
  <2> QED BY <2>1
<1>5. CASE SumFunction(r) = 0
  <2> DEFINE u == [r EXCEPT ![n] = count]
  <2>1. u \in [1..3 -> Nat] /\ \A i \in 1..3 : u[i] = IF i = n THEN count ELSE r[i]
    BY <1>2
  <2>2. \A i \in 1..3 : r[i] = 0
    <3> DEFINE S == 1..3
    <3>1. IsFiniteSet(S) /\ r \in [S -> Nat]
      <4>1. 1 \in Int /\ 3 \in Int
        OBVIOUS
      <4> QED BY <1>3, <4>1, FS_Interval, Zenon
    <3> HIDE DEF S
    <3>2. \A i \in S : r[i] <= 0 /\ r[i] \in Nat
      BY <1>5, <3>1, SumHasEach
    <3> QED BY <3>2 DEF S
  <2>3. SumFunction(u) = count
    <3>1. u \in [1..3 -> Int]
      <4>1. \A i \in 1..3 : u[i] \in Int
        BY <2>1
      <4> HIDE DEF u
      <4> QED BY <2>1, <4>1
    <3>2. u[1] \in Int /\ u[2] \in Int /\ u[3] \in Int /\ SumFunction(u) = u[1] + u[2] + u[3]
      <4> HIDE DEF u
      <4> QED BY <3>1, SumOfTargets
    <3>3. \A i \in 1..3 : u[i] = IF i = n THEN count ELSE 0
      BY <2>1, <2>2
    <3> HIDE DEF u
    <3> QED BY <1>2, <3>2, <3>3
  <2>4. t = NormalizeTargets(u, count)
    BY <1>1, <1>5
  <2> HIDE DEF u
  <2>5. Normalized(u, count, t)
    <3>1. SumFunction(u) # 0 \/ count = 0
      BY <2>3
    <3> QED BY <2>1, <2>4, <3>1, NormalizeTargetsExact
  <2>6. \A i \in 1..3 : weight[i] = 0 => u[i] = 0
    BY <1>2, <1>4, <2>1
  <2> QED BY <2>5, <2>6 DEF Normalized, Targeted, weight
<1>6. CASE SumFunction(r) # 0
  <2>1. t = NormalizeTargets(r, count)
    BY <1>1, <1>6
  <2>2. Normalized(r, count, t)
    BY <1>3, <1>6, <2>1, NormalizeTargetsExact
  <2> QED BY <1>4, <2>2 DEF Normalized, Targeted, weight
<1> QED BY <1>5, <1>6

-----------------------------------------------------------------------------
(* Sequences of different questions.                                       *)

Distinct(s, V) == s \in Seq(V) /\ IsInjective(s)

\* A question that is not there may be appended.
LEMMA DistinctAppends ==
  ASSUME NEW V, NEW s, Distinct(s, V), NEW q \in V
  PROVE  /\ Len(s) \in Nat
         /\ Append(s, q) \in Seq(V) /\ Len(Append(s, q)) = Len(s) + 1
         /\ ToSet(Append(s, q)) = ToSet(s) \cup {q}
         /\ q \notin ToSet(s) => Distinct(Append(s, q), V)
         /\ Contains(s, q) <=> q \in ToSet(s)
<1> DEFINE n == Len(s)
           a == Append(s, q)
<1>1. n \in Nat /\ DOMAIN s = 1..n /\ s \in Seq(V)
  BY DEF Distinct
<1>2. a \in Seq(V) /\ Len(a) = n + 1 /\ DOMAIN a = 1..(n + 1)
  BY <1>1
<1>3. a[n + 1] = q /\ \A i \in 1..n : a[i] = s[i]
  BY <1>1
<1> HIDE DEF a, n
<1>4. \A i : i \in 1..(n + 1) <=> i \in 1..n \/ i = n + 1
  BY <1>1
<1>5. ToSet(a) = ToSet(s) \cup {q}
  BY <1>1, <1>2, <1>3, <1>4 DEF ToSet
<1>6. ASSUME q \notin ToSet(s)
      PROVE  IsInjective(a)
  <2>1. \A i \in 1..n : s[i] # q
    BY <1>1, <1>6 DEF ToSet
  <2>2. \A i, j \in 1..n : s[i] = s[j] => i = j
    BY <1>1 DEF Distinct, IsInjective
  <2> QED BY <1>2, <1>3, <1>4, <2>1, <2>2 DEF IsInjective
<1>7. Contains(s, q) <=> q \in ToSet(s)
  BY <1>1 DEF Contains, ToSet, n
<1> QED BY <1>1, <1>2, <1>5, <1>6, <1>7 DEF Distinct, a, n

\* A sequence of different questions is as long as it has elements.
LEMMA DistinctCounted ==
  ASSUME NEW V, NEW s, Distinct(s, V)
  PROVE  /\ Len(s) \in Nat /\ DOMAIN s = 1..Len(s)
         /\ IsFiniteSet(ToSet(s)) /\ Cardinality(ToSet(s)) = Len(s)
         /\ ToSet(s) \subseteq V
<1> DEFINE n == Len(s)
           N == 1..n
<1>1. n \in Nat /\ DOMAIN s = N /\ s \in [N -> V]
  BY DEF Distinct
<1>2. IsFiniteSet(N) /\ Cardinality(N) = n
  <2>1. 1 \in Int /\ n \in Int /\ (IF 1 > n THEN 0 ELSE n - 1 + 1) = n
    BY <1>1
  <2> HIDE DEF n
  <2> QED BY <2>1, FS_Interval
<1> HIDE DEF N
<1>3. ToSet(s) \subseteq V /\ s \in Surjection(N, ToSet(s)) /\ s \in Injection(N, ToSet(s))
  BY <1>1 DEF ToSet, Surjection, Injection, Distinct
<1> HIDE DEF n
<1>4. IsFiniteSet(ToSet(s)) /\ Cardinality(ToSet(s)) = Cardinality(N)
  BY <1>2, <1>3, FS_Surjection
<1> QED BY <1>1, <1>2, <1>3, <1>4 DEF n, N

-----------------------------------------------------------------------------
(* build_generation_candidates.                                            *)

IsSelecting(t) ==
  t = [k \in Nat |-> IF k = 0 THEN <<>>
                     ELSE IF Suits(bank[k]) THEN Append(t[k - 1], bank[k]) ELSE t[k - 1]]
Selecting == CHOOSE t : IsSelecting(t)
SelectedOf(k) == Selecting[k]

\* The candidates are those selected after the last row.
LEMMA CandidatesAreSelected == Candidates = SelectedOf(Len(bank))
BY DEF Candidates, SelectedOf, Selecting, IsSelecting

Selects ==
  /\ SelectedOf(0) = <<>>
  /\ \A k \in Nat : SelectedOf(k + 1) = IF Suits(bank[k + 1]) THEN Append(SelectedOf(k), bank[k + 1])
                                        ELSE SelectedOf(k)

\* The candidates selected after each row.
LEMMA SelectingUnfolds == Selects
<1> DEFINE U == {bank[k] : k \in Nat}
           X == Seq(U)
           next(x, k) == IF Suits(bank[k]) THEN Append(x, bank[k]) ELSE x
           g == [p \in (Nat \ {0}) \X X |-> next(p[2], p[1])]
           z == <<>>
<1>1. \A k \in Nat \ {0}, x \in X : next(x, k) \in X
  <2>1. \A k \in Nat \ {0} : bank[k] \in U
    OBVIOUS
  <2> HIDE DEF U
  <2> QED BY <2>1
<1> HIDE DEF next, X
<1>2. g \in [(Nat \ {0}) \X X -> X] /\ z \in X
  <2>1. z \in X
    BY DEF X
  <2>2. g \in [(Nat \ {0}) \X X -> X]
    BY <1>1
  <2> QED BY <2>1, <2>2
<1>3. \A k \in Nat \ {0}, x \in X : g[<<k, x>>] = next(x, k)
  OBVIOUS
<1> HIDE DEF g
<1>4. PICK t : Unrolls(t, z, g)
  <2> HIDE DEF z
  <2> QED BY NumberRecursion
<1>5. Typed(t, X, z, g)
  <2> HIDE DEF z
  <2> QED BY <1>2, <1>4, TypedRecursion
<1>6. t = [k \in Nat |-> IF k = 0 THEN z ELSE next(t[k - 1], k)]
  <2>1. t \in [Nat -> X] /\ t[0] = z /\ \A k \in Nat \ {0} : t[k] = g[<<k, t[k - 1]>>]
    BY <1>5 DEF Typed
  <2>2. \A k \in Nat \ {0} : k - 1 \in Nat
    OBVIOUS
  <2> HIDE DEF z
  <2> QED BY <1>3, <2>1, <2>2
<1>7. IsSelecting(t)
  BY <1>6 DEF IsSelecting, next
<1> DEFINE D == Selecting
<1>8. IsSelecting(D)
  BY <1>7, Zenon DEF Selecting
<1> HIDE DEF D
<1>9. D = [k \in Nat |-> IF k = 0 THEN z ELSE next(D[k - 1], k)]
  BY <1>8 DEF IsSelecting, next
<1> HIDE DEF z
<1>10. D[0] = z /\ \A k \in Nat : D[k + 1] = next(D[k], k + 1)
  <2>1. \A k \in Nat : k + 1 \in Nat /\ k + 1 # 0 /\ (k + 1) - 1 = k
    OBVIOUS
  <2> QED BY <1>9, <2>1
<1>11. \A k : D[k] = SelectedOf(k)
  BY DEF D, SelectedOf
<1> QED BY <1>10, <1>11 DEF Selects, next, z

\* The candidates are rows of the bank, each at most once, and suit the request.
LEMMA CandidatesDistinct ==
  ASSUME bank \in Bank
  PROVE  Distinct(Candidates, ToSet(bank)) /\ \A q \in ToSet(Candidates) : Suits(q)
<1> DEFINE V == ToSet(bank)
           n == Len(bank)
           T == {k \in Nat : k <= n =>
                   /\ Distinct(SelectedOf(k), V)
                   /\ \A q \in ToSet(SelectedOf(k)) : Suits(q) /\ \E j \in 1..k : q = bank[j]}
<1>1. Distinct(bank, V)
  BY BankAssumption DEF Distinct
<1>2. n \in Nat /\ DOMAIN bank = 1..n /\ (\A i \in 1..n : bank[i] \in V)
      /\ \A i, j \in 1..n : bank[i] = bank[j] => i = j
  <2>1. n \in Nat /\ DOMAIN bank = 1..n
    BY <1>1, DistinctCounted
  <2> QED BY <1>1, <2>1 DEF Distinct, ToSet, IsInjective
<1> HIDE DEF V, n
<1>3. 0 \in T
  <2>1. <<>> \in Seq(V) /\ DOMAIN <<>> = {}
    OBVIOUS
  <2>2. Distinct(<<>>, V) /\ ToSet(<<>>) = {}
    BY <2>1 DEF Distinct, IsInjective, ToSet
  <2> QED BY <2>2, SelectingUnfolds DEF Selects
<1>4. ASSUME NEW k \in Nat, k \in T
      PROVE  k + 1 \in T
  <2> SUFFICES ASSUME k + 1 <= n
               PROVE  /\ Distinct(SelectedOf(k + 1), V)
                      /\ \A q \in ToSet(SelectedOf(k + 1)) : Suits(q) /\ \E j \in 1..(k + 1) : q = bank[j]
    OBVIOUS
  <2> DEFINE s == SelectedOf(k)
             r == bank[k + 1]
  <2>1. Distinct(s, V) /\ \A q \in ToSet(s) : Suits(q) /\ \E j \in 1..k : q = bank[j]
    BY <1>2, <1>4
  <2>2. k + 1 \in 1..n /\ \A j \in 1..k : j \in 1..n /\ j # k + 1 /\ j \in 1..(k + 1)
    BY <1>2
  <2>3. SelectedOf(k + 1) = IF Suits(r) THEN Append(s, r) ELSE s
    BY SelectingUnfolds DEF Selects
  <2>4. r \in V /\ r \notin ToSet(s)
    BY <1>2, <2>1, <2>2
  <2> HIDE DEF s
  <2>5. Distinct(Append(s, r), V) /\ ToSet(Append(s, r)) = ToSet(s) \cup {r}
    <3> HIDE DEF r
    <3> QED BY <2>1, <2>4, DistinctAppends
  <2>6. CASE Suits(r)
    <3>1. \A q \in ToSet(Append(s, r)) : Suits(q) /\ \E j \in 1..(k + 1) : q = bank[j]
      <4>1. \E j \in 1..(k + 1) : r = bank[j]
        OBVIOUS
      <4> HIDE DEF r
      <4> QED BY <2>1, <2>2, <2>5, <2>6, <4>1
    <3> HIDE DEF r
    <3> QED BY <2>3, <2>5, <2>6, <3>1
  <2>7. CASE ~Suits(r)
    <3> HIDE DEF r
    <3> QED BY <2>1, <2>2, <2>3, <2>7
  <2> QED BY <2>6, <2>7
<1>5. \A k \in Nat : k \in T
  <2> HIDE DEF T
  <2> QED BY <1>3, <1>4, NumberInduction
<1>6. /\ Distinct(SelectedOf(n), V)
      /\ \A q \in ToSet(SelectedOf(n)) : Suits(q)
  BY <1>2, <1>5
<1> QED BY <1>6, CandidatesAreSelected DEF V, n

-----------------------------------------------------------------------------
(* crossover_individual: the first different questions of a sequence.      *)

IsTaking(t, s, n) ==
  t = [k \in Nat |-> IF k = 0 THEN <<>>
                     ELSE LET c == t[k - 1]
                          IN IF Len(c) < n /\ ~Contains(c, s[k]) THEN Append(c, s[k]) ELSE c]
Taking(s, n) == CHOOSE t : IsTaking(t, s, n)
TakenOf(s, n, k) == Taking(s, n)[k]

\* The first different questions are those taken after the last one.
LEMMA FirstDistinctAreTaken ==
  ASSUME NEW s, NEW n
  PROVE  FirstDistinct(s, n) = TakenOf(s, n, Len(s))
BY DEF FirstDistinct, TakenOf, Taking, IsTaking

Takes(s, n) ==
  /\ TakenOf(s, n, 0) = <<>>
  /\ \A k \in Nat :
       TakenOf(s, n, k + 1) =
         IF Len(TakenOf(s, n, k)) < n /\ ~Contains(TakenOf(s, n, k), s[k + 1])
         THEN Append(TakenOf(s, n, k), s[k + 1]) ELSE TakenOf(s, n, k)

\* The questions taken after each one.
LEMMA TakingUnfolds ==
  ASSUME NEW s, NEW n
  PROVE  Takes(s, n)
<1> DEFINE U == {s[k] : k \in Nat}
           X == Seq(U)
           next(x, k) == IF Len(x) < n /\ ~Contains(x, s[k]) THEN Append(x, s[k]) ELSE x
           g == [p \in (Nat \ {0}) \X X |-> next(p[2], p[1])]
           z == <<>>
<1>1. \A k \in Nat \ {0}, x \in X : next(x, k) \in X
  <2>1. \A k \in Nat \ {0} : s[k] \in U
    OBVIOUS
  <2> HIDE DEF U
  <2> QED BY <2>1
<1> HIDE DEF next, X
<1>2. g \in [(Nat \ {0}) \X X -> X] /\ z \in X
  <2>1. z \in X
    BY DEF X
  <2>2. g \in [(Nat \ {0}) \X X -> X]
    BY <1>1
  <2> QED BY <2>1, <2>2
<1>3. \A k \in Nat \ {0}, x \in X : g[<<k, x>>] = next(x, k)
  OBVIOUS
<1> HIDE DEF g
<1>4. PICK t : Unrolls(t, z, g)
  <2> HIDE DEF z
  <2> QED BY NumberRecursion
<1>5. Typed(t, X, z, g)
  <2> HIDE DEF z
  <2> QED BY <1>2, <1>4, TypedRecursion
<1>6. t = [k \in Nat |-> IF k = 0 THEN z ELSE next(t[k - 1], k)]
  <2>1. t \in [Nat -> X] /\ t[0] = z /\ \A k \in Nat \ {0} : t[k] = g[<<k, t[k - 1]>>]
    BY <1>5 DEF Typed
  <2>2. \A k \in Nat \ {0} : k - 1 \in Nat
    OBVIOUS
  <2> HIDE DEF z
  <2> QED BY <1>3, <2>1, <2>2
<1>7. IsTaking(t, s, n)
  BY <1>6 DEF IsTaking, next
<1> DEFINE D == Taking(s, n)
<1>8. IsTaking(D, s, n)
  BY <1>7, Zenon DEF Taking
<1> HIDE DEF D
<1>9. D = [k \in Nat |-> IF k = 0 THEN z ELSE next(D[k - 1], k)]
  BY <1>8 DEF IsTaking, next
<1> HIDE DEF z
<1>10. D[0] = z /\ \A k \in Nat : D[k + 1] = next(D[k], k + 1)
  <2>1. \A k \in Nat : k + 1 \in Nat /\ k + 1 # 0 /\ (k + 1) - 1 = k
    OBVIOUS
  <2> QED BY <1>9, <2>1
<1>11. \A k : D[k] = TakenOf(s, n, k)
  BY DEF D, TakenOf
<1> QED BY <1>10, <1>11 DEF Takes, next, z

\* There are n of them, or all there are.
LEMMA FirstDistinctTakes ==
  ASSUME NEW V, NEW s \in Seq(V), NEW n \in Nat
  PROVE  /\ Distinct(FirstDistinct(s, n), V) /\ Len(FirstDistinct(s, n)) <= n
         /\ Len(FirstDistinct(s, n)) = n \/ ToSet(s) \subseteq ToSet(FirstDistinct(s, n))
<1> DEFINE m == Len(s)
           c(k) == TakenOf(s, n, k)
           T == {k \in Nat : k <= m =>
                   /\ Distinct(c(k), V) /\ Len(c(k)) <= n
                   /\ Len(c(k)) = n \/ \A j \in 1..k : s[j] \in ToSet(c(k))}
<1>1. m \in Nat /\ DOMAIN s = 1..m /\ \A j \in 1..m : s[j] \in V
  OBVIOUS
<1>2. c(0) = <<>> /\ \A k \in Nat : c(k + 1) = IF Len(c(k)) < n /\ ~Contains(c(k), s[k + 1])
                                               THEN Append(c(k), s[k + 1]) ELSE c(k)
  BY TakingUnfolds DEF Takes
<1> HIDE DEF m, c
<1>3. 0 \in T
  <2>1. <<>> \in Seq(V) /\ DOMAIN <<>> = {} /\ Len(<<>>) = 0
    OBVIOUS
  <2>2. Distinct(<<>>, V)
    BY <2>1 DEF Distinct, IsInjective
  <2> QED BY <1>2, <2>1, <2>2
<1>4. ASSUME NEW k \in Nat, k \in T
      PROVE  k + 1 \in T
  <2> SUFFICES ASSUME k + 1 <= m
               PROVE  /\ Distinct(c(k + 1), V) /\ Len(c(k + 1)) <= n
                      /\ Len(c(k + 1)) = n \/ \A j \in 1..(k + 1) : s[j] \in ToSet(c(k + 1))
    OBVIOUS
  <2> DEFINE t == c(k)
             q == s[k + 1]
  <2>1. Distinct(t, V) /\ Len(t) <= n /\ (Len(t) = n \/ \A j \in 1..k : s[j] \in ToSet(t))
    BY <1>1, <1>4
  <2>2. q \in V /\ \A j \in 1..(k + 1) : j \in 1..k \/ j = k + 1
    BY <1>1
  <2>3. c(k + 1) = IF Len(t) < n /\ ~Contains(t, q) THEN Append(t, q) ELSE t
    BY <1>2
  <2>4. \A j \in 1..(k + 1) : j \in 1..k \/ s[j] = q
    BY <2>2
  <2> HIDE DEF q, t
  <2>5. /\ Len(t) \in Nat /\ Len(Append(t, q)) = Len(t) + 1
        /\ ToSet(Append(t, q)) = ToSet(t) \cup {q}
        /\ q \notin ToSet(t) => Distinct(Append(t, q), V)
        /\ Contains(t, q) <=> q \in ToSet(t)
    BY <2>1, <2>2, DistinctAppends
  <2>6. CASE Len(t) < n /\ ~Contains(t, q)
    <3>1. c(k + 1) = Append(t, q)
      BY <2>3, <2>6
    <3>2. \A j \in 1..k : s[j] \in ToSet(t)
      BY <2>1, <2>6
    <3>3. \A j \in 1..(k + 1) : s[j] \in ToSet(t) \cup {q}
      BY <2>4, <3>2
    <3>4. Len(t) + 1 <= n
      BY <2>5, <2>6
    <3>5. Distinct(Append(t, q), V) /\ Len(Append(t, q)) = Len(t) + 1 /\ ToSet(Append(t, q)) = ToSet(t) \cup {q}
      BY <2>5, <2>6
    <3> QED BY <3>1, <3>3, <3>4, <3>5
  <2>7. CASE ~(Len(t) < n /\ ~Contains(t, q))
    <3>1. c(k + 1) = t
      BY <2>3, <2>7
    <3> QED BY <2>1, <2>4, <2>5, <2>7, <3>1
  <2> QED BY <2>6, <2>7
<1>5. \A k \in Nat : k \in T
  <2> HIDE DEF T
  <2> QED BY <1>3, <1>4, NumberInduction
<1>6. Distinct(c(m), V) /\ Len(c(m)) <= n /\ (Len(c(m)) = n \/ \A j \in 1..m : s[j] \in ToSet(c(m)))
  BY <1>1, <1>5
<1>7. FirstDistinct(s, n) = c(m)
  BY FirstDistinctAreTaken DEF c, m
<1>8. ToSet(s) = {s[j] : j \in 1..m}
  BY <1>1 DEF ToSet
<1> QED BY <1>6, <1>7, <1>8

-----------------------------------------------------------------------------
(* The numbers of questions of each type.                                  *)

\* The parts of a partition add up.
LEMMA PartsCounted ==
  ASSUME NEW N, IsFiniteSet(N), NEW S, IsFiniteSet(S), NEW f \in [N -> S], NEW g \in [S -> Nat],
         \A t \in S : g[t] = Cardinality({i \in N : f[i] = t})
  PROVE  SumFunction(g) = Cardinality(N)
<1> DEFINE Of(s) == {i \in N : f[i] \in s}
           T == {s \in SUBSET S : SumOver(g, s) = Cardinality(Of(s))}
<1>1. g \in [S -> Int]
  OBVIOUS
<1>2. /\ SumOver(g, {}) = 0
      /\ \A s \in SUBSET S : SumOver(g, s) \in Int
  BY <1>1, PartialUnfolds
<1>3. \A s \in SUBSET S, x \in S : x \in s => SumOver(g, s) = g[x] + SumOver(g, s \ {x})
  BY <1>1, PartialRemoves
<1>4. ASSUME NEW s \in SUBSET S, \A x \in s : s \ {x} \in T
      PROVE  s \in T
  <2>1. CASE s = {}
    <3>1. Of(s) = {}
      BY <2>1
    <3> HIDE DEF Of
    <3> QED BY <1>2, <2>1, <3>1, FS_EmptySet
  <2>2. CASE s # {}
    <3>1. PICK x \in s : TRUE
      BY <2>2
    <3> DEFINE A == {i \in N : f[i] = x}
               B == Of(s \ {x})
    <3>2. Of(s) = A \cup B /\ A \cap B = {} /\ A \in SUBSET N /\ B \in SUBSET N
      OBVIOUS
    <3>3. g[x] = Cardinality(A)
      OBVIOUS
    <3>4. SumOver(g, s \ {x}) = Cardinality(B)
      BY <1>4
    <3>5. SumOver(g, s) = g[x] + SumOver(g, s \ {x})
      BY <1>3
    <3> HIDE DEF A, B, Of
    <3>6. IsFiniteSet(A) /\ IsFiniteSet(B)
      BY <3>2, FS_Subset
    <3>7. Cardinality(Of(s)) = Cardinality(A) + Cardinality(B)
      <4>1. Cardinality(A \cup B) = Cardinality(A) + Cardinality(B) - Cardinality(A \cap B)
        BY <3>6, FS_Union
      <4>2. Cardinality(A) \in Nat /\ Cardinality(B) \in Nat /\ Cardinality(A \cap B) = 0
        BY <3>2, <3>6, FS_CardinalityType, FS_EmptySet
      <4> QED BY <3>2, <4>1, <4>2
    <3> QED BY <3>3, <3>4, <3>5, <3>7
  <2> QED BY <2>1, <2>2
<1>5. \A s \in SUBSET S : s \in T
  <2> HIDE DEF T
  <2> QED BY <1>4, SubsetInduction
<1>6. SumOver(g, S) = Cardinality(Of(S)) /\ Of(S) = N
  BY <1>5
<1> QED BY <1>6, SumIsPartial

\* The questions of a type are finite in number.
LEMMA OfTypeCounted ==
  ASSUME NEW V, NEW s, Distinct(s, V), NEW t
  PROVE  OfType(s, t) \in Nat
<1>1. IsFiniteSet(DOMAIN s)
  <2>1. DOMAIN s = 1..Len(s) /\ Len(s) \in Nat
    BY DistinctCounted
  <2>2. 1 \in Int /\ Len(s) \in Int
    BY <2>1
  <2> QED BY <2>1, <2>2, FS_Interval
<1>2. {i \in DOMAIN s : s[i].type = t} \in SUBSET DOMAIN s
  OBVIOUS
<1> QED BY <1>1, <1>2, FS_Subset, FS_CardinalityType DEF OfType

\* There is a candidate for each question to be selected, and one to select.
LEMMA CountBounds ==
  ASSUME bank \in Bank, payload \in Payload
  PROVE  /\ Count \in Nat /\ Len(Candidates) \in Nat /\ Count <= Len(Candidates)
         /\ Candidates # <<>> => Count # 0
         /\ IsFiniteSet(Kinds) /\ TypeTargets \in [Kinds -> Nat]
<1> DEFINE c == Candidates
           n == Len(c)
           N == 1..n
           wanted == payload.types
           of == [t \in Kinds |-> OfType(c, t)]
           kind == [i \in N |-> c[i].type]
<1>1. IsFiniteSet(Kinds) /\ wanted \in [Kinds -> Nat \ {0}]
  BY PayloadAssumption DEF Kinds
<1>2. Distinct(c, ToSet(bank)) /\ \A q \in ToSet(c) : Suits(q)
  BY CandidatesDistinct
<1>3. n \in Nat /\ DOMAIN c = N /\ IsFiniteSet(ToSet(c)) /\ Cardinality(ToSet(c)) = n
  BY <1>2, DistinctCounted
<1>4. TypeTargets = [t \in Kinds |-> Lesser(wanted[t], OfType(c, t))]
  BY DEF TypeTargets
<1>5. \A t : OfType(c, t) = Cardinality({i \in N : c[i].type = t})
  BY <1>3 DEF OfType
<1>6. \A i \in N : c[i] \in ToSet(c)
  BY <1>3 DEF ToSet
<1>7. c = <<>> <=> n = 0
  BY <1>2 DEF Distinct
<1> HIDE DEF c
<1>8. IsFiniteSet(N) /\ Cardinality(N) = n
  <2>1. 1 \in Int /\ n \in Int /\ (IF 1 > n THEN 0 ELSE n - 1 + 1) = n
    BY <1>3
  <2> HIDE DEF n
  <2> QED BY <2>1, FS_Interval
<1> HIDE DEF n, wanted
<1>9. kind \in [N -> Kinds]
  BY <1>2, <1>6 DEF Suits
<1>10. of \in [Kinds -> Nat] /\ \A t \in Kinds : of[t] = OfType(c, t)
  BY <1>2, OfTypeCounted
<1>11. SumFunction(of) = n
  <2>1. \A t \in Kinds : of[t] = Cardinality({i \in N : kind[i] = t})
    <3>1. ASSUME NEW t \in Kinds
          PROVE  {i \in N : kind[i] = t} = {i \in N : c[i].type = t}
      OBVIOUS
    <3> QED BY <1>5, <1>10, <3>1
  <2> HIDE DEF of, kind, N
  <2> QED BY <1>1, <1>8, <1>9, <1>10, <2>1, PartsCounted
<1> HIDE DEF of
<1>12. TypeTargets \in [Kinds -> Nat] /\ \A t \in Kinds : TypeTargets[t] <= of[t] /\ (of[t] # 0 => TypeTargets[t] # 0)
  BY <1>1, <1>4, <1>10 DEF Lesser
<1>13. Count \in Nat /\ \A t \in Kinds : TypeTargets[t] <= Count
  BY <1>1, <1>12, SumHasEach DEF Count
<1>14. Count <= n
  <2>1. TypeTargets \in [Kinds -> Int] /\ of \in [Kinds -> Int]
    BY <1>10, <1>12
  <2>2. \A t \in Kinds : 1 * TypeTargets[t] <= 1 * of[t]
    BY <1>12, <2>1
  <2>3. 1 * SumFunction(TypeTargets) <= 1 * SumFunction(of)
    BY <1>1, <2>1, <2>2, SumsCompare
  <2> QED BY <1>3, <1>11, <1>13, <2>3 DEF Count
<1>15. ASSUME c # <<>>
       PROVE  Count # 0
  <2>1. 1 \in N
    BY <1>3, <1>7, <1>15
  <2> DEFINE t == c[1].type
  <2>2. t \in Kinds /\ 1 \in {i \in N : c[i].type = t}
    BY <1>2, <1>6, <2>1 DEF Suits
  <2>3. of[t] # 0
    <3> DEFINE A == {i \in N : c[i].type = t}
    <3>1. A \in SUBSET N /\ of[t] = Cardinality(A) /\ A # {}
      BY <1>5, <1>10, <2>2
    <3> HIDE DEF A, N
    <3> QED BY <1>8, <3>1, FS_Subset, FS_EmptySet
  <2> HIDE DEF t
  <2> QED BY <1>12, <1>13, <2>2, <2>3
<1> QED BY <1>1, <1>3, <1>12, <1>13, <1>14, <1>15 DEF c, n

-----------------------------------------------------------------------------
(* Individuals: as many different candidates as are asked for.             *)

IsIndividual(s) == Distinct(s, ToSet(Candidates)) /\ Len(s) = Count

\* An individual is exact.
LEMMA IndividualsAreExact ==
  ASSUME NEW s, IsIndividual(s)
  PROVE  Exact(s)
BY DistinctCounted DEF IsIndividual, Exact

\* The candidates are as many as they are different.
LEMMA CandidatesPresent ==
  ASSUME bank \in Bank
  PROVE  /\ Distinct(Candidates, ToSet(Candidates))
         /\ Len(Candidates) \in Nat /\ DOMAIN Candidates = 1..Len(Candidates)
         /\ IsFiniteSet(ToSet(Candidates)) /\ Cardinality(ToSet(Candidates)) = Len(Candidates)
<1>1. Distinct(Candidates, ToSet(bank))
  BY CandidatesDistinct
<1> DEFINE c == Candidates
<1>2. /\ Len(c) \in Nat /\ DOMAIN c = 1..Len(c)
      /\ IsFiniteSet(ToSet(c)) /\ Cardinality(ToSet(c)) = Len(c)
  BY <1>1, DistinctCounted
<1>3. c \in Seq(ToSet(bank)) /\ IsInjective(c)
  BY <1>1 DEF Distinct
<1> HIDE DEF c
<1>4. c \in Seq(ToSet(c))
  <2>1. \A i \in 1..Len(c) : c[i] \in ToSet(c)
    BY <1>2 DEF ToSet
  <2>2. c = [i \in 1..Len(c) |-> c[i]]
    BY <1>2, <1>3
  <2> QED BY <1>2, <1>3, <2>1
<1> QED BY <1>2, <1>3, <1>4 DEF Distinct, c

\* All of them are one, when as many are asked for.
LEMMA AllAreIndividual ==
  ASSUME bank \in Bank, Len(Candidates) = Count
  PROVE  IsIndividual(Candidates)
BY CandidatesPresent DEF IsIndividual

\* random_individual.
LEMMA SampledIndividual ==
  ASSUME bank \in Bank, NEW s \in SetToAllKPermutations(ToSet(Candidates)), Len(s) = Count
  PROVE  IsIndividual(s)
<1> DEFINE V == ToSet(Candidates)
<1>1. PICK u \in SUBSET V : s \in SetToSeqs(u)
  BY DEF SetToAllKPermutations
<1>2. IsFiniteSet(V)
  BY CandidatesPresent
<1> HIDE DEF V
<1>3. Cardinality(u) \in Nat
  BY <1>1, <1>2, FS_Subset, FS_CardinalityType
<1> DEFINE n == Cardinality(u)
<1>4. s \in [1..n -> u] /\ \A i, j \in 1..n : i # j => s[i] # s[j]
  BY <1>1 DEF SetToSeqs
<1> HIDE DEF n
<1>5. s \in Seq(V) /\ IsInjective(s)
  <2>1. s \in [1..n -> V]
    BY <1>1, <1>4
  <2>2. n \in Nat
    BY <1>3 DEF n
  <2>3. IsInjective(s)
    BY <1>4 DEF IsInjective
  <2> QED BY <2>1, <2>2, <2>3
<1> QED BY <1>5 DEF Distinct, V, IsIndividual

\* A part of a sequence, another sequence and a third, which is contained.
LEMMA JoinedSequences ==
  ASSUME NEW V, NEW a \in Seq(V), NEW b \in Seq(V), NEW c \in Seq(V), NEW p \in 1..Len(a)
  PROVE  /\ SubSeq(a, 1, p) \o b \o c \in Seq(V)
         /\ ToSet(c) \subseteq ToSet(SubSeq(a, 1, p) \o b \o c)
<1> DEFINE h == SubSeq(a, 1, p) \o b
<1>1. SubSeq(a, 1, p) \in Seq(V)
  <2>1. \A i \in 1..p : i \in 1..Len(a) /\ a[i] \in V
    OBVIOUS
  <2> QED BY <2>1
<1>2. h \in Seq(V)
  BY <1>1
<1> HIDE DEF h
<1>3. h \o c \in Seq(V) /\ Len(h) \in Nat /\ Len(c) \in Nat /\ Len(h \o c) = Len(h) + Len(c)
  BY <1>2
<1>4. \A i \in 1..Len(c) : Len(h) + i \in 1..Len(h \o c) /\ (h \o c)[Len(h) + i] = c[i]
  BY <1>2, <1>3
<1>5. DOMAIN (h \o c) = 1..Len(h \o c) /\ DOMAIN c = 1..Len(c)
  BY <1>3
<1>6. ToSet(c) \subseteq ToSet(h \o c)
  <2> SUFFICES ASSUME NEW i \in 1..Len(c)
               PROVE  \E j \in 1..Len(h \o c) : (h \o c)[j] = c[i]
    BY <1>5 DEF ToSet
  <2> QED BY <1>4
<1> QED BY <1>3, <1>6 DEF h

\* crossover_individual: what the parents lack is filled up from the candidates.
LEMMA CrossedIndividual ==
  ASSUME bank \in Bank, payload \in Payload, Candidates # <<>>,
         NEW a, IsIndividual(a), NEW b, IsIndividual(b), NEW child \in Crossed(a, b)
  PROVE  IsIndividual(child)
<1> DEFINE V == ToSet(Candidates)
           c == Candidates
           n == Count
<1>1. n \in Nat /\ n # 0 /\ n <= Len(c)
  BY CountBounds
<1>2. Distinct(c, V) /\ IsFiniteSet(V) /\ Cardinality(V) = Len(c) /\ Len(c) \in Nat
  BY CandidatesPresent
<1>3. a \in Seq(V) /\ Len(a) = n /\ b \in Seq(V) /\ c \in Seq(V)
  BY <1>2 DEF IsIndividual, Distinct
<1>4. PICK p \in 1..Greater(1, n - 1) : child = FirstDistinct(SubSeq(a, 1, p) \o b \o c, n)
  BY DEF Crossed
<1>5. ToSet(c) = V
  OBVIOUS
<1> HIDE DEF V, c, n
<1>6. p \in 1..Len(a)
  BY <1>1, <1>3, <1>4 DEF Greater
<1> DEFINE s == SubSeq(a, 1, p) \o b \o c
<1>7. s \in Seq(V) /\ V \subseteq ToSet(s)
  BY <1>3, <1>5, <1>6, JoinedSequences
<1>8. child = FirstDistinct(s, n)
  BY <1>4
<1> HIDE DEF s
<1>9. Distinct(child, V) /\ Len(child) <= n /\ (Len(child) = n \/ V \subseteq ToSet(child))
  BY <1>1, <1>7, <1>8, FirstDistinctTakes
<1>10. /\ Len(child) \in Nat /\ IsFiniteSet(ToSet(child)) /\ Cardinality(ToSet(child)) = Len(child)
       /\ ToSet(child) \subseteq V
  BY <1>9, DistinctCounted
<1>11. V \subseteq ToSet(child) => ToSet(child) = V
  BY <1>10
<1>12. Len(child) = n
  BY <1>1, <1>2, <1>9, <1>10, <1>11
<1> QED BY <1>9, <1>12 DEF IsIndividual, V, n

-----------------------------------------------------------------------------
(* mutate_individual.                                                      *)

Replaced(individual, s, i) ==
  IF Len(individual) >= Len(Candidates) THEN {}
  ELSE {ReplaceAt(s, i, q) : q \in ToSet(Candidates) \ ToSet(s)}
IsReaching(t, individual) ==
  t = [k \in Nat |-> IF k = 0 THEN {individual}
                     ELSE LET R == t[k - 1] IN R \cup UNION {Replaced(individual, s, k) : s \in R}]
Reaching(individual) == CHOOSE t : IsReaching(t, individual)
ReachedBy(individual, k) == Reaching(individual)[k]

\* Mutation reaches what is reached after the last place.
LEMMA MutatedAreReached ==
  ASSUME NEW individual
  PROVE  Mutated(individual) = ReachedBy(individual, Len(individual))
BY DEF Mutated, ReachedBy, Reaching, IsReaching, Replaced

Reaches(individual) ==
  /\ ReachedBy(individual, 0) = {individual}
  /\ \A k \in Nat :
       ReachedBy(individual, k + 1) =
         ReachedBy(individual, k)
           \cup UNION {Replaced(individual, s, k + 1) : s \in ReachedBy(individual, k)}

\* A replacement is a candidate that was not in the individual.
LEMMA ReplacedType ==
  ASSUME NEW N, NEW individual, NEW s \in [N -> ToSet(Candidates)], NEW i, NEW r \in Replaced(individual, s, i)
  PROVE  /\ r \in [N -> ToSet(Candidates)]
         /\ IsInjective(s) => IsInjective(r)
<1>1. PICK q \in ToSet(Candidates) \ ToSet(s) : r = [s EXCEPT ![i] = q]
  BY DEF Replaced, ReplaceAt
<1> DEFINE V == ToSet(Candidates)
<1>2. q \in V /\ q \notin ToSet(s) /\ s \in [N -> V]
  OBVIOUS
<1> HIDE DEF V
<1>3. r \in [N -> V] /\ \A x \in N : r[x] = IF x = i THEN q ELSE s[x]
  BY <1>1, <1>2
<1>4. \A x \in N : s[x] # q
  BY <1>2 DEF ToSet
<1>5. IsInjective(s) => IsInjective(r)
  BY <1>2, <1>3, <1>4 DEF IsInjective
<1> QED BY <1>3, <1>5 DEF V

\* What is reached after each place.
LEMMA ReachingUnfolds ==
  ASSUME NEW N, NEW individual \in [N -> ToSet(Candidates)]
  PROVE  Reaches(individual)
<1> DEFINE F == [N -> ToSet(Candidates)]
           X == SUBSET F
           next(x, k) == x \cup UNION {Replaced(individual, s, k) : s \in x}
           g == [p \in (Nat \ {0}) \X X |-> next(p[2], p[1])]
           z == {individual}
<1>1. \A k \in Nat \ {0}, x \in X : next(x, k) \in X
  <2>1. \A k : \A s \in F : Replaced(individual, s, k) \subseteq F
    <3>1. ASSUME NEW k, NEW s \in F, NEW r \in Replaced(individual, s, k)
          PROVE  r \in F
      BY ReplacedType
    <3> QED BY <3>1
  <2> HIDE DEF F
  <2> QED BY <2>1
<1>2a. z \in X
  OBVIOUS
<1> HIDE DEF next, X, F
<1>2. g \in [(Nat \ {0}) \X X -> X] /\ z \in X
  <2>2. g \in [(Nat \ {0}) \X X -> X]
    BY <1>1
  <2> QED BY <1>2a, <2>2
<1>3. \A k \in Nat \ {0}, x \in X : g[<<k, x>>] = next(x, k)
  OBVIOUS
<1> HIDE DEF g
<1>4. PICK t : Unrolls(t, z, g)
  <2> HIDE DEF z
  <2> QED BY NumberRecursion
<1>5. Typed(t, X, z, g)
  <2> HIDE DEF z
  <2> QED BY <1>2, <1>4, TypedRecursion
<1>6. t = [k \in Nat |-> IF k = 0 THEN z ELSE next(t[k - 1], k)]
  <2>1. t \in [Nat -> X] /\ t[0] = z /\ \A k \in Nat \ {0} : t[k] = g[<<k, t[k - 1]>>]
    BY <1>5 DEF Typed
  <2>2. \A k \in Nat \ {0} : k - 1 \in Nat
    OBVIOUS
  <2> HIDE DEF z
  <2> QED BY <1>3, <2>1, <2>2
<1>7. IsReaching(t, individual)
  BY <1>6 DEF IsReaching, next
<1> DEFINE D == Reaching(individual)
<1>8. IsReaching(D, individual)
  BY <1>7, Zenon DEF Reaching
<1> HIDE DEF D
<1>9. D = [k \in Nat |-> IF k = 0 THEN z ELSE next(D[k - 1], k)]
  BY <1>8 DEF IsReaching, next
<1> HIDE DEF z
<1>10. D[0] = z /\ \A k \in Nat : D[k + 1] = next(D[k], k + 1)
  <2>1. \A k \in Nat : k + 1 \in Nat /\ k + 1 # 0 /\ (k + 1) - 1 = k
    OBVIOUS
  <2> QED BY <1>9, <2>1
<1>11. \A k : D[k] = ReachedBy(individual, k)
  BY DEF D, ReachedBy
<1> QED BY <1>10, <1>11 DEF Reaches, next, z

\* A replacement is none of the questions there are.
LEMMA MutatedIndividual ==
  ASSUME NEW individual, IsIndividual(individual), NEW m \in Mutated(individual)
  PROVE  IsIndividual(m)
<1> DEFINE n == Len(individual)
           V == ToSet(Candidates)
           F == {s \in [1..n -> V] : IsInjective(s)}
           T == {k \in Nat : ReachedBy(individual, k) \subseteq F}
<1>1. n \in Nat /\ individual \in F /\ n = Count
  BY DEF IsIndividual, Distinct
<1>2. Reaches(individual)
  BY <1>1, ReachingUnfolds
<1>3. \A k : \A s \in F : Replaced(individual, s, k) \subseteq F
  <2>1. ASSUME NEW k, NEW s \in F, NEW r \in Replaced(individual, s, k)
        PROVE  r \in F
    BY ReplacedType
  <2> QED BY <2>1
<1> HIDE DEF F
<1>4. 0 \in T
  BY <1>1, <1>2 DEF Reaches
<1>5. ASSUME NEW k \in Nat, k \in T
      PROVE  k + 1 \in T
  <2> DEFINE R == ReachedBy(individual, k)
  <2>1. ReachedBy(individual, k + 1) = R \cup UNION {Replaced(individual, s, k + 1) : s \in R}
    BY <1>2 DEF Reaches
  <2>2. R \subseteq F
    BY <1>5
  <2> HIDE DEF R
  <2>3. \A s \in R : Replaced(individual, s, k + 1) \subseteq F
    BY <1>3, <2>2
  <2>4. ReachedBy(individual, k + 1) \subseteq F
    BY <2>1, <2>2, <2>3
  <2> QED BY <2>4
<1>6. \A k \in Nat : k \in T
  <2> HIDE DEF T
  <2> QED BY <1>4, <1>5, NumberInduction
<1>7. m \in F
  BY <1>1, <1>6, MutatedAreReached
<1>8. m \in Seq(V) /\ Len(m) = n /\ IsInjective(m)
  BY <1>1, <1>7 DEF F
<1> QED BY <1>1, <1>8 DEF IsIndividual, Distinct

-----------------------------------------------------------------------------
(* Fitness, and the ranking of a population.                               *)

\* A distance is an integer.
LEMMA DistanceType ==
  ASSUME NEW a \in Int, NEW b \in Int
  PROVE  Distance(a, b) \in Int
BY DEF Distance

\* What the questions of an individual have in common is finite.
LEMMA TagsFinite ==
  ASSUME bank \in Bank, NEW s, IsIndividual(s)
  PROVE  /\ IsFiniteSet(UNION {q.tags : q \in ToSet(s)})
         /\ IsFiniteSet(UNION {q.subjects : q \in ToSet(s)})
         /\ \A q \in ToSet(s) : q.weight \in Nat \ {0}
<1>1. IsFiniteSet(ToSet(s)) /\ ToSet(s) \subseteq ToSet(Candidates)
  BY DistinctCounted DEF IsIndividual
<1>2. ToSet(Candidates) \subseteq ToSet(bank)
  BY CandidatesDistinct, DistinctCounted
<1>3. \A q \in ToSet(s) : q.weight \in Nat \ {0} /\ IsFiniteSet(q.tags) /\ IsFiniteSet(q.subjects)
  BY <1>1, <1>2, BankAssumption
<1> DEFINE Q == ToSet(s)
           tags == [q \in Q |-> q.tags]
           subjects == [q \in Q |-> q.subjects]
<1>4. {q.tags : q \in Q} = {tags[q] : q \in Q} /\ {q.subjects : q \in Q} = {subjects[q] : q \in Q}
  OBVIOUS
<1>5. \A q \in Q : IsFiniteSet(tags[q]) /\ IsFiniteSet(subjects[q])
  BY <1>3
<1> HIDE DEF tags, subjects
<1>6. IsFiniteSet({tags[q] : q \in Q}) /\ IsFiniteSet({subjects[q] : q \in Q})
  <2> HIDE DEF Q
  <2>1. IsFiniteSet(Q)
    BY <1>1 DEF Q
  <2> QED BY <2>1, ImageBound
<1>7. IsFiniteSet(UNION {tags[q] : q \in Q}) /\ IsFiniteSet(UNION {subjects[q] : q \in Q})
  <2> DEFINE A == {tags[q] : q \in Q}
             B == {subjects[q] : q \in Q}
  <2>1. (\A t \in A : IsFiniteSet(t)) /\ (\A t \in B : IsFiniteSet(t))
    BY <1>5
  <2> HIDE DEF A, B
  <2>2. IsFiniteSet(A) /\ IsFiniteSet(B)
    BY <1>6 DEF A, B
  <2>3. IsFiniteSet(UNION A) /\ IsFiniteSet(UNION B)
    BY <2>1, <2>2, FS_UNION
  <2> QED BY <2>3 DEF A, B
<1> QED BY <1>3, <1>4, <1>7

\* The fitness of an individual is an integer.
LEMMA FitnessType ==
  ASSUME bank \in Bank, payload \in Payload, targets \in [1..3 -> Nat], NEW s, IsIndividual(s)
  PROVE  Fitness(s) \in Int
<1> DEFINE N == DOMAIN s
           tags == UNION {q.tags : q \in ToSet(s)}
           subjects == UNION {q.subjects : q \in ToSet(s)}
           Of(d) == Cardinality({i \in N : s[i].difficulty = Difficulty[d]})
           difficulty == [d \in DOMAIN Anchor |-> Distance(Of(d), targets[d])]
           types == [t \in Kinds |-> Distance(OfType(s, t), TypeTargets[t])]
           weight == SumFunction([i \in N |-> s[i].weight])
           a == SumFunction(difficulty)
           b == SumFunction(types)
           c == Cardinality(payload.required \ tags)
           d1 == Distance(weight, payload.total)
           e == Cardinality((payload.preferred \ payload.required) \cap tags)
           f == Cardinality(tags)
           g == Cardinality(subjects)
<1>1. IsFiniteSet(tags) /\ IsFiniteSet(subjects) /\ \A q \in ToSet(s) : q.weight \in Nat \ {0}
  BY TagsFinite
<1>2. Fitness(s) = 1000 - (40 * a + 30 * b + 80 * c + 8 * d1) + 24 * e + 2 * Lesser(f, 10) + 3 * Lesser(g, 3)
  BY DEF Fitness
<1>3. IsFiniteSet(N) /\ N = 1..Len(s)
  <2>1. DOMAIN s = 1..Len(s) /\ Len(s) \in Nat
    BY DistinctCounted DEF IsIndividual
  <2>2. 1 \in Int /\ Len(s) \in Int
    BY <2>1
  <2> QED BY <2>1, <2>2, FS_Interval
<1>4. \A i \in N : s[i].weight \in Int
  <2>1. \A i \in N : s[i] \in ToSet(s)
    BY DEF ToSet
  <2> QED BY <1>1, <2>1
<1>5. weight \in Int
  <2> DEFINE h == [i \in N |-> s[i].weight]
  <2>1. h \in [N -> Int]
    BY <1>4
  <2> HIDE DEF h, N
  <2> QED BY <1>3, <2>1, SumType DEF h
<1>6. a \in Int
  <2>1. \A d \in 1..3 : Of(d) \in Nat
    <3>1. \A d : {i \in N : s[i].difficulty = Difficulty[d]} \in SUBSET N
      OBVIOUS
    <3> HIDE DEF N
    <3> QED BY <1>3, <3>1, FS_Subset, FS_CardinalityType
  <2> HIDE DEF Of
  <2>2. \A d \in 1..3 : targets[d] \in Nat
    OBVIOUS
  <2>3. ASSUME NEW d \in 1..3
        PROVE  Distance(Of(d), targets[d]) \in Int
    <3>1. Of(d) \in Int /\ targets[d] \in Int
      BY <2>1, <2>2
    <3> QED BY <3>1, DistanceType
  <2>4. difficulty \in [1..3 -> Int]
    BY <2>3, AnchorDomain
  <2> HIDE DEF difficulty
  <2> DEFINE S == 1..3
  <2>5. IsFiniteSet(S)
    <3>1. 1 \in Int /\ 3 \in Int
      OBVIOUS
    <3> QED BY <3>1, FS_Interval, Zenon
  <2>6. difficulty \in [S -> Int]
    BY <2>4
  <2> HIDE DEF S
  <2> QED BY <2>5, <2>6, SumType
<1>7. b \in Int
  <2>1. IsFiniteSet(Kinds) /\ TypeTargets \in [Kinds -> Nat]
    BY CountBounds
  <2>2. \A t \in Kinds : OfType(s, t) \in Nat
    BY OfTypeCounted DEF IsIndividual
  <2>3. \A t \in Kinds : Distance(OfType(s, t), TypeTargets[t]) \in Int
    BY <2>1, <2>2, DistanceType
  <2>4. types \in [Kinds -> Int]
    BY <2>3
  <2> HIDE DEF types
  <2> QED BY <2>1, <2>4, SumType
<1>8. IsFiniteSet(payload.required) /\ IsFiniteSet(payload.preferred) /\ payload.total \in Nat
  BY PayloadAssumption
<1> HIDE DEF tags, subjects, weight, a, b
<1>9. c \in Nat /\ e \in Nat /\ f \in Nat /\ g \in Nat
  <2>1. IsFiniteSet(payload.required \ tags)
    BY <1>8, FS_Difference
  <2>2. IsFiniteSet((payload.preferred \ payload.required) \cap tags)
    BY <1>1, FS_Intersection
  <2>3. c \in Nat
    BY <2>1, FS_CardinalityType
  <2>4. e \in Nat
    BY <2>2, FS_CardinalityType
  <2>5. f \in Nat /\ g \in Nat
    BY <1>1, FS_CardinalityType
  <2> QED BY <2>3, <2>4, <2>5
<1>10. d1 \in Int
  <2>1. payload.total \in Int
    BY <1>8
  <2> QED BY <1>5, <2>1, DistanceType
<1>11. Lesser(f, 10) \in Int /\ Lesser(g, 3) \in Int
  <2> HIDE DEF f, g
  <2> QED BY <1>9 DEF Lesser
<1> HIDE DEF c, d1, e, f, g
<1> DEFINE x == Lesser(f, 10)
           y == Lesser(g, 3)
<1> HIDE DEF x, y
<1>12. 1000 - (40 * a + 30 * b + 80 * c + 8 * d1) + 24 * e + 2 * x + 3 * y \in Int
  <2>1. x \in Int /\ y \in Int
    BY <1>11 DEF x, y
  <2> QED BY <1>6, <1>7, <1>9, <1>10, <2>1
<1> QED BY <1>2, <1>12 DEF x, y

Individuals == {s \in Seq(ToSet(Candidates)) : IsIndividual(s)}

\* Individuals as a set.
LEMMA IndividualsIn ==
  ASSUME NEW s
  PROVE  s \in Individuals <=> IsIndividual(s)
BY DEF Individuals, IsIndividual, Distinct

IsRanking(p, r) ==
  /\ r \in Seq(Individuals) /\ Len(r) = Len(p)
  /\ \A i \in 1..Len(p) : Fitness(p[i]) <= Fitness(r[1])
  /\ \A i \in 1..Len(p) : Fitness(r[i]) \in Int

\* The first individual of a ranked population is its best.
LEMMA RankedPopulation ==
  ASSUME bank \in Bank, payload \in Payload, targets \in [1..3 -> Nat], NEW p \in Seq(Individuals)
  PROVE  IsRanking(p, Ranked(p))
<1> DEFINE n == Len(p)
           F(i) == Fitness(p[i])
           E(i, j) == F(i) > F(j) \/ (F(i) = F(j) /\ i < j)
           R == {r \in (1..n) \X (1..n) : E(r[1], r[2])}
           order == Ranking(p)
           rank == Ranked(p)
<1>1. n \in Nat /\ DOMAIN p = 1..n /\ \A i \in 1..n : p[i] \in Individuals
  OBVIOUS
<1>2. \A i \in 1..n : F(i) \in Int
  BY <1>1, IndividualsIn, FitnessType
<1>3. rank = [i \in 1..n |-> p[order[i]]]
  BY <1>1 DEF Ranked
<1>4. order = CHOOSE q \in {q \in Bijection(1..n, 1..n) : \A i, j \in 1..n : i < j => E(q[i], q[j])} : TRUE
  BY Zenon DEF Ranking, InOrder, Orders
<1> HIDE DEF F, n, order, rank
<1>5. \A i, j \in 1..n : <<i, j>> \in R <=> E(i, j)
  OBVIOUS
<1>6. Ranks(n, R)
  <2>1. \A i \in 1..n : ~E(i, i)
    BY <1>2
  <2>2. \A i, j \in 1..n : i # j => E(i, j) \/ E(j, i)
    BY <1>1, <1>2
  <2>3. \A i, j, k \in 1..n : E(i, j) /\ E(j, k) => E(i, k)
    BY <1>1, <1>2
  <2> HIDE DEF E, R
  <2> QED BY <1>5, <2>1, <2>2, <2>3 DEF Ranks
<1>7. PICK q : Sorts(q, n, R)
  <2> HIDE DEF R
  <2> QED BY <1>1, <1>6, OrderExists
<1>8. q \in {o \in Bijection(1..n, 1..n) : \A i, j \in 1..n : i < j => E(o[i], o[j])}
  <2>1. \A i \in 1..n : q[i] \in 1..n
    BY <1>1, <1>7, BijectionIsOrder DEF Sorts, IsOrder
  <2> HIDE DEF E, R
  <2> QED BY <1>5, <1>7, <2>1 DEF Sorts
<1>9. order \in Bijection(1..n, 1..n) /\ \A i, j \in 1..n : i < j => E(order[i], order[j])
  <2> HIDE DEF E
  <2> QED BY <1>4, <1>8
<1>10. IsOrder(order, n)
  BY <1>1, <1>9, BijectionIsOrder
<1>11. rank \in Seq(Individuals) /\ Len(rank) = n /\ \A i \in 1..n : rank[i] = p[order[i]]
  <2>1. \A i \in 1..n : p[order[i]] \in Individuals
    BY <1>1, <1>10 DEF IsOrder
  <2> QED BY <1>1, <1>3, <2>1
<1>12. ASSUME NEW i \in 1..n
       PROVE  Fitness(p[i]) <= Fitness(rank[1])
  <2>1. 1 \in 1..n
    BY <1>1
  <2>2. rank[1] = p[order[1]] /\ order[1] \in 1..n
    BY <1>10, <1>11, <2>1 DEF IsOrder
  <2>3. PICK x \in 1..n : order[x] = i
    BY <1>10 DEF IsOrder
  <2>4. F(order[1]) \in Int /\ F(i) \in Int
    BY <1>2, <2>2
  <2>5. CASE x = 1
    BY <2>2, <2>3, <2>4, <2>5 DEF F
  <2>6. CASE x # 1
    <3>1. E(order[1], order[x])
      <4> HIDE DEF E
      <4> QED BY <1>9, <2>1, <2>6
    <3>2. F(i) <= F(order[1])
      BY <2>3, <2>4, <3>1
    <3> QED BY <2>2, <3>2 DEF F
  <2> QED BY <2>5, <2>6
<1>13. \A i \in 1..n : Fitness(rank[i]) \in Int
  <2>1. \A i \in 1..n : order[i] \in 1..n
    BY <1>10 DEF IsOrder
  <2> QED BY <1>2, <1>11, <2>1 DEF F
<1> QED BY <1>11, <1>12, <1>13 DEF IsRanking, n, rank

-----------------------------------------------------------------------------
(* The inductive invariant of the search.                                  *)

IsPopulation(p) == p \in Seq(Individuals) /\ Len(p) <= Size

\* Nothing has been searched: the candidates are not known, or not sampled.
Unsearched ==
  /\ children = <<>> /\ best = <<>> /\ score = Missing
  /\ stale = 0 /\ generation = 0 /\ result = Missing
Untargeted == targets = <<0, 0, 0>> /\ population = <<>>

Began == pc \in {"candidates", "refused"} => Unsearched /\ Untargeted
Accepted ==
  pc \notin {"candidates", "refused"} =>
    /\ Candidates # <<>> /\ payload.total >= Count
    /\ Targeted(payload.coefficient, Count, targets)

Bred == IsPopulation(population) /\ IsPopulation(children)

Scored ==
  /\ score \in Int \cup {Missing}
  /\ score = Missing <=> generation = 0
  /\ generation = 0 => best = <<>>
  /\ generation # 0 => best \in Individuals

Counted ==
  /\ generation \in 0..Generations
  /\ stale \in 0..Greater(Patience, Warmup)
  /\ IF generation = 0 THEN stale = 0 ELSE stale <= generation - 1

Goes == stale < Patience \/ generation <= Warmup

AtAll == pc = "all" => Unsearched /\ Len(Candidates) = Count
AtSample == pc = "sample" => Unsearched /\ Len(population) < Size
AtRank ==
  pc = "rank" =>
    /\ Len(population) >= 1 /\ children = <<>> /\ generation < Generations /\ Goes
    /\ generation # 0 => Fitness(population[1]) = score
AtBreed ==
  pc = "breed" =>
    /\ Len(children) >= 1 /\ Len(population) >= 1 /\ generation # 0 /\ Goes
    /\ children[1] = population[1] /\ Fitness(population[1]) = score
AtFinish == pc = "finish" => generation # 0

Answers ==
  result # Missing =>
    /\ pc = "done"
    /\ result.questions \in Individuals
    /\ SharedOut(Count, [i \in DOMAIN result.questions |-> result.questions[i].weight], payload.total, result.marks)

Given ==
  /\ bank \in Bank /\ payload \in Payload
  /\ pc \in {"candidates", "all", "sample", "rank", "breed", "finish", "done", "refused"}

GenerationInvariant ==
  /\ Given /\ Began /\ Accepted /\ Bred /\ Scored /\ Counted
  /\ AtAll /\ AtSample /\ AtRank /\ AtBreed /\ AtFinish /\ Answers
\* What a request keeps throughout.
RequestStays ==
  /\ bank' = bank /\ payload' = payload /\ Candidates' = Candidates
  /\ Count' = Count /\ Size' = Size /\ Individuals' = Individuals

\* The candidates depend on the bank and the request only.
LEMMA CandidatesUnchanged ==
  ASSUME UNCHANGED <<bank, payload>>
  PROVE  Candidates' = Candidates
BY DEF Candidates, Suits, Kinds

\* So do the targets per type.
LEMMA TypeTargetsUnchanged ==
  ASSUME UNCHANGED <<bank, payload>>
  PROVE  TypeTargets' = TypeTargets
BY DEF TypeTargets, OfType, Candidates, Suits, Kinds

\* All that the bank and the request determine stays with them.
LEMMA RequestKept ==
  ASSUME UNCHANGED <<bank, payload>>
  PROVE  RequestStays
<1>1. Candidates' = Candidates
  BY CandidatesUnchanged
<1>2. TypeTargets' = TypeTargets
  BY TypeTargetsUnchanged
<1>3. Count' = Count
  BY <1>2 DEF Count
<1>4. Size' = Size
  BY <1>1 DEF Size
<1>5. Individuals' = Individuals
  BY <1>1, <1>3 DEF Individuals, IsIndividual
<1> QED BY <1>1, <1>3, <1>4, <1>5 DEF RequestStays

\* So does fitness, once there are targets.
LEMMA FitnessUnchanged ==
  ASSUME UNCHANGED <<bank, payload, targets>>, NEW s
  PROVE  Fitness(s)' = Fitness(s)
<1>1. TypeTargets' = TypeTargets
  BY TypeTargetsUnchanged
<1> QED BY <1>1 DEF Fitness, Kinds

\* A population is never empty.
LEMMA SizeType ==
  ASSUME bank \in Bank
  PROVE  Size \in Nat \ {0}
<1> DEFINE a == Elitism + Tournament
           b == Len(Candidates) * PerCandidate
<1>1. PopulationSize \in Nat \ {0} /\ a \in Nat \ {0} /\ b \in Nat
  <2>1. Len(Candidates) \in Nat
    BY CandidatesPresent
  <2>2. PopulationSize \in Nat \ {0} /\ Elitism \in Nat \ {0} /\ Tournament \in Nat \ {0} /\ PerCandidate \in Nat \ {0}
    BY SizeAssumption
  <2> DEFINE n == Len(Candidates)
  <2> HIDE DEF n
  <2>3. n * PerCandidate \in Nat
    BY <2>1, <2>2 DEF n
  <2> QED BY <2>2, <2>3 DEF n
<1> HIDE DEF a, b
<1>2. Size = Lesser(Greater(PopulationSize, a), Greater(1, b))
  BY DEF Size, a, b
<1> QED BY <1>1, <1>2 DEF Lesser, Greater

\* build_generation_result.
LEMMA FinishShares ==
  ASSUME bank \in Bank, payload \in Payload, Candidates # <<>>, payload.total >= Count,
         NEW s \in Individuals,
         NEW m \in Distributions([i \in DOMAIN s |-> s[i].weight], payload.total)
  PROVE  SharedOut(Count, [i \in DOMAIN s |-> s[i].weight], payload.total, m)
<1> DEFINE w == [i \in DOMAIN s |-> s[i].weight]
           n == Count
           total == payload.total
<1>1. n \in Nat \ {0}
  BY CountBounds
<1>2. IsIndividual(s)
  BY IndividualsIn
<1>3. DOMAIN s = 1..n /\ \A i \in 1..n : s[i] \in ToSet(s)
  BY <1>1, <1>2, DistinctCounted DEF IsIndividual, ToSet
<1>4. \A i \in 1..n : s[i].weight \in Nat \ {0}
  BY <1>2, <1>3, TagsFinite
<1>5. w \in [1..n -> Nat \ {0}]
  BY <1>3, <1>4
<1>6. total \in Nat /\ total >= n
  BY PayloadAssumption
<1>7. m \in Distributions(w, total)
  OBVIOUS
<1> HIDE DEF w, n, total
<1>8. SharedOut(n, w, total, m)
  BY <1>1, <1>5, <1>6, <1>7, DistributionsShare
<1> QED BY <1>8 DEF w, n, total

-----------------------------------------------------------------------------
(* Each step keeps the invariant.                                          *)

\* The invariant holds at first.
LEMMA InitGenerates == GenerationInit => GenerationInvariant
<1> SUFFICES ASSUME GenerationInit
             PROVE  GenerationInvariant
  OBVIOUS
<1> USE DEF GenerationInit
<1>1. bank \in Bank /\ Size \in Nat \ {0}
  BY SizeType
<1>2. Given /\ Began /\ Accepted
  BY DEF Given, Began, Accepted, Unsearched, Untargeted
<1>3. Bred
  <2>1. <<>> \in Seq(Individuals) /\ Len(<<>>) = 0
    OBVIOUS
  <2> QED BY <1>1, <2>1 DEF Bred, IsPopulation
<1>4. Scored /\ Counted
  BY SizeAssumption DEF Scored, Counted, Greater
<1>5. AtAll /\ AtSample /\ AtRank /\ AtBreed /\ AtFinish /\ Answers
  BY DEF AtAll, AtSample, AtRank, AtBreed, AtFinish, Answers
<1> QED BY <1>2, <1>3, <1>4, <1>5 DEF GenerationInvariant

\* A step that changes nothing keeps it.
LEMMA StutterGenerates ==
  ASSUME GenerationInvariant, UNCHANGED generationVars
  PROVE  GenerationInvariant'
<1> USE DEF generationVars
<1>1. RequestStays
  BY RequestKept
<1>2. \A s : Fitness(s)' = Fitness(s)
  BY FitnessUnchanged
<1>3. Given' /\ Began'
  BY DEF GenerationInvariant, Given, Began, Unsearched, Untargeted
<1>4. Accepted' /\ Bred'
  BY <1>1 DEF GenerationInvariant, RequestStays, Accepted, Bred, IsPopulation
<1>5. Scored' /\ Counted'
  BY <1>1 DEF GenerationInvariant, RequestStays, Scored, Counted
<1>6. AtAll' /\ AtSample'
  BY <1>1 DEF GenerationInvariant, RequestStays, AtAll, AtSample, Unsearched
<1>7. AtRank' /\ AtBreed' /\ AtFinish'
  BY <1>2 DEF GenerationInvariant, AtRank, AtBreed, AtFinish, Goes
<1>8. Answers'
  BY <1>1 DEF GenerationInvariant, RequestStays, Answers
<1> QED BY <1>3, <1>4, <1>5, <1>6, <1>7, <1>8 DEF GenerationInvariant

\* A refusal keeps it.
LEMMA RefusePayloadGenerates ==
  ASSUME GenerationInvariant, RefusePayload
  PROVE  GenerationInvariant'
<1>1. RequestStays
  BY RequestKept DEF RefusePayload
<1>2. pc = "candidates" /\ pc' = "refused"
  BY DEF RefusePayload
<1>3. Given' /\ Began' /\ Accepted'
  BY DEF RefusePayload, GenerationInvariant, Given, Began, Unsearched, Untargeted, Accepted
<1>4. Bred'
  BY <1>1 DEF RefusePayload, GenerationInvariant, RequestStays, Bred, IsPopulation
<1>5. Scored' /\ Counted'
  BY <1>1 DEF RefusePayload, GenerationInvariant, RequestStays, Scored, Counted
<1>6. AtAll' /\ AtSample' /\ AtRank' /\ AtBreed' /\ AtFinish'
  BY <1>2 DEF AtAll, AtSample, AtRank, AtBreed, AtFinish
<1>7. Answers'
  BY <1>2 DEF RefusePayload, GenerationInvariant, Answers, Began, Unsearched
<1> QED BY <1>3, <1>4, <1>5, <1>6, <1>7 DEF GenerationInvariant

\* The targets are exact when the candidates are accepted.
LEMMA TargetGenerates ==
  ASSUME GenerationInvariant, Target
  PROVE  GenerationInvariant'
<1>1. RequestStays
  BY RequestKept DEF Target
<1>2. bank \in Bank /\ payload \in Payload /\ Unsearched /\ population = <<>> /\ Candidates # <<>>
  BY DEF Target, GenerationInvariant, Given, Began, Untargeted
<1>3. pc' = IF Len(Candidates) = Count THEN "all" ELSE "sample"
  BY DEF Target
<1>4. Unsearched' /\ population' = <<>>
  BY <1>2 DEF Target, Unsearched
<1>5. Given' /\ Began'
  BY <1>2, <1>3 DEF Target, Given, Began
<1>6. Accepted'
  <2>1. Count \in Nat
    BY <1>2, CountBounds
  <2>2. payload.coefficient \in 0..100
    BY <1>2, PayloadAssumption
  <2>3. targets' \in DifficultyTargets(payload.coefficient, Count)
    BY DEF Target
  <2>4. Targeted(payload.coefficient, Count, targets')
    BY <2>1, <2>2, <2>3, DifficultyTargetsExact
  <2> QED BY <1>1, <2>4 DEF Target, RequestStays, Accepted
<1>7. Bred'
  BY <1>1 DEF Target, GenerationInvariant, RequestStays, Bred, IsPopulation
<1>8. Scored' /\ Counted'
  BY <1>1 DEF Target, GenerationInvariant, RequestStays, Scored, Counted
<1>9. AtAll' /\ AtSample'
  <2>1. Size \in Nat \ {0} /\ Len(<<>>) = 0
    BY <1>2, SizeType
  <2> QED BY <1>1, <1>3, <1>4, <2>1 DEF RequestStays, AtAll, AtSample
<1>10. AtRank' /\ AtBreed' /\ AtFinish' /\ Answers'
  BY <1>3, <1>4 DEF AtRank, AtBreed, AtFinish, Answers, Unsearched
<1> QED BY <1>5, <1>6, <1>7, <1>8, <1>9, <1>10 DEF GenerationInvariant

\* BuildResult, of a selection of individuals.
LEMMA FinishGenerates ==
  ASSUME GenerationInvariant, NEW s \in Individuals, NEW f, BuildResult(s, f),
         pc \notin {"candidates", "refused"},
         UNCHANGED <<bank, payload, targets, population, children, best, score, stale, generation>>
  PROVE  GenerationInvariant'
<1>1. RequestStays
  BY RequestKept
<1>2. pc' = "done"
  BY DEF BuildResult
<1>3. Given' /\ Began'
  BY <1>2 DEF GenerationInvariant, Given, Began
<1>4. Accepted' /\ Bred'
  BY <1>1 DEF GenerationInvariant, RequestStays, Accepted, Bred, IsPopulation
<1>5. Scored' /\ Counted'
  BY <1>1 DEF GenerationInvariant, RequestStays, Scored, Counted
<1>6. AtAll' /\ AtSample' /\ AtRank' /\ AtBreed' /\ AtFinish'
  BY <1>2 DEF AtAll, AtSample, AtRank, AtBreed, AtFinish
<1>7. Answers'
  <2>1. PICK m \in Distributions([i \in DOMAIN s |-> s[i].weight], payload.total) :
           result' = [fitness |-> f, questions |-> s, marks |-> m]
    BY DEF BuildResult
  <2>2. SharedOut(Count, [i \in DOMAIN s |-> s[i].weight], payload.total, m)
    BY FinishShares DEF GenerationInvariant, Given, Accepted
  <2>3. result'.questions = s /\ result'.marks = m
    BY <2>1
  <2> QED BY <1>1, <1>2, <2>2, <2>3 DEF RequestStays, Answers
<1> QED BY <1>3, <1>4, <1>5, <1>6, <1>7 DEF GenerationInvariant

\* All candidates are selected when no more are asked for.
LEMMA TakeAllGenerates ==
  ASSUME GenerationInvariant, TakeAll
  PROVE  GenerationInvariant'
<1>1. Candidates \in Individuals
  BY AllAreIndividual, IndividualsIn DEF TakeAll, GenerationInvariant, Given, AtAll
<1> QED BY <1>1, FinishGenerates DEF TakeAll

\* The best individual is the selection of a search.
LEMMA TakeBestGenerates ==
  ASSUME GenerationInvariant, TakeBest
  PROVE  GenerationInvariant'
<1>1. best \in Individuals
  BY DEF TakeBest, GenerationInvariant, AtFinish, Scored
<1> QED BY <1>1, FinishGenerates DEF TakeBest

\* A population is filled by samples.
LEMMA SampleGenerates ==
  ASSUME GenerationInvariant, Sample
  PROVE  GenerationInvariant'
<1>1. RequestStays
  BY RequestKept DEF Sample
<1>2. pc = "sample" /\ bank \in Bank /\ Unsearched /\ Len(population) < Size
  BY DEF Sample, GenerationInvariant, Given, AtSample
<1>3. PICK s \in SetToAllKPermutations(ToSet(Candidates)) :
         Len(s) = Count /\ population' = Append(population, s)
  BY DEF Sample
<1>4. s \in Individuals
  BY <1>2, <1>3, SampledIndividual, IndividualsIn
<1>5. population \in Seq(Individuals)
  BY DEF GenerationInvariant, Bred, IsPopulation
<1>6. population' \in Seq(Individuals) /\ Len(population') = Len(population) + 1 /\ Len(population) \in Nat
  BY <1>3, <1>4, <1>5
<1>7. Size \in Nat \ {0}
  BY <1>2, SizeType
<1>8. pc' = IF Len(population') = Size THEN "rank" ELSE "sample"
  BY DEF Sample
<1>9. Unsearched'
  BY <1>2 DEF Sample, Unsearched
<1>10. Given' /\ Began'
  BY <1>2, <1>8 DEF Sample, GenerationInvariant, Given, Began
<1>11. Accepted'
  BY <1>1, <1>2 DEF Sample, GenerationInvariant, RequestStays, Accepted
<1>12. Bred'
  <2>1. Len(population') <= Size
    BY <1>2, <1>6, <1>7
  <2> QED BY <1>1, <1>6, <2>1 DEF Sample, GenerationInvariant, RequestStays, Bred, IsPopulation
<1>13. Scored' /\ Counted'
  BY <1>1 DEF Sample, GenerationInvariant, RequestStays, Scored, Counted
<1>14. AtAll' /\ AtBreed' /\ AtFinish' /\ Answers'
  BY <1>8, <1>9 DEF AtAll, AtBreed, AtFinish, Answers, Unsearched
<1>15. AtSample'
  BY <1>1, <1>2, <1>6, <1>7, <1>8, <1>9 DEF RequestStays, AtSample
<1>16. AtRank'
  BY <1>6, <1>9, SizeAssumption DEF AtRank, Unsearched, Goes
<1> QED BY <1>10, <1>11, <1>12, <1>13, <1>14, <1>15, <1>16 DEF GenerationInvariant

\* The elite begins with the best individual.
LEMMA ElitesLead ==
  ASSUME NEW V, NEW r \in Seq(V), Len(r) >= 1
  PROVE  /\ Elites(r) \in Seq(V) /\ 1 <= Len(Elites(r)) /\ Len(Elites(r)) <= Len(r)
         /\ Elites(r)[1] = r[1]
<1> DEFINE k == Lesser(Elitism, Len(r))
<1>1. Len(r) \in Nat
  OBVIOUS
<1>2. k \in 1..Len(r)
  <2> DEFINE n == Len(r)
  <2> HIDE DEF n
  <2> QED BY <1>1, SizeAssumption DEF Lesser, n
<1>3. Elites(r) = SubSeq(r, 1, k)
  BY DEF Elites
<1> HIDE DEF k
<1>4. \A i \in 1..k : i \in 1..Len(r) /\ r[i] \in V
  BY <1>2
<1>5. SubSeq(r, 1, k) \in Seq(V) /\ Len(SubSeq(r, 1, k)) = k /\ SubSeq(r, 1, k)[1] = r[1]
  BY <1>2, <1>4
<1> QED BY <1>2, <1>3, <1>5

\* What a ranking finds is at least as good as the best so far, if any.
LEMMA RankKeepsBest ==
  ASSUME GenerationInvariant, Rank
  PROVE  /\ population' = Ranked(population) /\ population' \in Seq(Individuals)
         /\ Len(population') = Len(population) /\ Len(population') \in Nat /\ Len(population') >= 1
         /\ population'[1] \in Individuals
         /\ Fitness(population'[1]) \in Int /\ Fitness(population'[1]) = score'
<1> DEFINE r == Ranked(population)
           top == Fitness(r[1])
<1>1. population' = r /\ score' = IF score = Missing \/ top > score THEN top ELSE score
  BY DEF Rank
<1>2. /\ bank \in Bank /\ payload \in Payload /\ targets \in [1..3 -> Nat]
      /\ population \in Seq(Individuals) /\ Len(population) >= 1
      /\ generation # 0 => Fitness(population[1]) = score
      /\ score = Missing <=> generation = 0
      /\ score \in Int \cup {Missing}
  BY DEF Rank, GenerationInvariant, Given, Accepted, Targeted, Bred, IsPopulation, AtRank, Scored
<1>3. IsRanking(population, r)
  BY <1>2, RankedPopulation
<1> HIDE DEF r
<1>4. Len(population) \in Nat /\ 1 \in 1..Len(population)
  BY <1>2
<1>5. /\ r \in Seq(Individuals) /\ Len(r) = Len(population)
      /\ Fitness(population[1]) <= top /\ top \in Int
  BY <1>3, <1>4 DEF IsRanking
<1>6. r[1] \in Individuals
  BY <1>4, <1>5
<1> HIDE DEF top
<1>7. top = score'
  BY <1>1, <1>2, <1>5
<1> QED BY <1>1, <1>2, <1>4, <1>5, <1>6, <1>7 DEF top, r

\* A ranked generation has the best individual first.
LEMMA RankGenerates ==
  ASSUME GenerationInvariant, Rank
  PROVE  GenerationInvariant'
<1>1. RequestStays
  BY RequestKept DEF Rank
<1>2. \A s : Fitness(s)' = Fitness(s)
  BY FitnessUnchanged DEF Rank
<1> DEFINE r == Ranked(population)
           better == score = Missing \/ Fitness(r[1]) > score
<1>3. /\ population' = r /\ r \in Seq(Individuals) /\ Len(r) = Len(population) /\ Len(r) \in Nat /\ Len(r) >= 1
      /\ r[1] \in Individuals /\ Fitness(r[1]) \in Int /\ Fitness(r[1]) = score'
  BY RankKeepsBest
<1>4. /\ generation' = generation + 1
      /\ best' = IF better THEN r[1] ELSE best
      /\ stale' = IF better THEN 0 ELSE stale + 1
      /\ IF stale' >= Patience /\ generation >= Warmup
         THEN pc' = "finish" /\ children' = <<>>
         ELSE pc' = "breed" /\ children' = Elites(r)
      /\ UNCHANGED <<bank, payload, targets, result>>
      /\ pc = "rank"
  BY DEF Rank
<1> HIDE DEF r, better
<1>5. /\ generation \in 0..Generations /\ generation < Generations
      /\ stale \in 0..Greater(Patience, Warmup) /\ Goes
      /\ IF generation = 0 THEN stale = 0 ELSE stale <= generation - 1
      /\ score \in Int \cup {Missing} /\ (score = Missing <=> generation = 0)
      /\ generation # 0 => best \in Individuals
  BY <1>4 DEF GenerationInvariant, AtRank, Counted, Scored
<1>6. generation = 0 => better
  BY <1>5 DEF better
<1>7. pc' \in {"finish", "breed"}
  BY <1>4
<1>8. Patience \in Nat \ {0} /\ Warmup \in Nat /\ Generations \in Nat
  BY SizeAssumption
<1>9. generation \in Nat /\ stale \in Nat /\ generation' \in Nat /\ generation' # 0 /\ stale' \in Nat
  BY <1>4, <1>5, <1>8 DEF Greater
<1>10. Given' /\ Began'
  BY <1>4, <1>7 DEF GenerationInvariant, Given, Began
<1>11. Accepted'
  BY <1>1, <1>4 DEF GenerationInvariant, RequestStays, Accepted
<1>12. Bred'
  <2>1. Len(population) <= Size
    BY DEF GenerationInvariant, Bred, IsPopulation
  <2>2. Size \in Nat
    BY SizeType DEF GenerationInvariant, Given
  <2>3. r \in Seq(Individuals) /\ Len(r) <= Size
    BY <1>3, <2>1
  <2>4. children' \in Seq(Individuals) /\ Len(children') <= Size
    <3>1. CASE children' = <<>>
      <4>1. <<>> \in Seq(Individuals) /\ Len(<<>>) = 0
        OBVIOUS
      <4> QED BY <2>2, <3>1, <4>1
    <3>2. CASE children' = Elites(r)
      <4>1. Elites(r) \in Seq(Individuals) /\ Len(Elites(r)) <= Len(r) /\ Len(Elites(r)) \in Nat
        BY <1>3, ElitesLead
      <4> QED BY <1>3, <2>2, <2>3, <3>2, <4>1
    <3> QED BY <1>4, <3>1, <3>2
  <2> QED BY <1>1, <1>3, <2>3, <2>4 DEF RequestStays, Bred, IsPopulation
<1>13. Scored'
  <2>1. best' \in Individuals
    BY <1>3, <1>4, <1>5, <1>6
  <2>2. score' \in Int /\ score' # Missing
    BY <1>3, MissingAssumption
  <2> QED BY <1>1, <1>9, <2>1, <2>2 DEF RequestStays, Scored
<1>14. Counted'
  <2>1. generation' \in 0..Generations
    BY <1>4, <1>5, <1>8, <1>9
  <2>2. stale' <= generation' - 1
    BY <1>4, <1>5, <1>6, <1>9
  <2>3. stale' <= Greater(Patience, Warmup)
    BY <1>4, <1>5, <1>6, <1>8, <1>9 DEF Goes, Greater
  <2>4. Greater(Patience, Warmup) \in Int
    BY <1>8 DEF Greater
  <2> DEFINE top == Greater(Patience, Warmup)
  <2> HIDE DEF top
  <2>5. stale' \in 0..top
    BY <1>9, <2>3, <2>4 DEF top
  <2>6. IF generation' = 0 THEN stale' = 0 ELSE stale' <= generation' - 1
    BY <1>9, <2>2
  <2> QED BY <2>1, <2>5, <2>6 DEF Counted, top
<1>15. AtAll' /\ AtSample' /\ AtRank'
  BY <1>7 DEF AtAll, AtSample, AtRank
<1>16. AtBreed'
  <2> SUFFICES ASSUME pc' = "breed"
               PROVE  AtBreed'
    BY DEF AtBreed
  <2>1. children' = Elites(r) /\ ~(stale' >= Patience /\ generation >= Warmup)
    BY <1>4
  <2>2. Goes'
    BY <1>4, <1>8, <1>9, <2>1 DEF Goes
  <2>3. 1 <= Len(Elites(r)) /\ Elites(r)[1] = r[1] /\ Elites(r) \in Seq(Individuals)
    BY <1>3, ElitesLead
  <2>4. Len(Elites(r)) \in Nat
    BY <2>3
  <2>5. Fitness(population[1])' = score'
    BY <1>2, <1>3
  <2> QED BY <1>2, <1>3, <1>9, <2>1, <2>2, <2>3, <2>4, <2>5 DEF AtBreed
<1>17. AtFinish'
  BY <1>9 DEF AtFinish
<1>18. Answers'
  BY <1>4 DEF GenerationInvariant, Answers
<1> QED BY <1>10, <1>11, <1>12, <1>13, <1>14, <1>15, <1>16, <1>17, <1>18 DEF GenerationInvariant

\* Children are individuals, and the first stays the best.
LEMMA BreedGenerates ==
  ASSUME GenerationInvariant, Breed
  PROVE  GenerationInvariant'
<1>1. RequestStays
  BY RequestKept DEF Breed
<1>2. \A s : Fitness(s)' = Fitness(s)
  BY FitnessUnchanged DEF Breed
<1>3. PICK a, b \in Parents : \E child \in Crossed(a, b) \cup {a} : \E m \in Mutated(child) :
         children' = Append(children, m)
  BY DEF Breed
<1>3a. PICK child \in Crossed(a, b) \cup {a} : \E m \in Mutated(child) : children' = Append(children, m)
  BY <1>3
<1>4. PICK m \in Mutated(child) : children' = Append(children, m)
  BY <1>3a
<1>5. /\ bank \in Bank /\ payload \in Payload /\ Candidates # <<>> /\ pc = "breed"
      /\ population \in Seq(Individuals) /\ children \in Seq(Individuals)
      /\ Len(children) < Size /\ Len(children) >= 1
      /\ UNCHANGED <<bank, payload, pc, targets, population, best, score, stale, generation, result>>
  BY DEF Breed, GenerationInvariant, Given, Accepted, Bred, IsPopulation, AtBreed
<1>6. \A x \in Parents : IsIndividual(x)
  <2>1. \A i \in DOMAIN population : population[i] \in Individuals
    BY <1>5
  <2> QED BY <2>1, IndividualsIn DEF Parents
<1>7. IsIndividual(child)
  BY <1>3, <1>5, <1>6, CrossedIndividual
<1>8. m \in Individuals
  BY <1>4, <1>7, MutatedIndividual, IndividualsIn
<1>9. /\ children' \in Seq(Individuals) /\ Len(children') = Len(children) + 1 /\ Len(children) \in Nat
      /\ children'[1] = children[1]
  BY <1>4, <1>5, <1>8
<1>10. Size \in Nat
  BY <1>5, SizeType
<1>11. Given' /\ Began'
  BY <1>5 DEF GenerationInvariant, Given, Began
<1>12. Accepted'
  BY <1>1, <1>5 DEF GenerationInvariant, RequestStays, Accepted
<1>13. Bred'
  <2>1. Len(children') <= Size
    BY <1>5, <1>9, <1>10
  <2> QED BY <1>1, <1>5, <1>9, <2>1 DEF GenerationInvariant, RequestStays, Bred, IsPopulation
<1>14. Scored' /\ Counted'
  BY <1>1, <1>5 DEF GenerationInvariant, RequestStays, Scored, Counted
<1>15. AtAll' /\ AtSample' /\ AtRank' /\ AtFinish'
  BY <1>5 DEF AtAll, AtSample, AtRank, AtFinish
<1>16. AtBreed'
  <2>1. Len(children') >= 1
    BY <1>5, <1>9
  <2>2. Fitness(population[1])' = Fitness(population[1])
    BY <1>2, <1>5
  <2> QED BY <1>5, <1>9, <2>1, <2>2 DEF GenerationInvariant, AtBreed, Goes
<1>17. Answers'
  BY <1>1, <1>5 DEF GenerationInvariant, RequestStays, Answers
<1> QED BY <1>11, <1>12, <1>13, <1>14, <1>15, <1>16, <1>17 DEF GenerationInvariant

\* The children are the next generation, led by the best individual.
LEMMA SucceedGenerates ==
  ASSUME GenerationInvariant, Succeed
  PROVE  GenerationInvariant'
<1>1. RequestStays
  BY RequestKept DEF Succeed
<1>2. \A s : Fitness(s)' = Fitness(s)
  BY FitnessUnchanged DEF Succeed
<1>3. /\ population' = children /\ children' = <<>>
      /\ pc = "breed" /\ pc' = IF generation = Generations THEN "finish" ELSE "rank"
      /\ UNCHANGED <<bank, payload, targets, best, score, stale, generation, result>>
  BY DEF Succeed
<1>4. /\ Len(children) >= 1 /\ generation # 0 /\ Goes
      /\ children[1] = population[1] /\ Fitness(population[1]) = score
  BY <1>3 DEF GenerationInvariant, AtBreed
<1>5. Given' /\ Began'
  BY <1>3 DEF GenerationInvariant, Given, Began
<1>6. Accepted'
  BY <1>1, <1>3 DEF GenerationInvariant, RequestStays, Accepted
<1>7. Bred'
  <2>1. Size \in Nat
    BY SizeType DEF GenerationInvariant, Given
  <2>2. <<>> \in Seq(Individuals) /\ Len(<<>>) = 0
    OBVIOUS
  <2> QED BY <1>1, <1>3, <2>1, <2>2 DEF GenerationInvariant, RequestStays, Bred, IsPopulation
<1>8. Scored' /\ Counted'
  BY <1>1, <1>3 DEF GenerationInvariant, RequestStays, Scored, Counted
<1>9. AtAll' /\ AtSample' /\ AtBreed' /\ AtFinish'
  BY <1>3, <1>4 DEF AtAll, AtSample, AtBreed, AtFinish
<1>10. AtRank'
  <2>1. Fitness(population[1])' = Fitness(children[1])
    BY <1>2, <1>3
  <2>2. generation # Generations => generation < Generations
    BY SizeAssumption DEF GenerationInvariant, Counted
  <2> QED BY <1>3, <1>4, <2>1, <2>2 DEF AtRank, Goes
<1>11. Answers'
  BY <1>1, <1>3 DEF GenerationInvariant, RequestStays, Answers
<1> QED BY <1>5, <1>6, <1>7, <1>8, <1>9, <1>10, <1>11 DEF GenerationInvariant

\* Every step keeps the invariant.
LEMMA StepGenerates ==
  ASSUME GenerationInvariant, [GenerationNext]_generationVars
  PROVE  GenerationInvariant'
<1>1. CASE RefusePayload
  BY <1>1, RefusePayloadGenerates
<1>2. CASE Target
  BY <1>2, TargetGenerates
<1>3. CASE TakeAll
  BY <1>3, TakeAllGenerates
<1>4. CASE Sample
  BY <1>4, SampleGenerates
<1>5. CASE Rank
  BY <1>5, RankGenerates
<1>6. CASE Breed
  BY <1>6, BreedGenerates
<1>7. CASE Succeed
  BY <1>7, SucceedGenerates
<1>8. CASE TakeBest
  BY <1>8, TakeBestGenerates
<1>9. CASE Answered
  BY <1>9, StutterGenerates DEF Answered
<1>10. CASE UNCHANGED generationVars
  BY <1>10, StutterGenerates
<1> QED BY <1>1, <1>2, <1>3, <1>4, <1>5, <1>6, <1>7, <1>8, <1>9, <1>10 DEF GenerationNext

\* The invariant holds the properties of the search.
LEMMA InvariantConsistent == GenerationInvariant => GenerationConsistent
<1> SUFFICES ASSUME GenerationInvariant
             PROVE  GenerationConsistent
  OBVIOUS
<1>1. /\ bank \in Bank /\ payload \in Payload
      /\ population \in Seq(Individuals) /\ Len(population) <= Size
      /\ children \in Seq(Individuals) /\ Len(children) <= Size
  BY DEF GenerationInvariant, Given, Bred, IsPopulation
<1>2. Size \in Nat \ {0} /\ Count \in Nat
  BY <1>1, SizeType, CountBounds
<1>3. ASSUME NEW s \in Individuals
      PROVE  Exact(s) /\ Len(s) = Count /\ DOMAIN s = 1..Count
  <2>1. IsIndividual(s)
    BY IndividualsIn
  <2>2. DOMAIN s = 1..Len(s)
    BY <2>1, DistinctCounted DEF IsIndividual
  <2> QED BY <2>1, <2>2, IndividualsAreExact DEF IsIndividual
<1>4. ASSUME result # Missing
      PROVE  /\ result.questions \in Individuals
             /\ pc \notin {"candidates", "refused"}
             /\ SharedOut(Count, [i \in DOMAIN result.questions |-> result.questions[i].weight],
                       payload.total, result.marks)
  BY <1>4 DEF GenerationInvariant, Answers
<1>5. GenerationTypeOK
  <2>1. targets \in [DOMAIN Anchor -> Nat]
    <3>1. CASE pc \in {"candidates", "refused"}
      <4>1. targets = <<0, 0, 0>>
        BY <3>1 DEF GenerationInvariant, Began, Untargeted
      <4> QED BY <4>1 DEF Anchor
    <3>2. CASE pc \notin {"candidates", "refused"}
      BY <3>2, AnchorDomain DEF GenerationInvariant, Accepted, Targeted
    <3> QED BY <3>1, <3>2
  <2>2. Len(children) <= Greater(Size, Elitism)
    <3>1. Elitism \in Nat /\ Len(children) \in Nat
      BY <1>1, SizeAssumption
    <3> QED BY <1>1, <1>2, <3>1 DEF Greater
  <2>3. ASSUME result # Missing
        PROVE  Len(result.questions) = Count /\ Len(result.marks) = Count
    <3>1. result.marks \in [1..Count -> Nat \ {0}]
      BY <1>4, <2>3 DEF SharedOut
    <3>2. Len(result.marks) = Count
      BY <1>2, <3>1
    <3> QED BY <1>3, <1>4, <2>3, <3>2
  <2>4. /\ pc \in {"candidates", "all", "sample", "rank", "breed", "finish", "done", "refused"}
        /\ score \in Int \cup {Missing}
        /\ generation \in 0..Generations /\ stale \in 0..Greater(Patience, Warmup)
    BY DEF GenerationInvariant, Given, Scored, Counted
  <2> QED BY <1>1, <2>1, <2>2, <2>3, <2>4 DEF GenerationTypeOK
<1>6. IndividualsExact
  <2>1. \A s \in ToSet(population) \cup ToSet(children) : s \in Individuals
    <3>1. (\A i \in DOMAIN population : population[i] \in Individuals)
          /\ \A i \in DOMAIN children : children[i] \in Individuals
      BY <1>1
    <3> QED BY <3>1 DEF ToSet
  <2>2. best # <<>> => best \in Individuals
    BY DEF GenerationInvariant, Scored
  <2> QED BY <1>3, <1>4, <2>1, <2>2 DEF IndividualsExact
<1>7. TargetsExact
  <2>1. pc \notin {"candidates", "refused"} => Targeted(payload.coefficient, Count, targets)
    BY DEF GenerationInvariant, Accepted
  <2>2. targets \in [1..3 -> Nat] => DOMAIN targets = 1..3
    OBVIOUS
  <2> QED BY <2>1, <2>2 DEF TargetsExact, Targeted
<1>8. MarksShared
  <2> SUFFICES ASSUME result # Missing
               PROVE  MarksShared
    BY DEF MarksShared
  <2> DEFINE q == result.questions
             m == result.marks
             w == [i \in DOMAIN q |-> q[i].weight]
  <2>1. DOMAIN q = 1..Count /\ SharedOut(Count, w, payload.total, m)
    BY <1>3, <1>4
  <2>2. /\ m \in [1..Count -> Nat \ {0}] /\ SumFunction(m) = payload.total
        /\ \A i, j \in 1..Count : w[i] > w[j] => m[i] >= m[j]
    BY <2>1 DEF SharedOut
  <2>3. \A i \in 1..Count : w[i] = q[i].weight
    BY <2>1
  <2> HIDE DEF w, m, q
  <2>4. DOMAIN m = 1..Count /\ \A i \in 1..Count : m[i] >= 1
    BY <2>2
  <2>5. \A i, j \in 1..Count : q[i].weight > q[j].weight => m[i] >= m[j]
    BY <2>2, <2>3
  <2> QED BY <2>2, <2>4, <2>5 DEF MarksShared, m, q
<1> QED BY <1>5, <1>6, <1>7, <1>8 DEF GenerationConsistent

\* The inductive invariant of the search holds in every state.
THEOREM GenerationInvariance == GenerationSpec => []GenerationInvariant
<1>1. GenerationInit => GenerationInvariant
  BY InitGenerates
<1>2. GenerationInvariant /\ [GenerationNext]_generationVars => GenerationInvariant'
  BY StepGenerates
<1> QED BY <1>1, <1>2, PTL DEF GenerationSpec

\* For any bank and request, any sizes of population, elite and tournament and any
\* bounds of the search, whatever the random generator draws: individuals select as
\* many different candidates as are asked for, the difficulty targets add up to that
\* number, and the marks answered add up to the total, each at least one and none
\* less than that of a question of less weight.
THEOREM GenerationConsistentAlways == GenerationSpec => []GenerationConsistent
<1>1. GenerationInvariant => GenerationConsistent
  BY InvariantConsistent
<1> QED BY <1>1, GenerationInvariance, PTL

\* No generation, once ranked, is worse than the best that any before it held: what
\* selection, crossover and mutation do, the elite carries the best through.
THEOREM BestKeptAlways == GenerationSpec => BestKept
<1>1. ASSUME GenerationInvariant, [GenerationNext]_generationVars
      PROVE  [generation' # generation => Fitness(population'[1]) = score']_generationVars
  <2>1. CASE Rank
    BY <1>1, <2>1, RankKeepsBest
  <2>2. CASE ~Rank
    <3>1. UNCHANGED generation
      BY <1>1, <2>2 DEF GenerationNext, RefusePayload, Target, TakeAll, Sample, Breed, Succeed,
                        TakeBest, Answered, generationVars
    <3> QED BY <3>1
  <2> QED BY <2>1, <2>2
<1> QED BY <1>1, GenerationInvariance, PTL DEF GenerationSpec, BestKept

=============================================================================
