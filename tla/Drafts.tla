------------------------------- MODULE Drafts -------------------------------
(***************************************************************************)
(* Shared paper drafts: optimistic updates under a revision, collaborators *)
(* and their roles, review comments, approval, and the events the routes   *)
(* broadcast (services/drafts.py, api/routes/drafts.py).                   *)
(*                                                                         *)
(* A request reads the draft row, its collaborators and its comments with  *)
(* three statements and no lock, decides on what it read, and flushes and  *)
(* commits at the end; the other requests commit in between.  The commit   *)
(* writes the columns that differ from what was read, and nothing else.    *)
(* The flush takes the row lock of the draft first and the commit follows  *)
(* it, so the two are one step.  One draft; its state is the set of edits  *)
(* it contains; names, messages, timestamps and updated_by are left out.   *)
(***************************************************************************)
EXTENDS Naturals, FiniteSets

CONSTANTS
    User, Owner,  \* users; the one who creates the draft
    Admin,        \* users with the permission users:manage
    Worker,       \* threads that serve requests
    Review,       \* the review statuses that requests ask for
    MaxEdit,      \* bound on the edits clients make
    MaxComment,   \* bound on the comments
    MaxRevision,  \* bound on the revisions
    MaxRequest,   \* bound on the requests
    None

Status == {"draft", "in_review", "changes_requested", "approved"}

ASSUME UserAssumption == Owner \in User /\ Admin \subseteq User \ {Owner} /\ None \notin User
ASSUME ReviewAssumption == Review \subseteq Status
ASSUME BoundAssumption == {MaxEdit, MaxComment, MaxRequest} \subseteq Nat /\ MaxRevision \in Nat \ {0}

Edit == 1..MaxEdit
Comment == 1..MaxComment
Revision == 1..MaxRevision

VARIABLES
    draft,       \* the row of paper_drafts, None before its creation and after its deletion
    collab,      \* paper_draft_collaborators: the role of each user
    comments,    \* paper_draft_comments
    sent,        \* the edits clients have made
    asked,       \* how many requests there were
    served,      \* details of the draft that clients hold
    job,         \* what each worker is doing
    announced    \* the highest revision a broadcast event has told, 0 before the creation

rows == <<draft, collab, comments>>
vars == <<rows, sent, asked, served, job, announced>>

DraftRow == [revision: Revision, edits: SUBSET Edit, review: Status]
Role == {"viewer", "editor"}
Manager == {"owner", "admin"}
CommentRow == [author: User, open: BOOLEAN]
ASSUME CommentAssumption == None \notin CommentRow

\* raced: two updates overlapped since (or while) this detail was served.
Detail == [revision: Revision, edits: SUBSET Edit, raced: BOOLEAN]

\* The values that matter of the requests; None leaves a field of the draft alone.
Update == [kind: {"update"}, user: User, rename: BOOLEAN, state: (SUBSET Edit) \cup {None},
           review: Status \cup {None}]
Request == Update
           \cup [kind: {"delete"}, user: User]
           \cup [kind: {"share"}, user: User, target: User \ {Owner}, role: Role]
           \cup [kind: {"role"}, user: User, target: User, role: Role]
           \cup [kind: {"unshare"}, user: User, target: User]
           \cup [kind: {"comment"}, user: User]
           \cup [kind: {"mark"}, user: User, comment: Comment, open: BOOLEAN]

\* What a request keeps of its reads: the row (an update), the role of its
\* user, the role of the user it is about, and the comments that are open.
Idle == [pc |-> "idle"]
Roles == [User -> Role \cup {None}]
Comments == [Comment -> CommentRow \cup {None}]
Job == {Idle} \cup [pc: {"collaborators", "comments", "commit", "answer"}, req: Request,
                    row: DraftRow \cup {None}, role: Role \cup Manager \cup {None},
                    found: Role \cup {None}, open: SUBSET Comment, raced: BOOLEAN]

(***************************************************************************)
(* The type invariant: every row, detail and job is of its kind.           *)
(***************************************************************************)
TypeOK ==
    /\ draft \in DraftRow \cup {None}
    /\ collab \in Roles
    /\ comments \in Comments
    /\ sent \subseteq Edit
    /\ asked \in 0..MaxRequest
    /\ served \subseteq Detail
    /\ job \in [Worker -> Job]
    /\ announced \in 0..MaxRevision

NoCollaborator == [u \in User |-> None]
NoComment == [c \in Comment |-> None]

Init ==
    /\ draft = None
    /\ collab = NoCollaborator
    /\ comments = NoComment
    /\ sent = {}
    /\ asked = 0
    /\ served = {}
    /\ job = [w \in Worker |-> Idle]
    /\ announced = 0

(***************************************************************************)
(* Roles, and what each request needs.                                     *)
(***************************************************************************)
\* draft_access_role.
AccessRole(u, c) == IF u = Owner THEN "owner" ELSE IF u \in Admin THEN "admin" ELSE c[u]

MayRead(role) == role # None
MayEdit(role) == role \in Manager \cup {"editor"}
MayManage(role) == role \in Manager

MayMark(role, u, c) == MayRead(role) /\ (c.author = u \/ MayEdit(role))

OpenIn(c) == {k \in Comment : c[k] # None /\ c[k].open}

ApprovableByManager(q, role, c) ==  \* mutant: the owner's approval does not look at the comments
    \/ role \in Manager
    \/ role = "editor" /\ q.review = "in_review"

\* The review status an update asks for is one its sender may set now.
Approvable(q, role, c) ==
    /\ q.review = "approved" => OpenIn(c) = {}
    /\ role \in Manager \/ (role = "editor" /\ q.review = "in_review")

BaseLoose(d, row) == d.revision <= row.revision  \* mutant: only a newer base is refused
\* baseRevision is the revision of the row read (409 otherwise).
BaseCurrent(d, row) == d.revision = row.revision

\* The access a request needs: the 403 and 404.
Allowed(q, role) ==
    CASE q.kind = "update" -> MayEdit(role) /\ (q.rename => role \in Manager)
      [] q.kind \in {"delete", "share", "role", "unshare"} -> MayManage(role)
      [] q.kind \in {"comment", "mark"} -> MayRead(role)

\* The checks on the comments: the approval, and the comment to update.
Decided(q, role, c) ==
    CASE q.kind = "update" -> Approvable(q, role, c)
      [] q.kind = "mark" -> c[q.comment] # None /\ MayMark(role, q.user, c[q.comment])

(***************************************************************************)
(* create_shared_draft, with the event of its route.                       *)
(***************************************************************************)
Serve(row, raced) == [revision |-> row.revision, edits |-> row.edits, raced |-> raced]

Create(s) ==
    /\ announced = 0
    /\ draft' = [revision |-> 1, edits |-> {}, review |-> s]
    /\ served' = {Serve(draft', FALSE)}
    /\ announced' = 1
    /\ UNCHANGED <<collab, comments, sent, asked, job>>

(***************************************************************************)
(* The reads of a request.  A refusal changes no row and is answered here  *)
(* as soon as the reads decide it.  A client builds an update on a detail  *)
(* it holds, with at most one new edit.                                    *)
(***************************************************************************)
\* The requests whose outcome depends on the comments.
Judges(q) == q.kind = "mark" \/ (q.kind = "update" /\ q.review # None)
About(q) == q.kind \in {"share", "role", "unshare"}

Begin(w, q, raced) ==
    /\ job[w] = Idle
    /\ draft # None
    /\ asked < MaxRequest
    /\ asked' = asked + 1
    /\ LET update == q.kind = "update" IN
       job' = [job EXCEPT ![w] =
                 [pc |-> "collaborators", req |-> q, row |-> IF update THEN draft ELSE None,
                  role |-> None, found |-> None, open |-> {}, raced |-> raced]]
    /\ UNCHANGED <<rows, served, announced>>

NextEdit == {e \in Edit : \A f \in Edit : f < e <=> f \in sent}

\* An update with a new name, a new state, a review status, or the last two.
UpdateRequest(w) ==
    \E u \in User, d \in served, n \in BOOLEAN, e \in NextEdit \cup {None}, s \in Review \cup {None} :
        /\ n <=> e = None /\ s = None
        /\ draft # None /\ BaseCurrent(d, draft)
        /\ Begin(w, [kind |-> "update", user |-> u, rename |-> n, review |-> s,
                     state |-> IF e = None THEN None ELSE d.edits \cup {e}], d.raced)
        /\ sent' = sent \cup ({e} \ {None})

Plain(w, q) == Begin(w, q, FALSE) /\ UNCHANGED sent
DeleteRequest(w) == \E u \in User : Plain(w, [kind |-> "delete", user |-> u])
ShareRequest(w) ==
    \E u \in User, t \in User \ {Owner}, r \in Role :
        Plain(w, [kind |-> "share", user |-> u, target |-> t, role |-> r])
RoleRequest(w) ==
    \E u, t \in User, r \in Role :
        Plain(w, [kind |-> "role", user |-> u, target |-> t, role |-> r])
UnshareRequest(w) ==
    \E u, t \in User : Plain(w, [kind |-> "unshare", user |-> u, target |-> t])
CommentRequest(w) == \E u \in User : Plain(w, [kind |-> "comment", user |-> u])
MarkRequest(w) ==
    \E u \in User, c \in Comment, o \in BOOLEAN :
        Plain(w, [kind |-> "mark", user |-> u, comment |-> c, open |-> o])

ReadCollaborators(w) ==
    /\ job[w].pc = "collaborators"
    /\ LET q == job[w].req
           role == AccessRole(q.user, collab)
           found == IF About(q) THEN collab[q.target] ELSE None
       IN  job' = IF Allowed(q, role) /\ (q.kind \in {"role", "unshare"} => found # None)
                  THEN [job EXCEPT ![w].pc = IF Judges(q) THEN "comments" ELSE "commit",
                                   ![w].role = role, ![w].found = found]
                  ELSE [job EXCEPT ![w] = Idle]
    /\ UNCHANGED <<rows, sent, asked, served, announced>>

\* The comments are read last: by every request, for these two they matter.
ReadComments(w) ==
    /\ job[w].pc = "comments"
    /\ LET j == job[w] IN
           job' = IF Decided(j.req, j.role, comments)
                  THEN [job EXCEPT ![w].pc = "commit",
                           ![w].open = OpenIn(comments)]
                  ELSE [job EXCEPT ![w] = Idle]
    /\ UNCHANGED <<rows, sent, asked, served, announced>>

(***************************************************************************)
(* The commit.                                                             *)
(***************************************************************************)
WrittenSameRevision(q, row) ==  \* mutant: only a review counts as a revision
    [draft EXCEPT !.revision = IF q.review = None THEN row.revision ELSE row.revision + 1,
                  !.edits = IF q.state = None THEN @ ELSE q.state,
                  !.review = IF q.review \in {None, row.review} THEN @ ELSE q.review]

\* The draft after an update: the revision read plus one, the state sent, and
\* the review status if it differs from the one read.
Written(q, row) ==
    [draft EXCEPT !.revision = row.revision + 1,
                  !.edits = IF q.state = None THEN @ ELSE q.state,
                  !.review = IF q.review \in {None, row.review} THEN @ ELSE q.review]

\* The detail the answer of an update shows: the session keeps the values it
\* read and wrote, also after the commit (expire_on_commit is off).
Kept(q, row) ==
    [row EXCEPT !.revision = @ + 1,
                !.edits = IF q.state = None THEN @ ELSE q.state]

Save(w, j) ==
    /\ j.row.revision < MaxRevision
    /\ draft' = Written(j.req, j.row)
    /\ served' = {[d EXCEPT !.raced = @ \/ j.raced] : d \in served}
                 \cup {Serve(draft', FALSE), Serve(Kept(j.req, j.row), j.raced)}
    /\ job' = [v \in Worker |->
                  IF v = w THEN [j EXCEPT !.pc = "answer"]
                  ELSE IF job[v] = Idle \/ job[v].req.kind # "update" THEN job[v]
                  ELSE [job[v] EXCEPT !.raced = TRUE]]
    /\ UNCHANGED <<collab, comments, sent, asked, announced>>

\* session.delete: the rows that refer to the draft go with it.
Erase(w) ==
    /\ draft' = None
    /\ collab' = NoCollaborator
    /\ comments' = NoComment
    /\ job' = [job EXCEPT ![w] = Idle]
    /\ UNCHANGED <<sent, asked, served, announced>>

\* A row is inserted when none was read, updated otherwise.
Shared(j) ==
    IF j.req.role = j.found THEN collab ELSE [collab EXCEPT ![j.req.target] = j.req.role]

Finish(w) == job' = [job EXCEPT ![w].pc = "answer"]

\* The statement meets another row than the one read: the key of a new
\* collaborator is taken, or the row to update is gone (500, rolled back).
Clash(j) ==
    \/ draft = None
    \/ j.req.kind = "share" /\ (j.found = None) # (collab[j.req.target] = None)
    \/ j.req.kind = "role" /\ collab[j.req.target] = None

Commit(w) ==
    LET j == job[w] IN
    /\ j.pc = "commit"
    /\ ~Clash(j)
    /\ \/ j.req.kind = "update" /\ Save(w, j)
       \/ j.req.kind = "delete" /\ Erase(w)
       \/ /\ j.req.kind \in {"share", "role"}
          /\ collab' = Shared(j)
          /\ Finish(w)
          /\ UNCHANGED <<draft, comments, sent, asked, served, announced>>
       \/ /\ j.req.kind = "unshare"
          /\ collab' = [collab EXCEPT ![j.req.target] = None]
          /\ Finish(w)
          /\ UNCHANGED <<draft, comments, sent, asked, served, announced>>
       \/ /\ j.req.kind = "comment"
          /\ \E c \in Comment :
                /\ comments[c] = None
                /\ \A k \in 1..(c - 1) : comments[k] # None
                /\ comments' = [comments EXCEPT ![c] = [author |-> j.req.user, open |-> TRUE]]
          /\ Finish(w)
          /\ UNCHANGED <<draft, collab, sent, asked, served, announced>>
       \/ /\ j.req.kind = "mark"
          /\ comments' = [comments EXCEPT ![j.req.comment].open =
                              IF j.req.open = (j.req.comment \in j.open) THEN @ ELSE j.req.open]
          /\ Finish(w)
          /\ UNCHANGED <<draft, collab, sent, asked, served, announced>>

\* StaleDataError or IntegrityError, or a deletion of what is gone already.
Fail(w) ==
    /\ job[w].pc = "commit"
    /\ Clash(job[w])
    /\ job' = [job EXCEPT ![w] = Idle]
    /\ UNCHANGED <<rows, sent, asked, served, announced>>

(***************************************************************************)
(* The answer: the draft is read again, and the route broadcasts the       *)
(* revision of the detail.  Nothing is broadcast when the draft, or the    *)
(* role of the sender, is gone.  An update finds its own copy of the row.  *)
(***************************************************************************)
ToldBefore(j) ==  \* mutant: the event is built from the row the request read
    IF j.req.kind = "update" THEN j.row.revision ELSE draft.revision
Told(j) == IF j.req.kind = "update" THEN j.row.revision + 1 ELSE draft.revision

Shows(j) == draft # None /\ (j.req.kind = "update" \/ MayRead(AccessRole(j.req.user, collab)))

Answer(w) ==
    LET j == job[w] IN
    /\ j.pc = "answer"
    /\ announced' = IF Shows(j) /\ Told(j) > announced THEN Told(j) ELSE announced
    /\ job' = [job EXCEPT ![w] = Idle]
    /\ UNCHANGED <<rows, sent, asked, served>>

Next ==
    \/ \E s \in Review : Create(s)
    \/ \E w \in Worker :
        \/ UpdateRequest(w) \/ DeleteRequest(w) \/ ShareRequest(w) \/ RoleRequest(w)
        \/ UnshareRequest(w) \/ CommentRequest(w) \/ MarkRequest(w)
        \/ ReadCollaborators(w) \/ ReadComments(w) \/ Commit(w) \/ Fail(w) \/ Answer(w)

Spec == Init /\ [][Next]_vars

-----------------------------------------------------------------------------
Committing(w) == job[w].pc = "commit" /\ job'[w].pc \in {"answer", "idle"}

(***************************************************************************)
(* A revision names a content: a client whose detail carries the revision  *)
(* of the draft holds the state of the draft, unless two updates           *)
(* overlapped since it loaded the detail.                                  *)
(***************************************************************************)
RevisionNamesContent ==
    draft # None => \A d \in served :
        d.revision = draft.revision /\ ~d.raced => d.edits = draft.edits

(***************************************************************************)
(* The draft and what its clients hold are consistent at every step: every *)
(* variable has its type, and revisions name contents.                     *)
(***************************************************************************)
Consistent == TypeOK /\ RevisionNamesContent

(***************************************************************************)
(* No accepted edit is overwritten unseen: an update drops an edit of the  *)
(* draft only when it overlapped with another update, or was built on a    *)
(* detail older than such an overlap.                                      *)
(***************************************************************************)
DropsRacedOnly ==
    draft # None /\ draft' # None /\ ~(draft.edits \subseteq draft'.edits)
        => \E w \in Worker : Committing(w) /\ job[w].raced
KeepsEdits == [][DropsRacedOnly]_vars

(***************************************************************************)
(* A draft becomes approved over an open comment only when the comment was *)
(* written or opened again after the approval had read the comments.       *)
(***************************************************************************)
ApprovesWhatItRead ==
    draft # None /\ draft' # None /\ draft.review # "approved" /\ draft'.review = "approved"
        => \E w \in Worker : Committing(w) /\ job[w].open = {}
ApprovedOverLateCommentsOnly == [][ApprovesWhatItRead]_vars

(***************************************************************************)
(* Subscribers learn of every revision: when no request is in flight, the  *)
(* revision of the draft, or a later one it was rolled back from, has been *)
(* broadcast.                                                              *)
(***************************************************************************)
RevisionAnnounced ==
    (\A w \in Worker : job[w] = Idle) /\ draft # None => draft.revision <= announced
=============================================================================
