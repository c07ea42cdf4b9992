----------------------------- MODULE AuthTokens -----------------------------
(***************************************************************************)
(* The tokens of one account: browser sessions, and the families of access *)
(* and refresh tokens of native devices (services/auth_sessions.py,        *)
(* security.py, users.py, profiles.py, the table auth_tokens).             *)
(*                                                                         *)
(* Transactions are READ COMMITTED.  A statement that changes rows picks   *)
(* them as they are committed when it starts, then waits for those another *)
(* transaction has changed; rows committed meanwhile are not among them.   *)
(* Steps of a transaction between which nothing is locked or read are one  *)
(* action, with the commit.                                                *)
(***************************************************************************)
EXTENDS Naturals, Sequences, FiniteSets

CONSTANTS
    Worker,     \* threads that serve requests
    Device,     \* native devices
    MaxLogin,   \* bound on logins
    MaxToken,   \* bound on tokens
    MaxOverdue, \* bound on the expired rows at one time
    MaxGone,    \* bound on the rows that are gone when a revoked one is logged out
    None        \* no row

ASSUME BoundAssumption == MaxLogin \in Nat \ {0} /\ {MaxToken, MaxOverdue, MaxGone} \subseteq Nat

VARIABLES
    account,   \* the users row: not yet there, active, inactive, or deleted
    login,     \* the logins so far: the device each was made from, None for a browser
    row,       \* token -> its row in auth_tokens
    issued,    \* tokens issued so far; they are random, so never issued twice
    tx,        \* what each worker is doing
    ended      \* for the properties: logins some revocation has ended

vars == <<account, login, row, issued, tx, ended>>

Login == 1..MaxLogin
Token == 1..MaxToken
Kind == {"session", "access", "refresh"}
TokenRow == [kind : Kind, login : Login, revoked : BOOLEAN, expired : BOOLEAN]

ASSUME NoneAssumption == None \notin Device \cup TokenRow

Idle == [pc |-> "idle"]
Reason == [why : {"device"}, of : Device]
          \cup [why : {"password", "reset", "deactivate", "delete"}, of : {None}]
          \cup [why : {"reuse"}, of : Login]
Transaction ==
    {Idle}
    \cup [pc : {"registering"}]
    \cup [pc : {"verified"}, device : Device \cup {None}]
    \cup [pc : {"consumed", "refreshing"}, token : Token, login : Login]
    \cup [pc : {"revoking"}, reason : Reason, seen : SUBSET Token, clean : SUBSET Login]

(***************************************************************************)
(* The type invariant: every row and transaction is of its kind.           *)
(***************************************************************************)
TypeOK ==
    /\ account \in {"none", "active", "inactive", "gone"}
    /\ \E n \in 0..MaxLogin : login \in [1..n -> Device \cup {None}]
    /\ row \in [Token -> TokenRow \cup {None}]
    /\ issued \in 0..MaxToken
    /\ \A t \in Token : row[t] # None => t <= issued /\ row[t].login \in DOMAIN login
    /\ tx \in [Worker -> Transaction]
    /\ ended \subseteq DOMAIN login

Init ==
    /\ account \in {"none", "active"}  \* an administrator made it, or its user will
    /\ login = <<>>
    /\ row = [t \in Token |-> None]
    /\ issued = 0
    /\ tx = [w \in Worker |-> Idle]
    /\ ended = {}

Rows == {t \in Token : row[t] # None}
Unrevoked == {t \in Rows : ~row[t].revoked}
Of(l) == {t \in Rows : row[t].login = l}

\* The row a transaction has consumed is locked until it ends.
Free(w, t) == \A v \in Worker \ {w} : ~(tx[v].pc = "consumed" /\ tx[v].token = t)

\* A request on login l begins: a revocation that is under way cannot be sure of l any more.
Begin(w, j, l) ==
    tx' = [v \in Worker |-> IF v = w THEN j
                            ELSE IF tx[v].pc = "revoking" THEN [tx[v] EXCEPT !.clean = @ \ {l}]
                            ELSE tx[v]]
Goto(w, j) == tx' = [tx EXCEPT ![w] = j]
End(w) == Goto(w, Idle)

\* _create_token_row.  A native login issues a pair, the refresh token first.
New(kind, l) == [kind |-> kind, login |-> l, revoked |-> FALSE, expired |-> FALSE]
Pair(l) == <<New("refresh", l), New("access", l)>>
Session(l) == <<New("session", l)>>

\* The rows left by the other statements of a transaction, with new tokens.
Issue(rows, new) ==
    /\ issued + Len(new) <= MaxToken
    /\ row' = [t \in Token |-> IF t \in issued + 1 .. issued + Len(new) THEN new[t - issued] ELSE rows[t]]
    /\ issued' = issued + Len(new)
Without(gone) == [t \in Token |-> IF t \in gone THEN None ELSE row[t]]
Revoked(old) == [t \in Token |-> IF t \in old /\ row[t] # None THEN [row[t] EXCEPT !.revoked = TRUE] ELSE row[t]]

\* create_auth_session deletes what has expired, so it waits for those rows too.
Overdue == {t \in Rows : row[t].expired}
CanPurge(w) == \A t \in Overdue : Free(w, t)

(***************************************************************************)
(* register_user: the name is looked up; the row is inserted under its     *)
(* unique key and opens a browser session in the same transaction.  Of two *)
(* requests the second is refused.                                         *)
(***************************************************************************)
Register(w) ==
    /\ tx[w] = Idle
    /\ account = "none"
    /\ Goto(w, [pc |-> "registering"])
    /\ UNCHANGED <<account, login, row, issued, ended>>

Registered(w) ==
    /\ tx[w].pc = "registering"
    /\ IF account = "none"
       THEN /\ account' = "active"
            /\ Issue(row, Session(1))
            /\ login' = <<None>>
       ELSE UNCHANGED <<account, row, issued, login>>
    /\ End(w)
    /\ UNCHANGED ended

(***************************************************************************)
(* Logins.  The account is looked at when the password is verified; later  *)
(* only the foreign key of the tokens asks for it.                         *)
(***************************************************************************)
VerifyCredentials(w, d) ==
    /\ tx[w] = Idle
    /\ account = "active"
    /\ Len(login) < MaxLogin
    /\ Goto(w, [pc |-> "verified", device |-> d])
    /\ UNCHANGED <<account, login, row, issued, ended>>

\* authenticate_native and authenticate_user after the verification.
OpenLogin(w) ==
    /\ tx[w].pc = "verified"
    /\ account # "gone" /\ Len(login) < MaxLogin
    /\ LET l == Len(login) + 1 IN
        IF tx[w].device = None
        THEN CanPurge(w) /\ Issue(Without(Overdue), Session(l))
        ELSE Issue(row, Pair(l))
    /\ login' = Append(login, tx[w].device)
    /\ End(w)
    /\ UNCHANGED <<account, ended>>

(***************************************************************************)
(* Browser sessions: refresh_auth_session reads the row, and deletes it    *)
(* when it inserts the next.  Two requests can read the same row; deleting *)
(* a row that has gone is no error.                                        *)
(***************************************************************************)
RefreshSession(w, t) ==
    /\ tx[w] = Idle
    /\ t \in Unrevoked /\ row[t].kind = "session"
    /\ IF row[t].expired \/ account # "active"
       THEN row' = Without({t}) /\ UNCHANGED tx
       ELSE Begin(w, [pc |-> "refreshing", token |-> t, login |-> row[t].login], row[t].login) /\ UNCHANGED row
    /\ UNCHANGED <<account, login, issued, ended>>

ReplaceSession(w) ==
    /\ tx[w].pc = "refreshing"
    /\ account # "gone"
    /\ CanPurge(w)
    /\ Issue(Without(Overdue \cup {tx[w].token}), Session(tx[w].login))
    /\ End(w)
    /\ UNCHANGED <<account, login, ended>>

\* revoke_auth_session deletes the row of the token it is given, of whatever kind;
\* it waits for a row that a transaction has consumed.
Logout(t) ==
    /\ t \in Rows
    /\ row[t].revoked => Cardinality({u \in 1..issued : row[u] = None}) < MaxGone
    /\ \A v \in Worker : ~(tx[v].pc = "consumed" /\ tx[v].token = t)
    /\ row' = Without({t})
    /\ UNCHANGED <<account, login, issued, tx, ended>>

ConsumeAgain(w, t) ==  \* mutant: without revoked_at IS NULL
    /\ tx[w] = Idle
    /\ t \in Rows /\ row[t].kind = "refresh"
    /\ Free(w, t)
    /\ Begin(w, [pc |-> "consumed", token |-> t, login |-> row[t].login], row[t].login)
    /\ UNCHANGED <<account, login, row, issued, ended>>

ConsumeUnlocked(w, t) ==  \* mutant: looked up, and updated by its key later
    /\ tx[w] = Idle
    /\ t \in Unrevoked /\ row[t].kind = "refresh"
    /\ Begin(w, [pc |-> "consumed", token |-> t, login |-> row[t].login], row[t].login)
    /\ UNCHANGED <<account, login, row, issued, ended>>

(***************************************************************************)
(* refresh_token_pair.  UPDATE ... RETURNING consumes the token under its  *)
(* row lock: of two requests the second finds it revoked.                  *)
(***************************************************************************)
ConsumeRefresh(w, t) ==
    /\ tx[w] = Idle
    /\ t \in Unrevoked /\ row[t].kind = "refresh"
    /\ Free(w, t)
    /\ Begin(w, [pc |-> "consumed", token |-> t, login |-> row[t].login], row[t].login)
    /\ UNCHANGED <<account, login, row, issued, ended>>

LiveAccess(l) == {t \in Unrevoked \cap Of(l) : row[t].kind = "access"}

Rotate(w) ==
    /\ tx[w].pc = "consumed"
    /\ LET t == tx[w].token
           l == tx[w].login
       IN  IF row[t].expired THEN row' = Revoked({t}) /\ UNCHANGED issued
           ELSE IF account # "active" THEN row' = Revoked(Of(l)) /\ UNCHANGED issued
           ELSE Issue(Revoked({t} \cup LiveAccess(l)), Pair(l))
    /\ End(w)
    /\ UNCHANGED <<account, login, ended>>

(***************************************************************************)
(* Revocations.  The statement sees rows and takes them at once when no    *)
(* other transaction holds one; otherwise it waits with what it saw.  The  *)
(* foreign key of the tokens deletes those a deletion has not seen.        *)
(***************************************************************************)
InProgress(w) == {tx[v].login : v \in {u \in Worker \ {w} : tx[u].pc \in {"consumed", "refreshing"}}}
TakenAccess(reason, seen) == {t \in seen : row[t].kind # "refresh"}  \* mutant: refresh tokens forgotten
Taken(reason, seen) == IF reason.why = "delete" THEN Rows ELSE seen

Take(w, reason, seen, clean) ==
    /\ \A t \in Taken(reason, seen) : Free(w, t)
    /\ row' = IF reason.why = "reuse" THEN Revoked(seen) ELSE Without(Taken(reason, seen))
    /\ account' = CASE account = "gone" -> account
                    [] reason.why = "deactivate" -> "inactive"
                    [] reason.why = "delete" -> "gone"
                    [] OTHER -> account
    /\ ended' = ended \cup clean

\* A revocation that leaves the login of the tokens in c alone.
Select(w, reason, seen, c) ==
    /\ tx[w] = Idle
    /\ LET clean == {row[t].login : t \in seen} \ (InProgress(w) \cup {row[t].login : t \in c}) IN
        \/ Take(w, reason, seen, clean) /\ UNCHANGED tx
        \/ /\ \E t \in seen : ~Free(w, t)
           /\ Goto(w, [pc |-> "revoking", reason |-> reason, seen |-> seen, clean |-> clean])
           /\ UNCHANGED <<account, row, ended>>
    /\ UNCHANGED <<login, issued>>

Revoke(w) ==
    /\ tx[w].pc = "revoking"
    /\ Take(w, tx[w].reason, tx[w].seen, tx[w].clean)
    /\ End(w)
    /\ UNCHANGED <<login, issued>>

\* get_user_from_token: what a request has to show.
Authenticates(t) ==
    /\ t \in Unrevoked /\ row[t].kind # "refresh"
    /\ ~row[t].expired
    /\ account = "active"

\* A refresh token that comes again condemns its family.
Reuse(w, t) ==
    /\ t \in Rows /\ row[t].kind = "refresh" /\ row[t].revoked
    /\ Free(w, t)
    /\ Select(w, [why |-> "reuse", of |-> row[t].login], Unrevoked \cap Of(row[t].login), {})

\* revoke_device: not the device that asks.
RevokeDevice(w, d) ==
    /\ \E c \in Rows : Authenticates(c) /\ login[row[c].login] # d
    /\ Select(w, [why |-> "device", of |-> d], {t \in Rows : login[row[t].login] = d}, {})

\* change_user_password keeps the token that asks.
ChangePassword(w, c) ==
    /\ Authenticates(c)
    /\ Select(w, [why |-> "password", of |-> None], Rows \ {c}, {c})

\* deactivate_user_account
Deactivate(w) ==
    /\ \E c \in Rows : Authenticates(c)
    /\ Select(w, [why |-> "deactivate", of |-> None], Rows, {})

\* update_managed_user with a password; delete_managed_user.
Manage(w, why) ==
    /\ why \in {"reset", "delete"}
    /\ account \notin {"none", "gone"}
    /\ Select(w, [why |-> why, of |-> None], Rows, {})

\* update_managed_user with isActive alone: no token is touched.
SetActive(a) ==
    /\ account \notin {"none", "gone", a}
    /\ account' = a
    /\ UNCHANGED <<login, row, issued, tx, ended>>

\* A request that fails, a lost connection, a deadlock.
Abort(w) ==
    /\ tx[w] # Idle
    /\ End(w)
    /\ UNCHANGED <<account, login, row, issued, ended>>

\* The time of a token is up.  Expiry of a row that is revoked is left out: it
\* changes nothing but that the row is cleaned up.
Expire(t) ==
    /\ t \in Unrevoked \ Overdue
    /\ Cardinality(Overdue) < MaxOverdue
    /\ row' = [row EXCEPT ![t].expired = TRUE]
    /\ UNCHANGED <<account, login, issued, tx, ended>>

\* get_user_from_token deletes an expired token it is shown, the task
\* cleanup_expired_sessions all of them.
Cleanup ==
    /\ \/ /\ Overdue # {}
          /\ ~ \E w \in Worker : tx[w].pc = "consumed" /\ tx[w].token \in Overdue
          /\ row' = Without(Overdue)
       \/ \E t \in Overdue : row[t].kind # "refresh" /\ row' = Without({t})
    /\ UNCHANGED <<account, login, issued, tx, ended>>

Request(w) ==
    \/ Register(w) \/ Registered(w)
    \/ \E d \in Device \cup {None} : VerifyCredentials(w, d)
    \/ OpenLogin(w)
    \/ \E t \in Rows : RefreshSession(w, t)
    \/ ReplaceSession(w)
    \/ \E t \in Rows : ConsumeRefresh(w, t)
    \/ Rotate(w)
    \/ \E t \in Rows : Reuse(w, t)
    \/ \E d \in Device : RevokeDevice(w, d)
    \/ \E c \in Rows : ChangePassword(w, c)
    \/ Deactivate(w)
    \/ \E why \in {"reset", "delete"} : Manage(w, why)
    \/ Revoke(w)
    \/ Abort(w)

Next ==
    \/ \E w \in Worker : Request(w)
    \/ \E a \in {"active", "inactive"} : SetActive(a)
    \/ \E t \in Rows : Logout(t) \/ Expire(t)
    \/ Cleanup

Spec == Init /\ [][Next]_vars

(***************************************************************************)
(* Properties.                                                             *)
(***************************************************************************)

\* However rotations, replays and revocations interleave, the tokens of a
\* native login that are not revoked are of one pair: one refresh token, and
\* the access token issued with it (auth_sessions.py:263-333).
OnePair ==
    \A t, u \in Unrevoked :
        row[t].login = row[u].login /\ row[t].kind # "session" /\ t < u
            => u = t + 1 /\ row[t].kind = "refresh" /\ row[u].kind = "access"

\* The rows of the tokens are consistent at every step: every variable has its
\* type, and no login has two pairs of tokens that count.
Consistent == TypeOK /\ OnePair

\* A login that a revocation found at rest is over: no token of it counts
\* again.  A request on the login that overlaps the revocation may escape it
\* (auth_sessions.py:188, 283, 345; profiles.py:77).
EndedForGood == \A t \in Unrevoked : row[t].login \notin ended

\* A login without a token that counts, and without a request in progress, is
\* dead, whatever killed it, and stays so: a consumed, revoked, expired or
\* deleted token brings nothing back (auth_sessions.py:166-190, 259-333).
Busy(l) == \E w \in Worker : tx[w].pc \in {"consumed", "refreshing"} /\ tx[w].login = l
Dead(l) == ~Busy(l) /\ \A t \in Unrevoked : row[t].login # l
RevivesNothing == \A l \in DOMAIN login : Dead(l) => Dead(l)'
DeadStaysDead == [][RevivesNothing]_vars
=============================================================================
