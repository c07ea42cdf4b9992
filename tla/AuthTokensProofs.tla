-------------------------- MODULE AuthTokensProofs --------------------------
(***************************************************************************)
(* For any threads, devices and bounds: the tokens of a login that count   *)
(* are one pair, what a revocation ended stays ended, and no token that    *)
(* does not count brings another one back.                                 *)
(***************************************************************************)
EXTENDS AuthTokens, TLAPS

-----------------------------------------------------------------------------
(* The inductive invariant.                                                *)

Counting(r) == {t \in Token : r[t] # None /\ ~r[t].revoked}

\* The rows r of n tokens for the logins made from the devices in made: each is of
\* a login, a session exactly for a browser, and a native login has one pair.
RowsFit(r, n, made) ==
    /\ r \in [Token -> TokenRow \cup {None}]
    /\ \A t \in Token : r[t] # None =>
        /\ t <= n
        /\ r[t].login \in DOMAIN made
        /\ r[t].kind = "session" <=> made[r[t].login] = None
    /\ \A t, u \in Counting(r) :
        r[t].login = r[u].login /\ r[t].kind # "session" /\ t < u
            => u = t + 1 /\ r[t].kind = "refresh" /\ r[u].kind = "access"

OnLogin == {"consumed", "refreshing"}

\* A consumed token counts until its transaction ends; a session that is being
\* replaced has a browser login; neither works on a login that is over.  The
\* tokens of the logins a revocation is sure of are all among those it saw.
TxFits(j) ==
    /\ j.pc = "consumed" =>
        /\ j.token \in Counting(row)
        /\ row[j.token].kind = "refresh"
        /\ row[j.token].login = j.login
    /\ j.pc = "refreshing" =>
        /\ j.token <= issued
        /\ row[j.token] # None => row[j.token].kind = "session"
        /\ j.login \in DOMAIN login
        /\ login[j.login] = None
    /\ j.pc \in OnLogin => j.login \notin ended
    /\ j.pc = "revoking" =>
        /\ j.clean \subseteq DOMAIN login
        /\ \A t \in Counting(row) : row[t].login \in j.clean => t \in j.seen

\* No two transactions consume one token, and none works on a login that a
\* revocation is sure of.
TxsApart ==
    \A v \in Worker : \A w \in Worker \ {v} :
        /\ tx[v].pc = "consumed" /\ tx[w].pc = "consumed" => tx[v].token # tx[w].token
        /\ tx[v].pc = "revoking" /\ tx[w].pc \in OnLogin => tx[w].login \notin tx[v].clean

\* Before the account is there nobody has logged in.
Unregistered ==
    account = "none" => login = <<>> /\ \A w \in Worker : tx[w].pc \in {"idle", "registering"}

AInv ==
    /\ TypeOK
    /\ RowsFit(row, issued, login)
    /\ EndedForGood
    /\ \A w \in Worker : TxFits(tx[w])
    /\ TxsApart
    /\ Unregistered

-----------------------------------------------------------------------------
(* Transactions and their fields.                                          *)

LEMMA Transactions ==
  ASSUME NEW j \in Transaction
  PROVE  /\ j.pc \in {"idle", "registering", "verified", "consumed", "refreshing", "revoking"}
         /\ j.pc = "idle" => j = Idle
         /\ j.pc = "verified" => j.device \in Device \cup {None}
         /\ j.pc \in OnLogin => j.token \in Token /\ j.login \in Login
         /\ j.pc = "revoking" =>
              /\ j.reason \in Reason /\ j.seen \in SUBSET Token /\ j.clean \in SUBSET Login
              /\ j = [pc |-> "revoking", reason |-> j.reason, seen |-> j.seen, clean |-> j.clean]
BY DEF Transaction, Idle, OnLogin

LEMMA IdleFits == Idle \in Transaction /\ Idle.pc = "idle" /\ TxFits(Idle)
BY DEF Transaction, Idle, TxFits, OnLogin

\* A revocation that is less sure is still one.
LEMMA LessSure ==
  ASSUME NEW j \in Transaction, j.pc = "revoking", NEW k, NEW i, i = [j EXCEPT !.clean = @ \ {k}]
  PROVE  /\ i \in Transaction /\ i.pc = "revoking"
         /\ i.seen = j.seen /\ i.reason = j.reason /\ i.clean = j.clean \ {k}
<1>1. /\ j.reason \in Reason /\ j.seen \in SUBSET Token /\ j.clean \in SUBSET Login
      /\ j = [pc |-> "revoking", reason |-> j.reason, seen |-> j.seen, clean |-> j.clean]
  BY Transactions
<1>2. i = [pc |-> "revoking", reason |-> j.reason, seen |-> j.seen, clean |-> j.clean \ {k}]
  BY <1>1
<1> QED BY <1>1, <1>2 DEF Transaction

-----------------------------------------------------------------------------
(* Rows.                                                                   *)

\* r has no more than the rows q, each as it was but for being revoked or expired.
Shrinks(q, r) ==
    /\ r \in [Token -> TokenRow \cup {None}]
    /\ \A t \in Token : r[t] # None =>
        /\ q[t] # None
        /\ r[t].kind = q[t].kind /\ r[t].login = q[t].login
        /\ q[t].revoked => r[t].revoked

LEMMA ShrinkFits ==
  ASSUME NEW q, NEW r, NEW n, NEW made, RowsFit(q, n, made), Shrinks(q, r)
  PROVE  /\ RowsFit(r, n, made)
         /\ \A t \in Counting(r) : t \in Counting(q) /\ r[t].kind = q[t].kind /\ r[t].login = q[t].login
<1>1. \A t \in Counting(r) : t \in Counting(q) /\ r[t].kind = q[t].kind /\ r[t].login = q[t].login
  <2> TAKE t \in Counting(r)
  <2>1. t \in Token /\ r[t] # None /\ ~ r[t].revoked
    BY DEF Counting
  <2>2. q[t] # None /\ r[t].kind = q[t].kind /\ r[t].login = q[t].login /\ (q[t].revoked => r[t].revoked)
    BY <2>1 DEF Shrinks
  <2> QED BY <2>1, <2>2 DEF Counting
<1>2. \A t \in Token : r[t] # None =>
        t <= n /\ r[t].login \in DOMAIN made /\ (r[t].kind = "session" <=> made[r[t].login] = None)
  BY DEF Shrinks, RowsFit
<1>3. \A t, u \in Counting(r) :
        r[t].login = r[u].login /\ r[t].kind # "session" /\ t < u
            => u = t + 1 /\ r[t].kind = "refresh" /\ r[u].kind = "access"
  BY <1>1 DEF RowsFit
<1> QED BY <1>1, <1>2, <1>3 DEF RowsFit, Shrinks

\* What the statements of the model do to the rows.
LEMMA WithoutShrinks ==
  ASSUME AInv, NEW gone
  PROVE  /\ Shrinks(row, Without(gone))
         /\ \A t \in Counting(Without(gone)) : t \in Counting(row) \ gone
         /\ \A t \in Counting(row) \ gone : t \in Counting(Without(gone))
         /\ \A t \in Token \ gone : Without(gone)[t] = row[t]
         /\ \A t \in Token \cap gone : Without(gone)[t] = None
<1>1. row \in [Token -> TokenRow \cup {None}]
  BY DEF AInv, RowsFit
<1>2. Without(gone) \in [Token -> TokenRow \cup {None}]
  BY <1>1 DEF Without
<1>3. \A t \in Token : Without(gone)[t] = IF t \in gone THEN None ELSE row[t]
  BY DEF Without
<1> HIDE DEF Without
<1>4. Shrinks(row, Without(gone))
  BY <1>2, <1>3 DEF Shrinks
<1> QED BY <1>3, <1>4 DEF Counting

LEMMA RevokedShrinks ==
  ASSUME AInv, NEW old
  PROVE  /\ Shrinks(row, Revoked(old))
         /\ \A t \in Counting(Revoked(old)) : t \in Counting(row) \ old
         /\ \A t \in Counting(row) \ old : t \in Counting(Revoked(old))
         /\ \A t \in Token \ old : Revoked(old)[t] = row[t]
<1>1. row \in [Token -> TokenRow \cup {None}]
  BY DEF AInv, RowsFit
<1>2. \A t \in Token : row[t] # None =>
        /\ [row[t] EXCEPT !.revoked = TRUE] \in TokenRow
        /\ [row[t] EXCEPT !.revoked = TRUE].kind = row[t].kind
        /\ [row[t] EXCEPT !.revoked = TRUE].login = row[t].login
        /\ [row[t] EXCEPT !.revoked = TRUE].revoked
  BY <1>1 DEF TokenRow
<1>3. \A t \in Token : Revoked(old)[t]
        = IF t \in old /\ row[t] # None THEN [row[t] EXCEPT !.revoked = TRUE] ELSE row[t]
  BY DEF Revoked
<1>4. Revoked(old) \in [Token -> TokenRow \cup {None}]
  BY <1>1, <1>2 DEF Revoked
<1> HIDE DEF Revoked
<1>5. \A t \in Token : Revoked(old)[t] # None =>
        /\ row[t] # None
        /\ Revoked(old)[t].kind = row[t].kind /\ Revoked(old)[t].login = row[t].login
        /\ row[t].revoked => Revoked(old)[t].revoked
        /\ t \in old => Revoked(old)[t].revoked
  BY <1>2, <1>3
<1>6. Shrinks(row, Revoked(old))
  BY <1>4, <1>5 DEF Shrinks
<1> QED BY <1>3, <1>5, <1>6 DEF Counting

\* The time of t is up.
LEMMA ExpiredShrinks ==
  ASSUME AInv, NEW t \in Rows
  PROVE  LET r == [row EXCEPT ![t].expired = TRUE]
         IN  Shrinks(row, r) /\ Counting(r) = Counting(row)
<1> DEFINE r == [row EXCEPT ![t].expired = TRUE]
<1>1. row \in [Token -> TokenRow \cup {None}] /\ t \in Token /\ row[t] \in TokenRow
  BY DEF AInv, RowsFit, Rows
<1>2. /\ [row[t] EXCEPT !.expired = TRUE] \in TokenRow
      /\ [row[t] EXCEPT !.expired = TRUE].kind = row[t].kind
      /\ [row[t] EXCEPT !.expired = TRUE].login = row[t].login
      /\ [row[t] EXCEPT !.expired = TRUE].revoked = row[t].revoked
  BY <1>1 DEF TokenRow
<1>3. r \in [Token -> TokenRow \cup {None}]
      /\ \A u \in Token : r[u] = IF u = t THEN [row[t] EXCEPT !.expired = TRUE] ELSE row[u]
  BY <1>1, <1>2
<1> HIDE DEF r
<1>4. Shrinks(row, r)
  BY <1>1, <1>2, <1>3 DEF Shrinks, Rows
<1>5. \A u \in Token : r[u] # None /\ ~ r[u].revoked <=> row[u] # None /\ ~ row[u].revoked
  BY <1>1, <1>2, <1>3, NoneAssumption DEF Rows
<1>6. Counting(r) = Counting(row)
  BY <1>5 DEF Counting
<1> QED BY <1>4, <1>6 DEF r

-----------------------------------------------------------------------------
(* New tokens.                                                             *)

\* The logins so far stay, each with its device.
Remembers ==
    /\ DOMAIN login \subseteq DOMAIN login'
    /\ \A k \in DOMAIN login : login'[k] = login[k]

\* New tokens are of login l; the others are what they were, or less.
Evolves(l) ==
    /\ issued' \in issued .. MaxToken
    /\ Remembers
    /\ \A t \in Token : row'[t] # None =>
        IF t <= issued
        THEN /\ row[t] # None
             /\ row'[t].kind = row[t].kind /\ row'[t].login = row[t].login
             /\ row[t].revoked => row'[t].revoked
        ELSE row'[t].login = l

\* A pair is for a native login that has no token that counts.
LEMMA IssuePairFits ==
  ASSUME NEW r, Shrinks(row, r), AInv,
         NEW l \in Login, Issue(r, Pair(l)),
         Remembers, l \in DOMAIN login', login'[l] # None,
         \A t \in Counting(r) : r[t].login # l
  PROVE  /\ RowsFit(row', issued', login')
         /\ Evolves(l)
         /\ issued' \in 0 .. MaxToken
         /\ Counting(r) \subseteq Counting(row')
<1>1. /\ issued \in Nat /\ issued + 2 <= MaxToken /\ issued' = issued + 2
      /\ MaxToken \in Nat /\ Token = 1 .. MaxToken
  BY BoundAssumption DEF AInv, TypeOK, Issue, Pair, Token
<1>2. RowsFit(r, issued, login)
  BY ShrinkFits DEF AInv
<1>3. row' = [t \in Token |-> IF t \in issued + 1 .. issued + 2 THEN Pair(l)[t - issued] ELSE r[t]]
  BY DEF Issue, Pair
<1>4. Pair(l)[1] = New("refresh", l) /\ Pair(l)[2] = New("access", l)
  BY DEF Pair
<1>5. \A k \in Kind : New(k, l) \in TokenRow /\ New(k, l).login = l /\ New(k, l).kind = k /\ ~ New(k, l).revoked
  BY DEF New, TokenRow
<1>6. "refresh" \in Kind /\ "access" \in Kind /\ "session" \notin {"refresh", "access"} /\ "access" # "refresh"
  BY DEF Kind
<1>7. \A t \in Token :
        row'[t] = IF t = issued + 1 THEN New("refresh", l)
                  ELSE IF t = issued + 2 THEN New("access", l) ELSE r[t]
  BY <1>1, <1>3, <1>4
<1>8. row' \in [Token -> TokenRow \cup {None}]
  <2>1. \A t \in Token : row'[t] \in TokenRow \cup {None}
    BY <1>5, <1>6, <1>7, <1>2 DEF RowsFit
  <2> QED BY <2>1, <1>3
<1>9. \A t \in Token : r[t] # None => t <= issued
  BY <1>2 DEF RowsFit
<1> HIDE DEF Pair, New
<1>10. \A t \in Token : row'[t] # None =>
        /\ t <= issued'
        /\ row'[t].login \in DOMAIN login'
        /\ row'[t].kind = "session" <=> login'[row'[t].login] = None
  <2> TAKE t \in Token
  <2>1. CASE t \in {issued + 1, issued + 2}
    BY <2>1, <1>1, <1>5, <1>6, <1>7
  <2>2. CASE t \notin {issued + 1, issued + 2}
    <3>1. row'[t] = r[t]
      BY <2>2, <1>7
    <3>2. r[t] # None => t <= issued /\ r[t].login \in DOMAIN login
                         /\ (r[t].kind = "session" <=> login[r[t].login] = None)
      BY <1>2 DEF RowsFit
    <3> QED BY <3>1, <3>2, <1>1 DEF Remembers
  <2> QED BY <2>1, <2>2
<1>11. \A t \in Counting(row') : t \in {issued + 1, issued + 2} \/ (t \in Counting(r) /\ row'[t] = r[t])
  BY <1>7 DEF Counting
<1>12. \A t, u \in Counting(row') :
        row'[t].login = row'[u].login /\ row'[t].kind # "session" /\ t < u
            => u = t + 1 /\ row'[t].kind = "refresh" /\ row'[u].kind = "access"
  <2> TAKE t, u \in Counting(row')
  <2> HAVE row'[t].login = row'[u].login /\ row'[t].kind # "session" /\ t < u
  <2>0. t \in Token /\ u \in Token /\ t \in Nat /\ u \in Nat
    BY <1>1 DEF Counting
  <2>1. CASE t \in {issued + 1, issued + 2} /\ u \in {issued + 1, issued + 2}
    BY <2>0, <2>1, <1>1, <1>5, <1>6, <1>7
  <2>2. CASE t \notin {issued + 1, issued + 2} /\ u \in {issued + 1, issued + 2}
    BY <2>0, <2>2, <1>5, <1>6, <1>7, <1>11
  <2>3. CASE u \notin {issued + 1, issued + 2} /\ t \in {issued + 1, issued + 2}
    BY <2>0, <2>3, <1>5, <1>6, <1>7, <1>11
  <2>4. CASE t \notin {issued + 1, issued + 2} /\ u \notin {issued + 1, issued + 2}
    <3>1. t \in Counting(r) /\ row'[t] = r[t] /\ u \in Counting(r) /\ row'[u] = r[u]
      BY <2>4, <1>11
    <3> QED BY <3>1, <1>2 DEF RowsFit
  <2> QED BY <2>1, <2>2, <2>3, <2>4
<1>13. RowsFit(row', issued', login')
  BY <1>8, <1>10, <1>12 DEF RowsFit
<1>14. \A t \in Token : t <= issued => row'[t] = r[t]
  BY <1>1, <1>7
<1>15. \A t \in Token : row'[t] # None /\ ~ (t <= issued) => row'[t].login = l
  BY <1>1, <1>5, <1>6, <1>7, <1>9
<1>16. Evolves(l)
  BY <1>1, <1>14, <1>15 DEF Evolves, Shrinks
<1>17. Counting(r) \subseteq Counting(row')
  BY <1>9, <1>14 DEF Counting
<1> QED BY <1>1, <1>13, <1>16, <1>17

\* A session is for the login of a browser.
LEMMA IssueSessionFits ==
  ASSUME NEW r, Shrinks(row, r), AInv,
         NEW l \in Login, Issue(r, Session(l)),
         Remembers, l \in DOMAIN login', login'[l] = None
  PROVE  /\ RowsFit(row', issued', login')
         /\ Evolves(l)
         /\ issued' \in 0 .. MaxToken
         /\ Counting(r) \subseteq Counting(row')
<1>1. /\ issued \in Nat /\ issued + 1 <= MaxToken /\ issued' = issued + 1
      /\ MaxToken \in Nat /\ Token = 1 .. MaxToken
  BY BoundAssumption DEF AInv, TypeOK, Issue, Session, Token
<1>2. RowsFit(r, issued, login)
  BY ShrinkFits DEF AInv
<1>3. row' = [t \in Token |-> IF t \in issued + 1 .. issued + 1 THEN Session(l)[t - issued] ELSE r[t]]
  BY DEF Issue, Session
<1>4. Session(l)[1] = New("session", l)
  BY DEF Session
<1>5. New("session", l) \in TokenRow /\ New("session", l).login = l /\ New("session", l).kind = "session"
  BY DEF New, TokenRow, Kind
<1>6. \A t \in Token : row'[t] = IF t = issued + 1 THEN New("session", l) ELSE r[t]
  BY <1>1, <1>3, <1>4
<1>7. row' \in [Token -> TokenRow \cup {None}]
  <2>1. \A t \in Token : row'[t] \in TokenRow \cup {None}
    BY <1>5, <1>6, <1>2 DEF RowsFit
  <2> QED BY <2>1, <1>3
<1>8. \A t \in Token : r[t] # None => t <= issued
  BY <1>2 DEF RowsFit
<1> HIDE DEF Session, New
<1>9. \A t \in Token : row'[t] # None =>
        /\ t <= issued'
        /\ row'[t].login \in DOMAIN login'
        /\ row'[t].kind = "session" <=> login'[row'[t].login] = None
  <2> TAKE t \in Token
  <2>1. CASE t = issued + 1
    BY <2>1, <1>1, <1>5, <1>6
  <2>2. CASE t # issued + 1
    <3>1. row'[t] = r[t]
      BY <2>2, <1>6
    <3>2. r[t] # None => t <= issued /\ r[t].login \in DOMAIN login
                         /\ (r[t].kind = "session" <=> login[r[t].login] = None)
      BY <1>2 DEF RowsFit
    <3> QED BY <3>1, <3>2, <1>1 DEF Remembers
  <2> QED BY <2>1, <2>2
<1>10. \A t \in Counting(row') : t = issued + 1 \/ (t \in Counting(r) /\ row'[t] = r[t])
  BY <1>6 DEF Counting
<1>11. \A t, u \in Counting(row') :
        row'[t].login = row'[u].login /\ row'[t].kind # "session" /\ t < u
            => u = t + 1 /\ row'[t].kind = "refresh" /\ row'[u].kind = "access"
  <2> TAKE t, u \in Counting(row')
  <2> HAVE row'[t].login = row'[u].login /\ row'[t].kind # "session" /\ t < u
  <2>0. t \in Token /\ u \in Token /\ row'[t] # None /\ row'[u] # None
    BY DEF Counting
  <2>1. row'[u].kind # "session"
    BY <2>0, <1>9
  <2>2. t # issued + 1 /\ u # issued + 1
    BY <2>0, <2>1, <1>5, <1>6
  <2>3. t \in Counting(r) /\ row'[t] = r[t] /\ u \in Counting(r) /\ row'[u] = r[u]
    BY <2>2, <1>10
  <2> QED BY <2>3, <1>2 DEF RowsFit
<1>12. RowsFit(row', issued', login')
  BY <1>7, <1>9, <1>11 DEF RowsFit
<1>13. \A t \in Token : t <= issued => row'[t] = r[t]
  BY <1>1, <1>6
<1>14. \A t \in Token : row'[t] # None /\ ~ (t <= issued) => row'[t].login = l
  BY <1>1, <1>5, <1>6, <1>8
<1>15. Evolves(l)
  BY <1>1, <1>13, <1>14 DEF Evolves, Shrinks
<1>16. Counting(r) \subseteq Counting(row')
  BY <1>8, <1>13 DEF Counting
<1> QED BY <1>1, <1>12, <1>15, <1>16

\* A step that issues nothing.
LEMMA FewerFit ==
  ASSUME AInv, Shrinks(row, row'), UNCHANGED <<issued, login>>
  PROVE  /\ RowsFit(row', issued', login')
         /\ Evolves(0)
         /\ issued' \in 0 .. MaxToken
<1>1. RowsFit(row', issued, login)
  BY ShrinkFits DEF AInv
<1>2. issued \in Nat /\ issued \in 0 .. MaxToken
  BY BoundAssumption DEF AInv, TypeOK
<1>3. \A t \in Token : row'[t] # None => t <= issued
  BY <1>1 DEF RowsFit
<1> QED BY <1>1, <1>2, <1>3 DEF Evolves, Remembers, Shrinks

LEMMA SameRowsShrink == AInv => Shrinks(row, row)
BY DEF AInv, RowsFit, Shrinks

-----------------------------------------------------------------------------
(* Steps.                                                                  *)

\* v goes on as it was, but that a revocation may be less sure.
Follows(v) ==
    \/ tx'[v] = tx[v]
    \/ tx[v].pc = "revoking" /\ \E k : tx'[v] = [tx[v] EXCEPT !.clean = @ \ {k}]

\* A step that gives tokens to login l takes nothing from v.
Undisturbed(v, l) ==
    /\ Follows(v)
    /\ tx[v].pc = "consumed" => tx[v].token \in Counting(row')
    /\ tx[v].pc \in OnLogin => tx[v].login \notin ended'
    /\ tx[v].pc = "revoking" => l \notin tx[v].clean

LEMMA FollowsFields ==
  ASSUME TypeOK, NEW v \in Worker, Follows(v)
  PROVE  /\ tx'[v].pc = tx[v].pc
         /\ tx[v].pc # "revoking" => tx'[v] = tx[v]
         /\ tx[v].pc = "revoking" => tx'[v].seen = tx[v].seen /\ tx'[v].clean \subseteq tx[v].clean
<1>1. tx[v] \in Transaction
  BY DEF TypeOK
<1>2. CASE tx'[v] = tx[v]
  BY <1>2
<1>3. CASE tx[v].pc = "revoking" /\ \E k : tx'[v] = [tx[v] EXCEPT !.clean = @ \ {k}]
  <2>1. PICK k : tx'[v] = [tx[v] EXCEPT !.clean = @ \ {k}]
    BY <1>3
  <2>2. tx'[v].pc = "revoking" /\ tx'[v].seen = tx[v].seen /\ tx'[v].clean = tx[v].clean \ {k}
    <3> DEFINE j == tx[v]
               i == tx'[v]
    <3>1. j \in Transaction /\ j.pc = "revoking" /\ i = [j EXCEPT !.clean = @ \ {k}]
      BY <1>1, <1>3, <2>1
    <3> HIDE DEF i, j
    <3>2. i.pc = "revoking" /\ i.seen = j.seen /\ i.clean = j.clean \ {k}
      BY <3>1, LessSure
    <3> QED BY <3>2 DEF i, j
  <2> QED BY <1>3, <2>2
<1> QED BY <1>2, <1>3 DEF Follows

Apart(v, w) ==
    /\ tx[v].pc = "consumed" /\ tx[w].pc = "consumed" => tx[v].token # tx[w].token
    /\ tx[v].pc = "revoking" /\ tx[w].pc \in OnLogin => tx[w].login \notin tx[v].clean

LEMMA UndisturbedFits ==
  ASSUME AInv, NEW l, Evolves(l), NEW v \in Worker, Undisturbed(v, l)
  PROVE  TxFits(tx[v])'
<1>1. TypeOK /\ TxFits(tx[v]) /\ tx[v] \in Transaction
  BY DEF AInv, TypeOK
<1>2. /\ tx'[v].pc = tx[v].pc
      /\ tx[v].pc # "revoking" => tx'[v] = tx[v]
      /\ tx[v].pc = "revoking" => tx'[v].seen = tx[v].seen /\ tx'[v].clean \subseteq tx[v].clean
  BY <1>1, FollowsFields DEF Undisturbed
<1>3. /\ tx[v].pc = "consumed" => tx[v].token \in Counting(row')
      /\ tx[v].pc \in OnLogin => tx[v].login \notin ended'
      /\ tx[v].pc = "revoking" => l \notin tx[v].clean
  BY DEF Undisturbed
<1>4. /\ DOMAIN login \subseteq DOMAIN login'
      /\ \A k \in DOMAIN login : login'[k] = login[k]
      /\ \A t \in Token : row'[t] # None =>
            IF t <= issued
            THEN /\ row[t] # None
                 /\ row'[t].kind = row[t].kind /\ row'[t].login = row[t].login
                 /\ row[t].revoked => row'[t].revoked
            ELSE row'[t].login = l
  BY DEF Evolves, Remembers
<1>5. issued \in Nat /\ issued' \in issued .. MaxToken /\ MaxToken \in Nat
  BY BoundAssumption DEF Evolves, AInv, TypeOK
<1>6. \A t \in Counting(row) : t \in Token /\ t <= issued
  BY DEF AInv, RowsFit, Counting
<1>7. CASE tx[v].pc = "consumed"
  <2>1. tx[v].token \in Counting(row) /\ row[tx[v].token].kind = "refresh" /\ row[tx[v].token].login = tx[v].login
    BY <1>1, <1>7 DEF TxFits
  <2>2. row'[tx[v].token].kind = "refresh" /\ row'[tx[v].token].login = tx[v].login
    BY <1>3, <1>4, <1>6, <1>7, <2>1 DEF Counting
  <2> QED BY <1>2, <1>3, <1>7, <2>2 DEF TxFits, OnLogin, Counting
<1>8. CASE tx[v].pc = "refreshing"
  <2>1. /\ tx[v].token <= issued /\ tx[v].token \in Token
        /\ row[tx[v].token] # None => row[tx[v].token].kind = "session"
        /\ tx[v].login \in DOMAIN login /\ login[tx[v].login] = None
    BY <1>1, <1>8, Transactions DEF TxFits, OnLogin
  <2>2. row'[tx[v].token] # None => row'[tx[v].token].kind = "session"
    BY <1>4, <2>1
  <2>3. tx[v].token <= issued'
    BY <1>5, <2>1 DEF Token
  <2> QED BY <1>2, <1>3, <1>4, <1>8, <2>1, <2>2, <2>3 DEF TxFits, OnLogin
<1>9. CASE tx[v].pc = "revoking"
  <2>1. tx[v].clean \subseteq DOMAIN login
        /\ \A t \in Counting(row) : row[t].login \in tx[v].clean => t \in tx[v].seen
    BY <1>1, <1>9 DEF TxFits
  <2>2. \A t \in Counting(row') : row'[t].login \in tx[v].clean => t \in Counting(row) /\ row[t].login = row'[t].login
    BY <1>3, <1>4, <1>9 DEF Counting
  <2>3. \A t \in Counting(row') : row'[t].login \in tx'[v].clean => t \in tx'[v].seen
    BY <1>2, <1>9, <2>1, <2>2
  <2> QED BY <1>2, <1>4, <1>9, <2>1, <2>3 DEF TxFits, OnLogin, Counting
<1>10. CASE tx[v].pc \notin {"consumed", "refreshing", "revoking"}
  BY <1>2, <1>10 DEF TxFits, OnLogin
<1> QED BY <1>7, <1>8, <1>9, <1>10

\* What the steps of w, or of nobody, have to show.
LEMMA StepKeeps ==
  ASSUME AInv, NEW W \in SUBSET Worker, NEW l, Evolves(l),
         TypeOK', RowsFit(row', issued', login'), EndedForGood', Unregistered',
         \A v \in Worker \ W : Undisturbed(v, l),
         \A v \in W : TxFits(tx[v])',
         \A v \in W : \A u \in W : u = v,
         \A v \in W : \A u \in Worker \ W : Apart(v, u)' /\ Apart(u, v)'
  PROVE  AInv'
<1>1. \A v \in Worker : TxFits(tx[v])'
  <2> TAKE v \in Worker
  <2>1. CASE v \in W
    BY <2>1
  <2>2. CASE v \notin W
    BY <2>2, UndisturbedFits
  <2> QED BY <2>1, <2>2
<1>2. ASSUME NEW v \in Worker \ W, NEW u \in Worker \ W, u # v
      PROVE  Apart(v, u)'
  <2>1. Apart(v, u)
    BY <1>2 DEF AInv, TxsApart, Apart
  <2>2. Follows(v) /\ Follows(u) /\ TypeOK
    BY DEF Undisturbed, AInv
  <2>3. /\ tx'[v].pc = tx[v].pc /\ tx'[u].pc = tx[u].pc
        /\ tx[v].pc # "revoking" => tx'[v] = tx[v]
        /\ tx[u].pc # "revoking" => tx'[u] = tx[u]
        /\ tx[v].pc = "revoking" => tx'[v].clean \subseteq tx[v].clean
    BY <2>2, FollowsFields
  <2> QED BY <2>1, <2>3 DEF Apart, OnLogin
<1>3. \A v, u \in Worker : u # v => Apart(v, u)'
  BY <1>2
<1>4. TxsApart'
  BY <1>3 DEF TxsApart, Apart
<1> QED BY <1>1, <1>4 DEF AInv

-----------------------------------------------------------------------------
(* What becomes of the transactions.                                       *)

LEMMA GotoShape ==
  ASSUME TypeOK, NEW w \in Worker, NEW j \in Transaction, Goto(w, j)
  PROVE  /\ tx' \in [Worker -> Transaction]
         /\ tx'[w] = j
         /\ \A v \in Worker \ {w} : tx'[v] = tx[v] /\ Follows(v)
BY DEF TypeOK, Goto, Follows

LEMMA BeginShape ==
  ASSUME TypeOK, NEW w \in Worker, NEW j \in Transaction, NEW l, Begin(w, j, l)
  PROVE  /\ tx' \in [Worker -> Transaction]
         /\ tx'[w] = j
         /\ \A v \in Worker \ {w} : Follows(v) /\ (tx'[v].pc = "revoking" => l \notin tx'[v].clean)
<1>1. tx \in [Worker -> Transaction]
  BY DEF TypeOK
<1>2. \A v \in Worker : tx[v].pc = "revoking" =>
        /\ [tx[v] EXCEPT !.clean = @ \ {l}] \in Transaction
        /\ [tx[v] EXCEPT !.clean = @ \ {l}].clean = tx[v].clean \ {l}
  BY <1>1, LessSure
<1>3. /\ tx' = [v \in Worker |-> tx'[v]]
      /\ tx'[w] = j
      /\ \A v \in Worker \ {w} : tx'[v] = IF tx[v].pc = "revoking" THEN [tx[v] EXCEPT !.clean = @ \ {l}] ELSE tx[v]
  BY DEF Begin
<1>4. \A v \in Worker : tx'[v] \in Transaction
  BY <1>1, <1>2, <1>3
<1>5. ASSUME NEW v \in Worker \ {w}
      PROVE  Follows(v) /\ (tx'[v].pc = "revoking" => l \notin tx'[v].clean)
  <2>1. CASE tx[v].pc = "revoking"
    BY <1>2, <1>3, <2>1 DEF Follows
  <2>2. CASE tx[v].pc # "revoking"
    BY <1>3, <2>2 DEF Follows
  <2> QED BY <2>1, <2>2
<1> QED BY <1>3, <1>4, <1>5

-----------------------------------------------------------------------------
(* What each action keeps, and that it brings nothing back.                *)

\* A step that gives tokens to login l only: l is new, or a request works on it,
\* and a request begins on a login that has a token that counts.
NoRevival(l) ==
    /\ l \in DOMAIN login => Busy(l)
    /\ \A v \in Worker : tx'[v].pc \in OnLogin =>
        \/ tx[v].pc \in OnLogin /\ tx[v].login = tx'[v].login
        \/ \E t \in Counting(row) : row[t].login = tx'[v].login

Lawful == \E l : Evolves(l) /\ NoRevival(l)

LEMMA Others ==
  ASSUME TypeOK, NEW v \in Worker, Follows(v), tx'[v].pc \in OnLogin
  PROVE  tx[v].pc \in OnLogin /\ tx[v].login = tx'[v].login
BY FollowsFields DEF OnLogin

LEMMA ZeroIsNoLogin ==
  ASSUME AInv
  PROVE  /\ 0 \notin DOMAIN login
         /\ \A v \in Worker : tx[v].pc = "revoking" => 0 \notin tx[v].clean
<1>1. MaxLogin \in Nat /\ \E n \in 0 .. MaxLogin : DOMAIN login = 1 .. n
  BY BoundAssumption DEF AInv, TypeOK
<1>2. 0 \notin DOMAIN login
  BY <1>1
<1> QED BY <1>2 DEF AInv, TxFits

\* A step that takes tokens away, issues none and works on no login.
LEMMA CalmStep ==
  ASSUME AInv, NEW W \in SUBSET Worker, \A v, u \in W : u = v,
         Shrinks(row, row'), UNCHANGED <<issued, login, ended>>,
         account' \in {"none", "active", "inactive", "gone"},
         account' = "none" => account = "none" /\ \A v \in W : tx'[v].pc \in {"idle", "registering"},
         tx' \in [Worker -> Transaction],
         \A v \in Worker \ W : Follows(v) /\ (tx[v].pc = "consumed" => tx[v].token \in Counting(row')),
         \A v \in W : tx'[v].pc \in {"idle", "registering", "verified"}
  PROVE  AInv' /\ Lawful
<1>1. RowsFit(row', issued', login') /\ Evolves(0) /\ issued' \in 0 .. MaxToken
  BY FewerFit
<1>2. TypeOK
  BY DEF AInv
<1>3. TypeOK'
  BY <1>1, <1>2 DEF TypeOK, RowsFit
<1>4. EndedForGood'
  <2>1. \A t \in Counting(row') : t \in Counting(row) /\ row'[t].login = row[t].login
    BY DEF Shrinks, Counting
  <2> QED BY <2>1 DEF AInv, EndedForGood, Unrevoked, Rows, Counting
<1>5. \A v \in Worker \ W : Undisturbed(v, 0)
  BY ZeroIsNoLogin DEF Undisturbed, AInv, TxFits
<1>6. \A v \in Worker \ W : tx'[v].pc = tx[v].pc
  BY <1>2, FollowsFields
<1>7. Unregistered'
  BY <1>6 DEF AInv, Unregistered
<1>8. \A v \in W : TxFits(tx[v])' /\ \A u \in Worker \ W : Apart(v, u)' /\ Apart(u, v)'
  BY DEF TxFits, Apart, OnLogin
<1>9. AInv'
  BY <1>1, <1>3, <1>4, <1>5, <1>7, <1>8, StepKeeps
<1>10. NoRevival(0)
  <2>1. \A v \in W : tx'[v].pc \notin OnLogin
    BY DEF OnLogin
  <2> QED BY <2>1, <1>2, Others, ZeroIsNoLogin DEF NoRevival
<1> QED BY <1>1, <1>9, <1>10 DEF Lawful

\* A step that changes no row.
LEMMA IdleStep ==
  ASSUME AInv, NEW w \in Worker, NEW j \in Transaction, Goto(w, j),
         UNCHANGED <<account, login, row, issued, ended>>,
         j.pc \in {"idle", "registering", "verified"},
         account = "none" => j.pc \in {"idle", "registering"}
  PROVE  AInv' /\ Lawful
<1>1. /\ tx' \in [Worker -> Transaction] /\ tx'[w] = j
      /\ \A v \in Worker \ {w} : tx'[v] = tx[v] /\ Follows(v)
  BY GotoShape DEF AInv
<1>2. Shrinks(row, row')
  BY SameRowsShrink
<1>3. \A v \in Worker : tx[v].pc = "consumed" => tx[v].token \in Counting(row')
  BY DEF AInv, TxFits, Counting
<1>4. account' \in {"none", "active", "inactive", "gone"}
  BY DEF AInv, TypeOK
<1> DEFINE W == {w}
<1>5. W \in SUBSET Worker /\ (\A v, u \in W : u = v) /\ (\A v \in W : tx'[v] = j)
      /\ \A v \in Worker \ W : v \in Worker \ {w}
  BY <1>1
<1> HIDE DEF W
<1> QED BY <1>1, <1>2, <1>3, <1>4, <1>5, CalmStep

LEMMA RegisterKeeps ==
  ASSUME AInv, NEW w \in Worker, Register(w)
  PROVE  AInv' /\ Lawful
<1>1. [pc |-> "registering"] \in Transaction
  BY DEF Transaction
<1> QED BY <1>1, IdleStep DEF Register

LEMMA VerifyCredentialsKeeps ==
  ASSUME AInv, NEW w \in Worker, NEW d \in Device \cup {None}, VerifyCredentials(w, d)
  PROVE  AInv' /\ Lawful
<1>1. [pc |-> "verified", device |-> d] \in Transaction
  BY DEF Transaction
<1>2. account # "none"
  BY DEF VerifyCredentials
<1> QED BY <1>1, <1>2, IdleStep DEF VerifyCredentials

LEMMA AbortKeeps ==
  ASSUME AInv, NEW w \in Worker, Abort(w)
  PROVE  AInv' /\ Lawful
BY IdleStep, IdleFits DEF Abort, End

\* Steps of nobody: tx is unchanged.
LEMMA NobodysStep ==
  ASSUME AInv, Shrinks(row, row'), UNCHANGED <<issued, login, ended, tx>>,
         account' = account \/ account' \in {"active", "inactive"},
         \A v \in Worker : tx[v].pc = "consumed" => tx[v].token \in Counting(row')
  PROVE  AInv' /\ Lawful
<1>1. /\ account' \in {"none", "active", "inactive", "gone"}
      /\ account' = "none" => account = "none"
      /\ tx' \in [Worker -> Transaction]
  BY DEF AInv, TypeOK
<1>2. \A v \in Worker : Follows(v)
  BY DEF Follows
<1> DEFINE W == {}
<1>3. W \in SUBSET Worker /\ \A v \in W : FALSE
  OBVIOUS
<1> HIDE DEF W
<1> QED BY <1>1, <1>2, <1>3, CalmStep

LEMMA SetActiveKeeps ==
  ASSUME AInv, NEW a \in {"active", "inactive"}, SetActive(a)
  PROVE  AInv' /\ Lawful
<1>1. Shrinks(row, row')
  BY SameRowsShrink DEF SetActive
<1>2. \A v \in Worker : tx[v].pc = "consumed" => tx[v].token \in Counting(row')
  BY DEF AInv, TxFits, Counting, SetActive
<1> QED BY <1>1, <1>2, NobodysStep DEF SetActive

LEMMA LogoutKeeps ==
  ASSUME AInv, NEW t \in Rows, Logout(t)
  PROVE  AInv' /\ Lawful
<1>1. /\ \A v \in Worker : ~(tx[v].pc = "consumed" /\ tx[v].token = t)
      /\ row' = Without({t})
  BY DEF Logout
<1>2. \A v \in Worker : tx[v].pc = "consumed" => tx[v].token \in Counting(row) \ {t}
  BY <1>1 DEF AInv, TxFits
<1>3. \A v \in Worker : tx[v].pc = "consumed" => tx[v].token \in Counting(row')
  BY <1>1, <1>2, WithoutShrinks
<1> QED BY <1>1, <1>3, WithoutShrinks, NobodysStep DEF Logout

LEMMA ExpireKeeps ==
  ASSUME AInv, NEW t \in Rows, Expire(t)
  PROVE  AInv' /\ Lawful
<1>1. Shrinks(row, row') /\ Counting(row') = Counting(row)
  BY ExpiredShrinks DEF Expire
<1>2. \A v \in Worker : tx[v].pc = "consumed" => tx[v].token \in Counting(row')
  BY <1>1 DEF AInv, TxFits
<1> QED BY <1>1, <1>2, NobodysStep DEF Expire

LEMMA CleanupKeeps ==
  ASSUME AInv, Cleanup
  PROVE  AInv' /\ Lawful
<1>1. \A v \in Worker : tx[v].pc = "consumed" =>
        tx[v].token \in Counting(row) /\ row[tx[v].token].kind = "refresh"
  BY DEF AInv, TxFits
<1>2. PICK gone : row' = Without(gone) /\ \A v \in Worker : tx[v].pc = "consumed" => tx[v].token \notin gone
  <2>1. CASE /\ ~ \E w \in Worker : tx[w].pc = "consumed" /\ tx[w].token \in Overdue
             /\ row' = Without(Overdue)
    BY <2>1
  <2>2. CASE \E t \in Overdue : row[t].kind # "refresh" /\ row' = Without({t})
    BY <2>2, <1>1
  <2> QED BY <2>1, <2>2 DEF Cleanup
<1>3. \A v \in Worker : tx[v].pc = "consumed" => tx[v].token \in Counting(row')
  BY <1>1, <1>2, WithoutShrinks
<1> QED BY <1>2, <1>3, WithoutShrinks, NobodysStep DEF Cleanup

\* A step that ends the transaction of w and takes tokens away.
LEMMA EndingStep ==
  ASSUME AInv, NEW w \in Worker, End(w),
         Shrinks(row, row'), UNCHANGED <<issued, login, ended, account>>,
         \A v \in Worker \ {w} : tx[v].pc = "consumed" => tx[v].token \in Counting(row')
  PROVE  AInv' /\ Lawful
<1>1. /\ tx' \in [Worker -> Transaction] /\ tx'[w] = Idle
      /\ \A v \in Worker \ {w} : tx'[v] = tx[v] /\ Follows(v)
  BY GotoShape, IdleFits DEF AInv, End
<1>2. account' \in {"none", "active", "inactive", "gone"}
  BY DEF AInv, TypeOK
<1> DEFINE W == {w}
<1>3. W \in SUBSET Worker /\ (\A v, u \in W : u = v) /\ (\A v \in W : tx'[v].pc = "idle")
      /\ \A v \in Worker \ W : v \in Worker \ {w}
  BY <1>1, IdleFits
<1> HIDE DEF W
<1> QED BY <1>1, <1>2, <1>3, CalmStep

\* A request on login l begins: it consumes token t, or will replace it.
LEMMA BeginStep ==
  ASSUME AInv, NEW w \in Worker, NEW t \in Counting(row),
         tx[w] = Idle,
         NEW j \in Transaction, j.pc \in OnLogin, j.token = t, j.login = row[t].login,
         Begin(w, j, row[t].login),
         UNCHANGED <<account, login, row, issued, ended>>,
         j.pc = "consumed" => row[t].kind = "refresh" /\ Free(w, t),
         j.pc = "refreshing" => row[t].kind = "session"
  PROVE  AInv' /\ Lawful
<1> DEFINE l == row[t].login
<1>1. /\ tx' \in [Worker -> Transaction] /\ tx'[w] = j
      /\ \A v \in Worker \ {w} : Follows(v) /\ (tx'[v].pc = "revoking" => l \notin tx'[v].clean)
  BY BeginShape DEF AInv
<1>2. /\ t \in Token /\ t <= issued /\ row[t] # None
      /\ l \in DOMAIN login
      /\ row[t].kind = "session" <=> login[l] = None
  BY DEF AInv, RowsFit, Counting
<1>3. account # "none"
  <2>1. account = "none" => login = <<>>
    BY DEF AInv, Unregistered
  <2> QED BY <1>2, <2>1
<1>4. RowsFit(row', issued', login') /\ Evolves(0)
  <2>1. Shrinks(row, row')
    BY SameRowsShrink
  <2> QED BY <2>1, FewerFit
<1>5. TypeOK' /\ EndedForGood' /\ Unregistered'
  BY <1>1, <1>3 DEF AInv, TypeOK, EndedForGood, Unrevoked, Rows, Unregistered
<1>6. l \notin ended
  BY DEF AInv, EndedForGood, Unrevoked, Rows, Counting
<1>7. TxFits(tx[w])'
  BY <1>1, <1>2, <1>6 DEF TxFits, OnLogin, Counting
<1>8. \A v \in Worker \ {w} : Undisturbed(v, 0)
  BY <1>1, ZeroIsNoLogin DEF Undisturbed, AInv, TxFits, Counting
<1>9. ASSUME NEW v \in Worker \ {w}
      PROVE  Apart(v, w)' /\ Apart(w, v)'
  <2>1. tx'[v].pc = tx[v].pc /\ (tx[v].pc # "revoking" => tx'[v] = tx[v])
    BY <1>1, FollowsFields DEF AInv
  <2>2. tx'[v].pc = "consumed" /\ j.pc = "consumed" => tx'[v].token # t
    BY <2>1 DEF Free
  <2>3. tx'[v].pc = "revoking" => l \notin tx'[v].clean
    BY <1>1
  <2>4. j.pc # "revoking"
    BY DEF OnLogin
  <2> QED BY <1>1, <2>2, <2>3, <2>4 DEF Apart
<1> DEFINE W == {w}
<1>10. W \in SUBSET Worker /\ (\A v, u \in W : u = v) /\ (\A v \in W : v = w)
       /\ \A v \in Worker \ W : v \in Worker \ {w}
  OBVIOUS
<1>11. AInv'
  <2> HIDE DEF W
  <2> QED BY <1>4, <1>5, <1>7, <1>8, <1>9, <1>10, StepKeeps
<1>12. NoRevival(0)
  <2>1. \A v \in Worker : tx'[v].pc \in OnLogin =>
          \/ tx[v].pc \in OnLogin /\ tx[v].login = tx'[v].login
          \/ \E u \in Counting(row) : row[u].login = tx'[v].login
    <3> TAKE v \in Worker
    <3>1. CASE v = w
      BY <1>1, <3>1
    <3>2. CASE v # w
      BY <1>1, <3>2, Others DEF AInv
    <3> QED BY <3>1, <3>2
  <2> QED BY <2>1, ZeroIsNoLogin DEF NoRevival
<1> QED BY <1>4, <1>11, <1>12 DEF Lawful

LEMMA RefreshSessionKeeps ==
  ASSUME AInv, NEW w \in Worker, NEW t \in Rows, RefreshSession(w, t)
  PROVE  AInv' /\ Lawful
<1>1. /\ tx[w] = Idle /\ t \in Counting(row) /\ row[t].kind = "session"
      /\ UNCHANGED <<account, login, issued, ended>>
  BY DEF RefreshSession, Unrevoked, Rows, Counting
<1>2. CASE row' = Without({t}) /\ UNCHANGED tx
  <2>1. \A v \in Worker : tx[v].pc = "consumed" => tx[v].token \in Counting(row) \ {t}
    BY <1>1 DEF AInv, TxFits
  <2>2. \A v \in Worker : tx[v].pc = "consumed" => tx[v].token \in Counting(row')
    BY <1>2, <2>1, WithoutShrinks
  <2> QED BY <1>1, <1>2, <2>2, WithoutShrinks, NobodysStep
<1>3. CASE /\ Begin(w, [pc |-> "refreshing", token |-> t, login |-> row[t].login], row[t].login)
           /\ UNCHANGED row
  <2> DEFINE j == [pc |-> "refreshing", token |-> t, login |-> row[t].login]
  <2>1. row[t].login \in Login /\ t \in Token
    BY <1>1 DEF AInv, RowsFit, Counting, TokenRow
  <2>2. j \in Transaction /\ j.pc = "refreshing" /\ j.token = t /\ j.login = row[t].login
    BY <2>1 DEF Transaction
  <2>3. Begin(w, j, row[t].login)
    BY <1>3
  <2> HIDE DEF j
  <2> QED BY <1>1, <1>3, <2>2, <2>3, BeginStep DEF OnLogin
<1> QED BY <1>2, <1>3 DEF RefreshSession

LEMMA ConsumeRefreshKeeps ==
  ASSUME AInv, NEW w \in Worker, NEW t \in Rows, ConsumeRefresh(w, t)
  PROVE  AInv' /\ Lawful
<1>1. /\ tx[w] = Idle /\ t \in Counting(row) /\ row[t].kind = "refresh" /\ Free(w, t)
      /\ UNCHANGED <<account, login, row, issued, ended>>
  BY DEF ConsumeRefresh, Unrevoked, Rows, Counting
<1> DEFINE j == [pc |-> "consumed", token |-> t, login |-> row[t].login]
<1>2. row[t].login \in Login /\ t \in Token
  BY <1>1 DEF AInv, RowsFit, Counting, TokenRow
<1>3. j \in Transaction /\ j.pc = "consumed" /\ j.token = t /\ j.login = row[t].login
  BY <1>2 DEF Transaction
<1>4. Begin(w, j, row[t].login)
  BY DEF ConsumeRefresh
<1> HIDE DEF j
<1> QED BY <1>1, <1>3, <1>4, BeginStep DEF OnLogin

\* w ends with new tokens for login l, which no revocation is sure of.
LEMMA IssuingStep ==
  ASSUME AInv, NEW w \in Worker, NEW l, End(w),
         RowsFit(row', issued', login'), Evolves(l),
         account' \in {"active", "inactive", "gone"},
         \E n \in 0 .. MaxLogin : login' \in [1 .. n -> Device \cup {None}],
         ended' = ended, l \notin ended,
         \A v \in Worker \ {w} : /\ tx[v].pc = "consumed" => tx[v].token \in Counting(row')
                                 /\ tx[v].pc = "revoking" => l \notin tx[v].clean,
         l \in DOMAIN login => Busy(l)
  PROVE  AInv' /\ Lawful
<1>1. /\ tx' \in [Worker -> Transaction] /\ tx'[w] = Idle
      /\ \A v \in Worker \ {w} : tx'[v] = tx[v] /\ Follows(v)
  BY GotoShape, IdleFits DEF AInv, End
<1>2. issued' \in 0 .. MaxToken
  BY BoundAssumption DEF Evolves, AInv, TypeOK
<1>3. TypeOK'
  BY <1>1, <1>2 DEF AInv, TypeOK, RowsFit, Evolves, Remembers
<1>4. EndedForGood'
  <2>1. \A t \in Counting(row') : row'[t].login = l \/ (t \in Counting(row) /\ row'[t].login = row[t].login)
    BY DEF Evolves, Counting
  <2> QED BY <2>1 DEF AInv, EndedForGood, Unrevoked, Rows, Counting
<1>5. Unregistered'
  BY DEF Unregistered
<1>6. \A v \in Worker \ {w} : Undisturbed(v, l)
  BY <1>1 DEF Undisturbed, AInv, TxFits
<1>7. TxFits(tx[w])'
  BY <1>1, IdleFits DEF TxFits, OnLogin
<1>8. \A v \in Worker \ {w} : Apart(v, w)' /\ Apart(w, v)'
  BY <1>1, IdleFits DEF Apart, OnLogin
<1> DEFINE W == {w}
<1>9. W \in SUBSET Worker /\ (\A v, u \in W : u = v) /\ (\A v \in W : v = w)
       /\ \A v \in Worker \ W : v \in Worker \ {w}
  OBVIOUS
<1>10. AInv'
  <2> HIDE DEF W
  <2>1. \A v \in Worker \ W : Undisturbed(v, l)
    BY <1>6, <1>9
  <2>2. \A v \in W : TxFits(tx[v])'
    BY <1>7, <1>9
  <2>3. \A v \in W : \A u \in Worker \ W : Apart(v, u)' /\ Apart(u, v)'
    BY <1>8, <1>9
  <2> QED BY <1>3, <1>4, <1>5, <1>9, <2>1, <2>2, <2>3, StepKeeps
<1>11. NoRevival(l)
  BY <1>1, IdleFits, Others DEF NoRevival, OnLogin, AInv
<1> QED BY <1>10, <1>11 DEF Lawful

LEMMA OpenLoginKeeps ==
  ASSUME AInv, NEW w \in Worker, OpenLogin(w)
  PROVE  AInv' /\ Lawful
<1> DEFINE l == Len(login) + 1
           d == tx[w].device
<1>1. PICK n \in 0 .. MaxLogin : login \in [1 .. n -> Device \cup {None}]
  BY DEF AInv, TypeOK
<1>2. n \in Nat /\ Len(login) = n /\ DOMAIN login = 1 .. n /\ n < MaxLogin /\ MaxLogin \in Nat
      /\ login \in Seq(Device \cup {None})
  BY <1>1, BoundAssumption DEF OpenLogin
<1>3. tx[w].pc = "verified" /\ d \in Device \cup {None}
  BY Transactions DEF OpenLogin, AInv, TypeOK
<1>4. login' = Append(login, d)
  BY DEF OpenLogin
<1>5. /\ login' \in [1 .. n + 1 -> Device \cup {None}] /\ DOMAIN login' = 1 .. n + 1
      /\ login'[l] = d
      /\ \A k \in DOMAIN login : login'[k] = login[k]
  <2> HIDE DEF d
  <2>1. login' \in Seq(Device \cup {None}) /\ Len(login') = n + 1
    BY <1>2, <1>3, <1>4
  <2>2. login'[l] = d /\ \A k \in DOMAIN login : login'[k] = login[k]
    BY <1>2, <1>3, <1>4
  <2> QED BY <1>2, <2>1, <2>2
<1>6. l = n + 1 /\ l \in Login /\ l \in DOMAIN login' /\ l \notin DOMAIN login /\ Remembers
  BY <1>2, <1>5 DEF Login, Remembers
<1> HIDE DEF l, d
<1>7. PICK r : /\ Shrinks(row, r)
               /\ IF d = None THEN Issue(r, Session(l)) ELSE Issue(r, Pair(l))
               /\ \A v \in Worker \ {w} : tx[v].pc = "consumed" => tx[v].token \in Counting(r)
  <2>0. \A v \in Worker \ {w} : tx[v].pc = "consumed" => tx[v].token \in Counting(row)
    BY DEF AInv, TxFits
  <2>1. CASE d = None
    <3>1. CanPurge(w) /\ Issue(Without(Overdue), Session(l))
      BY <2>1 DEF OpenLogin, d, l
    <3>2. \A v \in Worker \ {w} : tx[v].pc = "consumed" => tx[v].token \in Counting(row) \ Overdue
      BY <2>0, <3>1 DEF CanPurge, Free
    <3>3. /\ Shrinks(row, Without(Overdue))
          /\ \A v \in Worker \ {w} : tx[v].pc = "consumed" => tx[v].token \in Counting(Without(Overdue))
      BY <3>2, WithoutShrinks
    <3> QED BY <2>1, <3>1, <3>3
  <2>2. CASE d # None
    <3>1. Issue(row, Pair(l))
      BY <2>2 DEF OpenLogin, d, l
    <3> QED BY <2>0, <2>2, <3>1, SameRowsShrink
  <2> QED BY <2>1, <2>2
<1>8. \A t \in Counting(r) : r[t].login # l
  <2>1. \A t \in Counting(row) : row[t].login \in DOMAIN login
    BY DEF AInv, RowsFit, Counting
  <2> QED BY <1>6, <1>7, <2>1 DEF Shrinks, Counting
<1>9. RowsFit(row', issued', login') /\ Evolves(l) /\ Counting(r) \subseteq Counting(row')
  <2>1. CASE d = None
    BY <1>5, <1>6, <1>7, <2>1, IssueSessionFits
  <2>2. CASE d # None
    BY <1>5, <1>6, <1>7, <1>8, <2>2, IssuePairFits
  <2> QED BY <2>1, <2>2
<1>10. account' \in {"active", "inactive", "gone"}
  BY <1>3 DEF OpenLogin, AInv, TypeOK, Unregistered
<1>11. \E m \in 0 .. MaxLogin : login' \in [1 .. m -> Device \cup {None}]
  BY <1>2, <1>5
<1>12. l \notin ended
  BY <1>6 DEF AInv, TypeOK
<1>13. \A v \in Worker \ {w} : /\ tx[v].pc = "consumed" => tx[v].token \in Counting(row')
                               /\ tx[v].pc = "revoking" => l \notin tx[v].clean
  BY <1>6, <1>7, <1>9 DEF AInv, TxFits
<1>14. End(w) /\ ended' = ended
  BY DEF OpenLogin
<1> QED BY <1>6, <1>9, <1>10, <1>11, <1>12, <1>13, <1>14, IssuingStep

LEMMA RegisteredKeeps ==
  ASSUME AInv, NEW w \in Worker, Registered(w)
  PROVE  AInv' /\ Lawful
<1>1. tx[w].pc = "registering" /\ End(w) /\ ended' = ended
  BY DEF Registered
<1>2. CASE account = "none"
  <2>1. /\ login = <<>> /\ login' = <<None>> /\ account' = "active" /\ Issue(row, Session(1))
        /\ \A v \in Worker : tx[v].pc \in {"idle", "registering"}
    BY <1>2 DEF Registered, AInv, Unregistered
  <2>2. /\ DOMAIN login = {} /\ DOMAIN login' = 1 .. 1 /\ login'[1] = None
        /\ login' \in [1 .. 1 -> Device \cup {None}]
    BY <2>1
  <2>3. 1 \in Login /\ 1 \in 0 .. MaxLogin /\ Remembers
    BY <2>2, BoundAssumption DEF Login, Remembers
  <2>4. RowsFit(row', issued', login') /\ Evolves(1)
    BY <2>1, <2>2, <2>3, SameRowsShrink, IssueSessionFits
  <2>5. 1 \notin ended
    BY <2>2 DEF AInv, TypeOK
  <2> QED BY <1>1, <2>1, <2>2, <2>3, <2>4, <2>5, IssuingStep
<1>3. CASE account # "none"
  <2>1. UNCHANGED <<account, login, row, issued>>
    BY <1>3 DEF Registered
  <2>2. Idle \in Transaction /\ Idle.pc = "idle" /\ Goto(w, Idle)
    BY <1>1, IdleFits DEF End
  <2> QED BY <1>1, <2>1, <2>2, IdleStep
<1> QED BY <1>2, <1>3

LEMMA ReplaceSessionKeeps ==
  ASSUME AInv, NEW w \in Worker, ReplaceSession(w)
  PROVE  AInv' /\ Lawful
<1> DEFINE l == tx[w].login
           r == Without(Overdue \cup {tx[w].token})
<1>1. /\ tx[w].pc = "refreshing" /\ account # "gone" /\ CanPurge(w)
      /\ Issue(r, Session(l)) /\ End(w) /\ UNCHANGED <<account, login, ended>>
  BY DEF ReplaceSession
<1>2. /\ row[tx[w].token] # None => row[tx[w].token].kind = "session"
      /\ l \in DOMAIN login /\ login[l] = None /\ l \notin ended /\ l \in Login
  BY <1>1, Transactions DEF AInv, TypeOK, TxFits, OnLogin
<1>3. Remembers
  BY <1>1 DEF Remembers
<1>4. Shrinks(row, r)
  BY WithoutShrinks
<1>5. \A v \in Worker \ {w} : tx[v].pc = "consumed" =>
        tx[v].token \in Counting(row) \ (Overdue \cup {tx[w].token})
  BY <1>1, <1>2 DEF AInv, TxFits, CanPurge, Free, Counting
<1>6. \A v \in Worker \ {w} : tx[v].pc = "consumed" => tx[v].token \in Counting(r)
  BY <1>5, WithoutShrinks
<1> HIDE DEF l, r
<1>7. RowsFit(row', issued', login') /\ Evolves(l) /\ Counting(r) \subseteq Counting(row')
  BY <1>1, <1>2, <1>3, <1>4, IssueSessionFits
<1>8. account' \in {"active", "inactive", "gone"}
  BY <1>1 DEF AInv, TypeOK, Unregistered
<1>9. \E m \in 0 .. MaxLogin : login' \in [1 .. m -> Device \cup {None}]
  BY <1>1 DEF AInv, TypeOK
<1>10. \A v \in Worker \ {w} : /\ tx[v].pc = "consumed" => tx[v].token \in Counting(row')
                               /\ tx[v].pc = "revoking" => l \notin tx[v].clean
  BY <1>1, <1>6, <1>7 DEF AInv, TxsApart, OnLogin, l
<1>11. Busy(l)
  BY <1>1 DEF Busy, l
<1> QED BY <1>1, <1>2, <1>7, <1>8, <1>9, <1>10, <1>11, IssuingStep

LEMMA RotateKeeps ==
  ASSUME AInv, NEW w \in Worker, Rotate(w)
  PROVE  AInv' /\ Lawful
<1> DEFINE l == tx[w].login
           t == tx[w].token
<1>1. tx[w].pc = "consumed" /\ End(w) /\ UNCHANGED <<account, login, ended>>
  BY DEF Rotate
<1>2. /\ t \in Counting(row) /\ row[t].kind = "refresh" /\ row[t].login = l
      /\ l \notin ended /\ l \in Login /\ t \in Token /\ t \in Nat
  BY <1>1, Transactions, BoundAssumption DEF AInv, TypeOK, TxFits, OnLogin, Token
<1>3. l \in DOMAIN login /\ login[l] # None
  BY <1>2 DEF AInv, RowsFit, Counting
\* The other tokens of the login that count are access tokens.
<1>4. \A u \in Counting(row) : row[u].login = l /\ u # t => row[u].kind = "access"
  <2> TAKE u \in Counting(row)
  <2> HAVE row[u].login = l /\ u # t
  <2>1. u \in Nat /\ row[u] # None
    BY BoundAssumption DEF Counting, Token
  <2>2. row[u].kind # "session"
    BY <1>3, <2>1 DEF AInv, RowsFit, Counting
  <2>3. CASE t < u
    BY <1>2, <2>3 DEF AInv, RowsFit
  <2>4. CASE u < t
    <3>1. row[t].kind = "access"
      BY <1>2, <2>2, <2>4 DEF AInv, RowsFit
    <3> QED BY <1>2, <3>1
  <2> QED BY <1>2, <2>1, <2>3, <2>4
<1>5. \A v \in Worker \ {w} : tx[v].pc = "consumed" =>
        /\ tx[v].token \in Counting(row) /\ tx[v].token # t
        /\ row[tx[v].token].kind = "refresh" /\ row[tx[v].token].login # l
  BY <1>1, <1>4 DEF AInv, TxFits, TxsApart
<1> HIDE DEF l, t
<1>6. CASE row' = Revoked({t}) /\ UNCHANGED issued
  <2>1. \A v \in Worker \ {w} : tx[v].pc = "consumed" => tx[v].token \in Counting(row')
    BY <1>5, <1>6, RevokedShrinks
  <2> QED BY <1>1, <1>6, <2>1, RevokedShrinks, EndingStep
<1>7. CASE row' = Revoked(Of(l)) /\ UNCHANGED issued
  <2>1. \A v \in Worker \ {w} : tx[v].pc = "consumed" => tx[v].token \in Counting(row) \ Of(l)
    BY <1>5 DEF Of
  <2>2. \A v \in Worker \ {w} : tx[v].pc = "consumed" => tx[v].token \in Counting(row')
    BY <1>7, <2>1, RevokedShrinks
  <2> QED BY <1>1, <1>7, <2>2, RevokedShrinks, EndingStep
<1>8. CASE Issue(Revoked({t} \cup LiveAccess(l)), Pair(l))
  <2> DEFINE old == {t} \cup LiveAccess(l)
             r == Revoked(old)
  <2>1. Shrinks(row, r) /\ Issue(r, Pair(l)) /\ Remembers
    BY <1>1, <1>8, RevokedShrinks DEF Remembers
  <2>2. \A u \in Counting(row) : row[u].login = l => u \in old
    BY <1>4 DEF LiveAccess, Unrevoked, Of, Rows, Counting
  <2>3. \A u \in Counting(r) : r[u].login # l
    <3>1. \A u \in Counting(r) : u \in Counting(row) \ old
      BY RevokedShrinks
    <3>2. \A u \in Counting(r) : r[u].login = row[u].login
      BY <2>1 DEF Shrinks, Counting
    <3> QED BY <2>2, <3>1, <3>2
  <2>4. \A v \in Worker \ {w} : tx[v].pc = "consumed" => tx[v].token \in Counting(r)
    <3>1. \A v \in Worker \ {w} : tx[v].pc = "consumed" => tx[v].token \in Counting(row) \ old
      BY <1>5 DEF LiveAccess, Of
    <3> QED BY <3>1, RevokedShrinks
  <2> HIDE DEF r, old
  <2>5. l \in DOMAIN login' /\ login'[l] # None
    BY <1>1, <1>3
  <2>6. RowsFit(row', issued', login') /\ Evolves(l) /\ Counting(r) \subseteq Counting(row')
    BY <1>2, <2>1, <2>3, <2>5, IssuePairFits
  <2>7. account' \in {"active", "inactive", "gone"}
    BY <1>1 DEF AInv, TypeOK, Unregistered
  <2>8. \E m \in 0 .. MaxLogin : login' \in [1 .. m -> Device \cup {None}]
    BY <1>1 DEF AInv, TypeOK
  <2>9. \A v \in Worker \ {w} : /\ tx[v].pc = "consumed" => tx[v].token \in Counting(row')
                                /\ tx[v].pc = "revoking" => l \notin tx[v].clean
    BY <1>1, <2>4, <2>6 DEF AInv, TxsApart, OnLogin, l
  <2>10. Busy(l)
    BY <1>1 DEF Busy, l
  <2> QED BY <1>1, <1>2, <2>6, <2>7, <2>8, <2>9, <2>10, IssuingStep
<1> QED BY <1>6, <1>7, <1>8 DEF Rotate, l, t

\* A revocation takes the rows it saw, and ends the logins it is sure of.
LEMMA TakeStep ==
  ASSUME AInv, NEW w \in Worker, NEW reason \in Reason, NEW seen, NEW clean \in SUBSET (DOMAIN login),
         Take(w, reason, seen, clean), account # "none",
         End(w) \/ (tx[w] = Idle /\ UNCHANGED tx),
         UNCHANGED <<login, issued>>,
         \A t \in Counting(row) : row[t].login \in clean => t \in seen,
         \A v \in Worker \ {w} : tx[v].pc \in OnLogin => tx[v].login \notin clean
  PROVE  AInv' /\ Lawful
<1> DEFINE gone == Taken(reason, seen)
<1>1. /\ tx' \in [Worker -> Transaction] /\ tx'[w] = Idle
      /\ \A v \in Worker \ {w} : tx'[v] = tx[v] /\ Follows(v)
  <2>1. CASE End(w)
    BY <2>1, GotoShape, IdleFits DEF AInv, End
  <2>2. CASE tx[w] = Idle /\ UNCHANGED tx
    BY <2>2 DEF AInv, TypeOK, Follows
  <2> QED BY <2>1, <2>2
<1>2. \A v \in Worker \ {w} : tx[v].pc = "consumed" => tx[v].token \in Counting(row) \ gone
  BY DEF AInv, TxFits, Take, Free
<1>3. \A t \in Counting(row) : t \in seen => t \in gone
  BY DEF Taken, Counting, Rows
<1>4. /\ Shrinks(row, row')
      /\ \A v \in Worker \ {w} : tx[v].pc = "consumed" => tx[v].token \in Counting(row')
      /\ \A t \in Counting(row') : t \in Counting(row) \ seen
  <2>1. CASE reason.why = "reuse"
    <3>1. row' = Revoked(seen) /\ gone = seen
      BY <2>1 DEF Take, Taken
    <3> QED BY <1>2, <3>1, RevokedShrinks
  <2>2. CASE reason.why # "reuse"
    <3>1. row' = Without(gone)
      BY <2>2 DEF Take
    <3> HIDE DEF gone
    <3> QED BY <1>2, <1>3, <3>1, WithoutShrinks
  <2> QED BY <2>1, <2>2
<1>5. ended' = ended \cup clean
  BY DEF Take
<1>6. account' \in {"active", "inactive", "gone"}
  BY DEF Take, AInv, TypeOK
<1>7. RowsFit(row', issued', login') /\ Evolves(0) /\ issued' \in 0 .. MaxToken
  BY <1>4, FewerFit
<1>8. TypeOK'
  BY <1>1, <1>5, <1>6, <1>7 DEF AInv, TypeOK, RowsFit
<1>9. EndedForGood'
  <2>1. \A t \in Counting(row') : t \in Counting(row) \ seen /\ row'[t].login = row[t].login
    BY <1>4 DEF Shrinks, Counting
  <2>2. \A t \in Counting(row) : row[t].login \notin ended
    BY DEF AInv, EndedForGood, Unrevoked, Rows, Counting
  <2> QED BY <1>5, <2>1, <2>2 DEF EndedForGood, Unrevoked, Rows, Counting
<1>10. Unregistered'
  BY <1>6 DEF Unregistered
<1>11. \A v \in Worker \ {w} : Undisturbed(v, 0)
  BY <1>1, <1>4, <1>5, ZeroIsNoLogin DEF Undisturbed, AInv, TxFits
<1>12. TxFits(tx[w])' /\ \A v \in Worker \ {w} : Apart(v, w)' /\ Apart(w, v)'
  BY <1>1, IdleFits DEF TxFits, Apart, OnLogin
<1> DEFINE W == {w}
<1>13. W \in SUBSET Worker /\ (\A v, u \in W : u = v) /\ (\A v \in W : v = w)
       /\ \A v \in Worker \ W : v \in Worker \ {w}
  OBVIOUS
<1>14. AInv'
  <2> HIDE DEF W
  <2>1. \A v \in Worker \ W : Undisturbed(v, 0)
    BY <1>11, <1>13
  <2>2. \A v \in W : TxFits(tx[v])'
    BY <1>12, <1>13
  <2>3. \A v \in W : \A u \in Worker \ W : Apart(v, u)' /\ Apart(u, v)'
    BY <1>12, <1>13
  <2> QED BY <1>7, <1>8, <1>9, <1>10, <1>13, <2>1, <2>2, <2>3, StepKeeps
<1>15. NoRevival(0)
  BY <1>1, IdleFits, Others, ZeroIsNoLogin DEF NoRevival, OnLogin, AInv
<1> QED BY <1>7, <1>14, <1>15 DEF Lawful

\* The logins of what a selection saw, but for those of c, are without tokens
\* that count beyond what it saw.
LEMMA SelectKeeps ==
  ASSUME AInv, NEW w \in Worker, NEW reason \in Reason, NEW seen \in SUBSET Rows, NEW c,
         account # "none", Select(w, reason, seen, c),
         \A t \in seen : \A u \in Counting(row) :
            row[u].login = row[t].login /\ (\A x \in c : row[x].login # row[t].login) => u \in seen
  PROVE  AInv' /\ Lawful
<1> DEFINE clean == {row[t].login : t \in seen} \ (InProgress(w) \cup {row[t].login : t \in c})
<1>1. clean \in SUBSET (DOMAIN login) /\ clean \in SUBSET Login
  BY DEF AInv, RowsFit, Rows, TokenRow
<1>2. \A t \in Counting(row) : row[t].login \in clean => t \in seen
  OBVIOUS
<1>3. \A v \in Worker \ {w} : tx[v].pc \in OnLogin => tx[v].login \notin clean
  BY DEF InProgress, OnLogin
<1>4. tx[w] = Idle /\ UNCHANGED <<login, issued>>
  BY DEF Select
<1>5. \/ Take(w, reason, seen, clean) /\ UNCHANGED tx
      \/ /\ Goto(w, [pc |-> "revoking", reason |-> reason, seen |-> seen, clean |-> clean])
         /\ UNCHANGED <<account, row, ended>>
  BY DEF Select
<1> HIDE DEF clean
<1>6. CASE Take(w, reason, seen, clean) /\ UNCHANGED tx
  BY <1>1, <1>2, <1>3, <1>4, <1>6, TakeStep
<1>7. CASE /\ Goto(w, [pc |-> "revoking", reason |-> reason, seen |-> seen, clean |-> clean])
           /\ UNCHANGED <<account, row, ended>>
  <2> DEFINE j == [pc |-> "revoking", reason |-> reason, seen |-> seen, clean |-> clean]
  <2>1. j \in Transaction /\ j.pc = "revoking" /\ j.seen = seen /\ j.clean = clean
    BY <1>1 DEF Transaction, Rows
  <2>2. Goto(w, j)
    BY <1>7
  <2> HIDE DEF j
  <2>3. /\ tx' \in [Worker -> Transaction] /\ tx'[w] = j
        /\ \A v \in Worker \ {w} : tx'[v] = tx[v] /\ Follows(v)
    BY <2>1, <2>2, GotoShape DEF AInv
  <2>4. RowsFit(row', issued', login') /\ Evolves(0)
    <3>1. Shrinks(row, row')
      BY <1>7, SameRowsShrink
    <3> QED BY <1>4, <3>1, FewerFit
  <2>5. TypeOK' /\ EndedForGood' /\ Unregistered'
    BY <1>4, <1>7, <2>3 DEF AInv, TypeOK, EndedForGood, Unrevoked, Rows, Unregistered
  <2>6. TxFits(tx[w])'
    BY <1>1, <1>2, <1>4, <1>7, <2>1, <2>3 DEF TxFits, OnLogin, Counting
  <2>7. \A v \in Worker \ {w} : Undisturbed(v, 0)
    BY <1>7, <2>3, ZeroIsNoLogin DEF Undisturbed, AInv, TxFits, Counting
  <2>8. \A v \in Worker \ {w} : Apart(v, w)' /\ Apart(w, v)'
    BY <1>3, <2>1, <2>3 DEF Apart, OnLogin
  <2> DEFINE W == {w}
  <2>9. W \in SUBSET Worker /\ (\A v, u \in W : u = v) /\ (\A v \in W : v = w)
         /\ \A v \in Worker \ W : v \in Worker \ {w}
    OBVIOUS
  <2>10. AInv'
    <3> HIDE DEF W
    <3> QED BY <2>4, <2>5, <2>6, <2>7, <2>8, <2>9, StepKeeps
  <2>11. NoRevival(0)
    BY <2>1, <2>3, Others, ZeroIsNoLogin DEF NoRevival, OnLogin, AInv
  <2> QED BY <2>4, <2>10, <2>11 DEF Lawful
<1> QED BY <1>5, <1>6, <1>7

LEMMA RegisteredRows ==
  ASSUME AInv, NEW t \in Rows
  PROVE  account # "none" /\ row[t] \in TokenRow /\ row[t].login \in Login
BY DEF AInv, RowsFit, Unregistered, Rows, TokenRow

LEMMA ReuseKeeps ==
  ASSUME AInv, NEW w \in Worker, NEW t \in Rows, Reuse(w, t)
  PROVE  AInv' /\ Lawful
<1> DEFINE reason == [why |-> "reuse", of |-> row[t].login]
           seen == Unrevoked \cap Of(row[t].login)
<1>1. reason \in Reason /\ account # "none"
  BY RegisteredRows DEF Reason
<1>2. Select(w, reason, seen, {}) /\ seen \in SUBSET Rows
  BY DEF Reuse, Of
<1>3. \A x \in seen : \A u \in Counting(row) : row[u].login = row[x].login => u \in seen
  BY DEF Unrevoked, Of, Rows, Counting
<1> HIDE DEF reason, seen
<1> QED BY <1>1, <1>2, <1>3, SelectKeeps

LEMMA RevokeDeviceKeeps ==
  ASSUME AInv, NEW w \in Worker, NEW d \in Device, RevokeDevice(w, d)
  PROVE  AInv' /\ Lawful
<1> DEFINE reason == [why |-> "device", of |-> d]
           seen == {t \in Rows : login[row[t].login] = d}
<1>1. reason \in Reason /\ account # "none"
  BY RegisteredRows DEF Reason, RevokeDevice
<1>2. Select(w, reason, seen, {}) /\ seen \in SUBSET Rows
  BY DEF RevokeDevice
<1>3. \A x \in seen : \A u \in Counting(row) : row[u].login = row[x].login => u \in seen
  BY DEF Rows, Counting
<1> HIDE DEF reason, seen
<1> QED BY <1>1, <1>2, <1>3, SelectKeeps

LEMMA ChangePasswordKeeps ==
  ASSUME AInv, NEW w \in Worker, NEW c \in Rows, ChangePassword(w, c)
  PROVE  AInv' /\ Lawful
<1> DEFINE reason == [why |-> "password", of |-> None]
           seen == Rows \ {c}
<1>1. reason \in Reason /\ account # "none"
  BY RegisteredRows DEF Reason
<1>2. Select(w, reason, seen, {c}) /\ seen \in SUBSET Rows
  BY DEF ChangePassword
<1>3. \A x \in seen : \A u \in Counting(row) :
        row[u].login = row[x].login /\ (\A y \in {c} : row[y].login # row[x].login) => u \in seen
  BY DEF Rows, Counting
<1> HIDE DEF reason, seen
<1> QED BY <1>1, <1>2, <1>3, SelectKeeps

LEMMA AllRowsKeep ==
  ASSUME AInv, NEW w \in Worker, account # "none",
         NEW why \in {"reset", "deactivate", "delete"}, Select(w, [why |-> why, of |-> None], Rows, {})
  PROVE  AInv' /\ Lawful
<1> DEFINE reason == [why |-> why, of |-> None]
<1>1. reason \in Reason
  BY DEF Reason
<1>2. \A x \in Rows : \A u \in Counting(row) : row[u].login = row[x].login => u \in Rows
  BY DEF Rows, Counting
<1> HIDE DEF reason
<1>3. Select(w, reason, Rows, {})
  BY DEF reason
<1> QED BY <1>1, <1>2, <1>3, SelectKeeps

LEMMA DeactivateKeeps ==
  ASSUME AInv, NEW w \in Worker, Deactivate(w)
  PROVE  AInv' /\ Lawful
BY RegisteredRows, AllRowsKeep DEF Deactivate

LEMMA ManageKeeps ==
  ASSUME AInv, NEW w \in Worker, NEW why \in {"reset", "delete"}, Manage(w, why)
  PROVE  AInv' /\ Lawful
BY AllRowsKeep DEF Manage

LEMMA RevokeKeeps ==
  ASSUME AInv, NEW w \in Worker, Revoke(w)
  PROVE  AInv' /\ Lawful
<1>1. /\ tx[w].pc = "revoking" /\ Take(w, tx[w].reason, tx[w].seen, tx[w].clean)
      /\ End(w) /\ UNCHANGED <<login, issued>>
  BY DEF Revoke
<1>2. tx[w].reason \in Reason /\ tx[w].clean \in SUBSET (DOMAIN login)
      /\ \A t \in Counting(row) : row[t].login \in tx[w].clean => t \in tx[w].seen
  BY <1>1, Transactions DEF AInv, TypeOK, TxFits
<1>3. account # "none"
  BY <1>1 DEF AInv, Unregistered
<1>4. \A v \in Worker \ {w} : tx[v].pc \in OnLogin => tx[v].login \notin tx[w].clean
  BY <1>1 DEF AInv, TxsApart
<1> QED BY <1>1, <1>2, <1>3, <1>4, TakeStep

-----------------------------------------------------------------------------
(* The theorems.                                                           *)

LEMMA InitEstablishes == Init => AInv
<1> SUFFICES ASSUME Init PROVE AInv
  OBVIOUS
<1>1. \A w \in Worker : tx[w] = Idle
  BY DEF Init
<1>2. \A t \in Token : row[t] = None
  BY DEF Init
<1>3. TypeOK
  <2>1. login \in [1 .. 0 -> Device \cup {None}] /\ 0 \in 0 .. MaxLogin /\ 0 \in 0 .. MaxToken
    BY BoundAssumption DEF Init
  <2>2. tx \in [Worker -> Transaction] /\ row \in [Token -> TokenRow \cup {None}]
    BY IdleFits DEF Init
  <2> QED BY <1>2, <2>1, <2>2 DEF Init, TypeOK
<1>4. RowsFit(row, issued, login)
  BY <1>2, <1>3 DEF RowsFit, TypeOK, Counting
<1>5. EndedForGood
  BY <1>2 DEF EndedForGood, Unrevoked, Rows
<1>6. (\A w \in Worker : TxFits(tx[w])) /\ TxsApart /\ Unregistered
  BY <1>1, IdleFits DEF TxsApart, Unregistered, Init, OnLogin
<1> QED BY <1>3, <1>4, <1>5, <1>6 DEF AInv

LEMMA NextKeeps ==
  ASSUME AInv, Next
  PROVE  AInv' /\ Lawful
<1>1. ASSUME NEW w \in Worker, Request(w)
      PROVE  AInv' /\ Lawful
  BY <1>1, RegisterKeeps, RegisteredKeeps, VerifyCredentialsKeeps, OpenLoginKeeps, RefreshSessionKeeps,
     ReplaceSessionKeeps, ConsumeRefreshKeeps, RotateKeeps, ReuseKeeps, RevokeDeviceKeeps,
     ChangePasswordKeeps, DeactivateKeeps, ManageKeeps, RevokeKeeps, AbortKeeps
  DEF Request
<1>2. ASSUME NEW a \in {"active", "inactive"}, SetActive(a)
      PROVE  AInv' /\ Lawful
  BY <1>2, SetActiveKeeps
<1>3. ASSUME NEW t \in Rows, Logout(t) \/ Expire(t)
      PROVE  AInv' /\ Lawful
  BY <1>3, LogoutKeeps, ExpireKeeps
<1>4. CASE Cleanup
  BY <1>4, CleanupKeeps
<1> QED BY <1>1, <1>2, <1>3, <1>4 DEF Next

LEMMA StutteringKeeps ==
  ASSUME AInv, UNCHANGED vars
  PROVE  AInv'
BY DEF vars, AInv, TypeOK, RowsFit, EndedForGood, TxFits, TxsApart, Unregistered,
       Counting, Unrevoked, Rows, OnLogin

\* The inductive invariant holds in every state of any logins, rotations,
\* revocations and expiries (auth_sessions.py).
THEOREM Invariance == Spec => []AInv
<1>1. Init => AInv
  BY InitEstablishes
<1>2. AInv /\ [Next]_vars => AInv'
  BY NextKeeps, StutteringKeeps
<1> QED BY <1>1, <1>2, PTL DEF Spec

\* The rows are of their types, and the tokens of a native login that count are one
\* pair: a refresh token is consumed by one rotation only (consume_refresh_token).
THEOREM OnePairAlways == Spec => []Consistent
<1>1. AInv => Consistent
  BY DEF AInv, RowsFit, Consistent, OnePair, Unrevoked, Rows, Counting
<1> QED BY <1>1, Invariance, PTL

\* A login that was at rest when a revocation (a device's, a password change, a
\* deactivation) ended it never has a token that counts again.
THEOREM RevocationsLast == Spec => []EndedForGood
<1>1. AInv => EndedForGood
  BY DEF AInv
<1> QED BY <1>1, Invariance, PTL

\* No step makes a token of a login that is dead.
LEMMA DeadKept ==
  ASSUME AInv, Lawful, NEW k \in DOMAIN login, Dead(k)
  PROVE  Dead(k)'
<1>1. PICK l : Evolves(l) /\ NoRevival(l)
  BY DEF Lawful
<1>2. ~ Busy(k) /\ \A t \in Counting(row) : row[t].login # k
  BY DEF Dead, Unrevoked, Rows, Counting
<1>3. l # k
  BY <1>1, <1>2 DEF NoRevival
<1>4. \A t \in Counting(row') : row'[t].login # k
  BY <1>1, <1>2, <1>3 DEF Evolves, Counting
<1>5. ~ Busy(k)'
  BY <1>1, <1>2 DEF NoRevival, Busy, OnLogin
<1> QED BY <1>4, <1>5 DEF Dead, Unrevoked, Rows, Counting

\* A login without a token that counts, and on which no request is working, stays
\* so: only a login or the rotation of a token that counts issues tokens.
THEOREM TheDeadStayDead == Spec => DeadStaysDead
<1>1. AInv /\ [Next]_vars => [RevivesNothing]_vars
  <2>1. AInv /\ Next => RevivesNothing
    BY NextKeeps, DeadKept DEF RevivesNothing
  <2> QED BY <2>1
<1> QED BY <1>1, Invariance, PTL DEF Spec, DeadStaysDead
=============================================================================
