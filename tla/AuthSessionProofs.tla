------------------------- MODULE AuthSessionProofs -------------------------
(***************************************************************************)
(* Theorems about AuthSession, for any requests of any number of calls in  *)
(* any number of processes.                                                *)
(***************************************************************************)
EXTENDS AuthSession, FiniteSetTheorems, TLAPS

USE AuthConstants

Closable == {"sessions", "tokens"}

\* What the rows that an operation writes have to do with those it has read, and with the
\* session whose token it exchanges.
WritesWell(c, rows, exchanged) ==
  /\ DOMAIN rows \subseteq Reads(call[c].op)
  /\ \A t \in DOMAIN rows : Holds(t, rows[t])
  /\ \A t \in Closable \cap DOMAIN rows : Ids(rows[t]) \subseteq Ids(seen[c][t]) \cup {c}
  /\ exchanged # {} => /\ "tokens" \in DOMAIN rows
                       /\ exchanged \subseteq Ids(seen[c].tokens) \ Ids(rows.tokens)

\* Types, and what goes with a phase.
Stages ==
  /\ phase \in [Calls -> Phases]
  /\ DOMAIN seen = Calls /\ DOMAIN saves = Calls /\ DOMAIN current = Calls
  /\ \A c \in Calls :
       /\ phase[c] # "loading" => DOMAIN seen[c] = {}
       /\ phase[c] \notin {"saving", "failed"} => DOMAIN saves[c] = {}

\* The phases before a call operates.
Early == {"idle", "queued", "loading"}

TypeInv ==
  /\ TypeOK /\ Stages
  /\ call \in Requests
  /\ used \in [Calls -> SUBSET SessionIds]
  /\ \A c \in Calls : phase[c] \in Early \cup {"switching"} => used[c] = {}
  /\ closing \in [Calls -> [Closable -> SUBSET SessionIds]]
  /\ ended \in [Closable -> SUBSET SessionIds]

\* A call that has not operated yet has issued nothing: its name is in no table.
Unknown(e, x) ==
  /\ e \notin Ids(db[x]) /\ e \notin ended[x]
  /\ \A d \in Calls :
       /\ e \notin closing[d][x]
       /\ x \in DOMAIN seen[d] => e \notin Ids(seen[d][x])
       /\ x \in DOMAIN saves[d] => e \notin Ids(saves[d][x])
Unissued == \A e \in Calls, x \in Closable : phase[e] \in Early => Unknown(e, x)

\* What answered calls have closed, and what others have removed from the table already.
Gone(x) == ended[x] \cup
           UNION {closing[c][x] : c \in {d \in Calls : phase[d] = "saving"
                                                      /\ x \notin DOMAIN saves[d]}}

\* Nobody holds what is gone, except in a table that another has written since.
StayClosed(x) ==
  /\ Ids(db[x]) \cap Gone(x) = {}
  /\ \A c \in Calls :
       /\ x \in current[c] /\ x \in DOMAIN seen[c] => Ids(seen[c][x]) \cap Gone(x) = {}
       /\ x \in current[c] /\ x \in DOMAIN saves[c] => Ids(saves[c][x]) \cap Gone(x) = {}
       /\ phase[c] = "saving" /\ x \in DOMAIN saves[c]
            => Ids(saves[c][x]) \cap closing[c][x] = {}

\* The call has exchanged a token and the table without it is written.
Spent(c) == phase[c] \in {"saving", "answered"} /\ "tokens" \notin DOMAIN saves[c]

\* A token is spent by one call, and no other is about to.
SpentOnce ==
  \A c \in Calls :
    /\ phase[c] = "saving" => used[c] \subseteq closing[c].tokens
    /\ phase[c] = "answered" => used[c] \subseteq ended.tokens
    /\ Spent(c) => \A d \in Calls \ {c} :
         Spent(d) \/ (phase[d] = "saving" /\ "tokens" \in current[d] \cap DOMAIN saves[d])
           => used[c] \cap used[d] = {}

\* Each table on its own: writing over a write of another table does no harm to it.
ClosedInv ==
  /\ TypeInv /\ Unissued
  /\ \A x \in Closable : x \notin crossed => StayClosed(x)
  /\ "tokens" \notin crossed => SpentOnce

\* A table that shows an active superadmin, or one who is pending.
Administered(users) == ActiveSuperadmins(users) # {} \/ Pending(users) # {}

AdminInv ==
  ~pended /\ ~demoted =>
    /\ ActiveSuperadmins(db.users) # {}
    /\ \A c \in Calls :
         /\ "users" \in DOMAIN seen[c] => ActiveSuperadmins(seen[c].users) # {}
         /\ "users" \in DOMAIN saves[c] => Administered(saves[c].users)

\* A call that the others would have to wait for.
Active(c) == Busy(c) \/ DOMAIN saves[c] # {}

\* As long as nobody has started beside an active call, one call at a time is active, and
\* what it has read and will write nobody else has written since, except the users.
Serial ==
  /\ \A c, d \in Calls : Active(c) /\ Active(d) => c = d
  /\ \A c \in Calls : /\ DOMAIN seen[c] \subseteq current[c] \cup {"users"}
                      /\ DOMAIN saves[c] \subseteq current[c] \cup {"users", "audit"}

\* As long as no switch of activity has run beside another call on the users, a call that
\* is switching is the only one on them, and what the others have read of them stands.
Alone ==
  /\ \A c \in Calls : phase[c] = "switching" => "users" \in current[c] /\ OnUsers(c) = {}
  /\ \A c \in Calls : "users" \in DOMAIN seen[c] \cup DOMAIN saves[c] => "users" \in current[c]

SerialInv ==
  /\ Stages
  /\ \A c \in Calls : DOMAIN seen[c] \cup DOMAIN saves[c] \subseteq Reads(call[c].op) \cup {"audit"}
  /\ ~unserial => Serial /\ crossed \subseteq {"users"}
  /\ ~unserial /\ ~beside => Alone /\ crossed = {}

-----------------------------------------------------------------------------
\* The rows that are left, and their names.
LEMMA WithoutIds ==
  ASSUME NEW rows, NEW ids
  PROVE  /\ Without(rows, ids) \subseteq rows
         /\ Ids(Without(rows, ids)) = Ids(rows) \ ids
  BY DEF Without, Ids

LEMMA NowIsNatural == ASSUME TypeInv PROVE Now \in Nat
<1> DEFINE S == {c \in Calls : phase[c] \in {"saving", "answered", "failed"}}
<1>1. IsFiniteSet(S)
  BY FS_Subset
<1>2. Cardinality(S) \in Nat /\ Cardinality(First) \in Nat
  BY <1>1, FS_CardinalityType
<1>3. QED
  BY <1>2 DEF Now

\* issueSession adds the session of the call and takes others away.
LEMMA IssueAddsOne ==
  ASSUME TypeInv, NEW c \in Calls, NEW u \in Users,
         NEW s \in SUBSET SessionRows, NEW k \in SUBSET TokenRows
  PROVE  LET r == Issue(c, u, s, k) IN
         /\ DOMAIN r = Closable
         /\ r.sessions \subseteq SessionRows /\ r.tokens \subseteq TokenRows
         /\ Ids(r.sessions) \subseteq Ids(s) \cup {c}
         /\ Ids(r.tokens) \subseteq Ids(k) \cup {c}
<1> DEFINE others == {IF r.user = u THEN [r EXCEPT !.current = FALSE] ELSE r : r \in s}
           newer(r) == {q \in s : q.user = u /\ q.at > r.at}
           stale == {r.id : r \in {q \in s : q.user = u
                                           /\ Cardinality(newer(q)) + 1 >= MaxSessions}}
<1>1. Issue(c, u, s, k) = [sessions |-> {Row(c, u)} \cup Without(others, stale),
                           tokens   |-> {Token(c, u)} \cup Without(k, stale)]
  BY DEF Issue
<1> HIDE DEF stale
<1>2. others \subseteq SessionRows /\ Ids(others) \subseteq Ids(s)
  <2>1. \A r \in SessionRows : /\ [r EXCEPT !.current = FALSE] \in SessionRows
                               /\ [r EXCEPT !.current = FALSE].id = r.id
    BY DEF SessionRows
  <2>2. others \subseteq SessionRows
    BY <2>1
  <2>3. \A q \in others : q.id \in Ids(s)
    BY <2>1 DEF Ids
  <2> HIDE DEF others
  <2>4. QED
    BY <2>2, <2>3 DEF Ids
<1>3. Row(c, u) \in SessionRows /\ Row(c, u).id = c
  BY NowIsNatural DEF Row, SessionRows, SessionIds
<1>4. Token(c, u) \in TokenRows /\ Token(c, u).id = c
  BY DEF Token, TokenRows, SessionIds
<1> HIDE DEF others
<1>5. /\ Without(others, stale) \subseteq others /\ Without(k, stale) \subseteq k
      /\ Ids(Without(others, stale)) \subseteq Ids(others)
      /\ Ids(Without(k, stale)) \subseteq Ids(k)
  BY WithoutIds
<1> DEFINE S == {Row(c, u)} \cup Without(others, stale)
           K == {Token(c, u)} \cup Without(k, stale)
<1>6. S \subseteq SessionRows /\ K \subseteq TokenRows
  BY <1>2, <1>3, <1>4, <1>5
<1>7. Ids(S) \subseteq Ids(s) \cup {c} /\ Ids(K) \subseteq Ids(k) \cup {c}
  BY <1>2, <1>3, <1>4, <1>5 DEF Ids
<1>8. Issue(c, u, s, k) = [sessions |-> S, tokens |-> K]
  BY <1>1
<1> HIDE DEF S, K
<1>9. QED
  BY <1>6, <1>7, <1>8 DEF Closable

\* A row with fields replaced is a row.
LEMMA PatchedIsARow ==
  ASSUME NEW c \in Calls, call \in Requests
  PROVE  /\ call[c].op \in {"login", "register", "forgotPassword", "switchActivity"}
              => call[c].user \in Users
         /\ call[c].op = "patchUser" =>
              /\ call[c].on \in Users
              /\ \A r \in UserRows : Patched(r, call[c].patch) \in UserRows
<1>1. /\ call[c].op \in {"login", "register", "forgotPassword", "switchActivity"}
           => call[c].user \in Users
      /\ call[c].op = "patchUser" =>
           /\ call[c].on \in Users
           /\ "status" \in DOMAIN call[c].patch => call[c].patch.status \in Statuses
           /\ "role" \in DOMAIN call[c].patch => call[c].patch.role \in Roles
  BY RequestsAreWellFormed DEF Statuses, Roles
<1>2. ASSUME NEW r \in UserRows, call[c].op = "patchUser"
      PROVE  Patched(r, call[c].patch) \in UserRows
  <2>1. DOMAIN r = {"status", "role"} /\ r.status \in Statuses /\ r.role \in Roles
    BY DEF UserRows
  <2>2. Patched(r, call[c].patch) =
          [f \in {"status", "role"} |-> IF f \in DOMAIN call[c].patch THEN call[c].patch[f] ELSE r[f]]
    BY <2>1 DEF Patched
  <2>3. Patched(r, call[c].patch) =
          [status |-> IF "status" \in DOMAIN call[c].patch THEN call[c].patch.status ELSE r.status,
           role |-> IF "role" \in DOMAIN call[c].patch THEN call[c].patch.role ELSE r.role]
    BY <2>2
  <2>4. QED
    BY <1>1, <1>2, <2>1, <2>3 DEF UserRows
<1>3. QED
  BY <1>1, <1>2

\* What a call has read has its type.
LEMMA SeenHolds ==
  ASSUME TypeInv, NEW c \in Calls, Loaded(c)
  PROVE  /\ DOMAIN seen[c] = Reads(call[c].op)
         /\ "users" \in DOMAIN seen[c] => UsersOf(c) \in [Users -> UserRows]
         /\ "sessions" \in DOMAIN seen[c] => SessionsOf(c) \subseteq SessionRows
         /\ "tokens" \in DOMAIN seen[c] => TokensOf(c) \subseteq TokenRows
         /\ "codes" \in DOMAIN seen[c] => seen[c].codes \subseteq Users
  BY DEF Loaded, TypeInv, TypeOK, Holds, UsersOf, SessionsOf, TokensOf

\* revokeSessionChain only takes away.
LEMMA RevokedTakesAway ==
  ASSUME TypeInv, NEW c \in Calls, Loaded(c), Closable \subseteq Reads(call[c].op), NEW ids
  PROVE  LET r == Revoked(c, ids) IN
         /\ DOMAIN r = Closable
         /\ r.sessions \subseteq SessionRows /\ r.tokens \subseteq TokenRows
         /\ Ids(r.sessions) = Ids(SessionsOf(c)) \ ids
         /\ Ids(r.tokens) = Ids(TokensOf(c)) \ ids
<1> DEFINE S == Without(SessionsOf(c), ids)
           K == Without(TokensOf(c), ids)
<1>1. S \subseteq SessionRows /\ K \subseteq TokenRows
  BY SeenHolds, WithoutIds DEF Closable
<1>2. Ids(S) = Ids(SessionsOf(c)) \ ids /\ Ids(K) = Ids(TokensOf(c)) \ ids
  BY WithoutIds
<1>3. Revoked(c, ids) = [sessions |-> S, tokens |-> K]
  BY DEF Revoked
<1> HIDE DEF S, K
<1>4. QED
  BY <1>1, <1>2, <1>3 DEF Closable

\* Sessions and tokens that are written without the users, and with them.
LEMMA SessionsWriteWell ==
  ASSUME TypeInv, NEW c \in Calls, Closable \subseteq Reads(call[c].op),
         NEW r, DOMAIN r = Closable,
         r.sessions \subseteq SessionRows, r.tokens \subseteq TokenRows,
         Ids(r.sessions) \subseteq Ids(SessionsOf(c)) \cup {c},
         Ids(r.tokens) \subseteq Ids(TokensOf(c)) \cup {c},
         NEW ex \in SUBSET (Ids(TokensOf(c)) \ Ids(r.tokens))
  PROVE  /\ WritesWell(c, r, ex)
         /\ \A users \in [Users -> UserRows] :
              "users" \in Reads(call[c].op) => WritesWell(c, WithUsers(users, r), ex)
<1>1. WritesWell(c, r, ex)
  BY DEF WritesWell, Closable, Holds, SessionsOf, TokensOf
<1>2. ASSUME NEW users \in [Users -> UserRows], "users" \in Reads(call[c].op)
      PROVE  WritesWell(c, WithUsers(users, r), ex)
  <2> DEFINE w == WithUsers(users, r)
  <2>1. /\ DOMAIN w = {"users", "sessions", "tokens"}
        /\ w.users = users /\ w.sessions = r.sessions /\ w.tokens = r.tokens
    BY DEF WithUsers, Closable
  <2> HIDE DEF w
  <2>2. QED
    BY <1>2, <2>1 DEF WritesWell, Closable, Holds, SessionsOf, TokensOf, w
<1>3. QED
  BY <1>1, <1>2

\* Every operation refuses, or writes rows that fit those it has read.
LEMMA OperationsWriteWell ==
  ASSUME TypeInv, Unissued, NEW c \in Calls, Operate(c)
  PROVE  /\ Loaded(c)
         /\ Refuse(c) \/ \E rows, ex : WritesWell(c, rows, ex) /\ Write(c, rows, ex)
<1>0. Loaded(c)
  BY DEF Operate, Login, Register, Refresh, Logout, PatchUser, UpdateProfile, DeleteProfile,
         ForgotPassword, ResetPassword, UpdatePassword, DeleteSession, DeleteOtherSessions
<1>a. /\ call[c].op \in {"login", "register", "forgotPassword"} => call[c].user \in Users
      /\ call[c].op = "patchUser" =>
           /\ call[c].on \in Users
           /\ \A r \in UserRows : Patched(r, call[c].patch) \in UserRows
  BY PatchedIsARow DEF TypeInv
<1>b. WritesWell(c, Nothing, {})
  BY DEF WritesWell, Nothing
<1>c. /\ UsersOf(c) \in [Users -> UserRows] /\ "users" \in Reads(call[c].op)
         => WritesWell(c, [users |-> UsersOf(c)], {})
  BY DEF WritesWell, Holds, Closable
<1>1. CASE Login(c)
  <2>1. Closable \cup {"users"} \subseteq Reads(call[c].op)
    BY <1>1 DEF Login, Reads, Closable
  <2>2. /\ UsersOf(c) \in [Users -> UserRows]
        /\ SessionsOf(c) \subseteq SessionRows /\ TokensOf(c) \subseteq TokenRows
    BY <1>0, <2>1, SeenHolds DEF Closable
  <2>3. WritesWell(c, WithUsers(UsersOf(c), Issue(c, call[c].user, SessionsOf(c), TokensOf(c))), {})
    <3> DEFINE r == Issue(c, call[c].user, SessionsOf(c), TokensOf(c))
    <3>1. /\ DOMAIN r = Closable
          /\ r.sessions \subseteq SessionRows /\ r.tokens \subseteq TokenRows
          /\ Ids(r.sessions) \subseteq Ids(SessionsOf(c)) \cup {c}
          /\ Ids(r.tokens) \subseteq Ids(TokensOf(c)) \cup {c}
      <4> DEFINE u == call[c].user
                 s == SessionsOf(c)
                 k == TokensOf(c)
      <4>1. u \in Users
        BY <1>1, <1>a DEF Login
      <4>2. s \in SUBSET SessionRows /\ k \in SUBSET TokenRows
        BY <2>2
      <4> HIDE DEF u, s, k
      <4>3. /\ DOMAIN Issue(c, u, s, k) = Closable
            /\ Issue(c, u, s, k).sessions \subseteq SessionRows
            /\ Issue(c, u, s, k).tokens \subseteq TokenRows
            /\ Ids(Issue(c, u, s, k).sessions) \subseteq Ids(s) \cup {c}
            /\ Ids(Issue(c, u, s, k).tokens) \subseteq Ids(k) \cup {c}
        BY <4>1, <4>2, IssueAddsOne
      <4>4. QED
        BY <4>3 DEF u, s, k
    <3> HIDE DEF r
    <3>2. WritesWell(c, WithUsers(UsersOf(c), r), {})
      BY <2>1, <2>2, <3>1, SessionsWriteWell
    <3>3. QED
      BY <3>2 DEF r
  <2>4. QED
    BY <1>0, <1>1, <1>b, <1>c, <2>1, <2>2, <2>3 DEF Login
<1>2. CASE Register(c)
  <2> DEFINE users == [UsersOf(c) EXCEPT ![call[c].user] = [status |-> "active", role |-> "other"]]
             r == Issue(c, call[c].user, SessionsOf(c), TokensOf(c))
  <2>1. Closable \cup {"users"} \subseteq Reads(call[c].op)
    BY <1>2 DEF Register, Reads, Closable
  <2>2. /\ users \in [Users -> UserRows]
        /\ SessionsOf(c) \subseteq SessionRows /\ TokensOf(c) \subseteq TokenRows
    BY <1>0, <2>1, SeenHolds DEF Closable, UserRows, Statuses, Roles
  <2>3. /\ DOMAIN r = Closable
        /\ r.sessions \subseteq SessionRows /\ r.tokens \subseteq TokenRows
        /\ Ids(r.sessions) \subseteq Ids(SessionsOf(c)) \cup {c}
        /\ Ids(r.tokens) \subseteq Ids(TokensOf(c)) \cup {c}
    <3>1. call[c].user \in Users
      BY <1>2, <1>a DEF Register
    <3>2. QED
      BY <2>2, <3>1, IssueAddsOne
  <2>4. Refuse(c) \/ Write(c, WithUsers(users, r), {})
    BY <1>2 DEF Register
  <2> HIDE DEF users, r
  <2>5. QED
    BY <1>0, <2>1, <2>2, <2>3, <2>4, SessionsWriteWell
<1>3. CASE Refresh(c)
  <2> DEFINE id == call[c].with
             row == CHOOSE r \in TokensOf(c) : r.id = id
             rest == Revoked(c, {id})
             new == Issue(c, row.user, rest.sessions, rest.tokens)
  <2>1. Closable \cup {"users"} \subseteq Reads(call[c].op)
    BY <1>3 DEF Refresh, Reads, Closable
  <2>2. TokensOf(c) \subseteq TokenRows /\ UsersOf(c) \in [Users -> UserRows]
    BY <1>0, <2>1, SeenHolds DEF Closable
  <2>3. \/ Refuse(c)
        \/ /\ id \in Ids(TokensOf(c)) /\ Write(c, new, {id})
    <3>1. IF id \notin Ids(TokensOf(c)) \/ ~Has(c, row.user) THEN Refuse(c)
          ELSE Write(c, new, {id})
      BY <1>3 DEF Refresh
    <3> HIDE DEF id, row, new
    <3>2. QED
      BY <3>1
  <2>4. CASE id \in Ids(TokensOf(c))
    <3>1. row \in TokensOf(c) /\ row.user \in Users
      BY <2>2, <2>4 DEF Ids, TokenRows
    <3>2. /\ rest.sessions \subseteq SessionRows /\ rest.tokens \subseteq TokenRows
          /\ Ids(rest.sessions) = Ids(SessionsOf(c)) \ {id}
          /\ Ids(rest.tokens) = Ids(TokensOf(c)) \ {id}
      BY <1>0, <2>1, RevokedTakesAway
    <3> HIDE DEF rest, row, id
    <3>3. /\ DOMAIN new = Closable
          /\ new.sessions \subseteq SessionRows /\ new.tokens \subseteq TokenRows
          /\ Ids(new.sessions) \subseteq Ids(rest.sessions) \cup {c}
          /\ Ids(new.tokens) \subseteq Ids(rest.tokens) \cup {c}
      BY <3>1, <3>2, IssueAddsOne
    <3>4. id # c
      BY <1>0, <2>1, <2>4 DEF Unissued, Unknown, Early, Loaded, TokensOf, Closable
    <3> HIDE DEF new
    <3>5. {id} \in SUBSET (Ids(TokensOf(c)) \ Ids(new.tokens))
      BY <2>4, <3>2, <3>3, <3>4
    <3>6. WritesWell(c, new, {id})
      BY <1>0, <2>1, <2>2, <3>2, <3>3, <3>5, SessionsWriteWell
    <3>7. QED
      BY <1>0, <2>3, <3>6
  <2>5. QED
    BY <1>0, <2>3, <2>4
<1>4. CASE Logout(c)
  <2>1. Closable \subseteq Reads(call[c].op)
    BY <1>4 DEF Logout, Reads, Closable
  <2>2. PICK ids :
          Write(c, [sessions |-> Without(SessionsOf(c), ids),
                    tokens   |-> Without(TokensOf(c), {call[c].with})], {})
    BY <1>4 DEF Logout
  <2> DEFINE S == Without(SessionsOf(c), ids)
             K == Without(TokensOf(c), {call[c].with})
             r == [sessions |-> S, tokens |-> K]
  <2>3. S \subseteq SessionRows /\ K \subseteq TokenRows
    BY <1>0, <2>1, SeenHolds, WithoutIds DEF Closable
  <2>4. Ids(S) \subseteq Ids(SessionsOf(c)) /\ Ids(K) \subseteq Ids(TokensOf(c))
    BY WithoutIds
  <2> HIDE DEF S, K
  <2>5. WritesWell(c, r, {})
    <3>1. DOMAIN r = Closable /\ r.sessions = S /\ r.tokens = K
      BY DEF Closable
    <3> HIDE DEF r
    <3>2. QED
      BY <2>1, <2>3, <2>4, <3>1, SessionsWriteWell
  <2>6. QED
    BY <1>0, <2>2, <2>5 DEF S, K
<1>5. CASE PatchUser(c)
  <2>1. "users" \in Reads(call[c].op)
    BY <1>5 DEF PatchUser, Reads
  <2>2. UsersOf(c) \in [Users -> UserRows]
    BY <1>0, <2>1, SeenHolds
  <2> DEFINE new == Patched(UsersOf(c)[call[c].on], call[c].patch)
             users == [UsersOf(c) EXCEPT ![call[c].on] = new]
  <2>3. users \in [Users -> UserRows]
    <3>1. new \in UserRows
      BY <1>5, <1>a, <2>2 DEF PatchUser
    <3> HIDE DEF new
    <3>2. QED
      BY <2>2, <3>1
  <2>4. Refuse(c) \/ Write(c, [users |-> users], {})
    BY <1>5 DEF PatchUser
  <2> HIDE DEF users
  <2>5. WritesWell(c, [users |-> users], {})
    BY <2>1, <2>3 DEF WritesWell, Holds, Closable
  <2>6. QED
    BY <1>0, <2>4, <2>5
<1>6. CASE UpdateProfile(c)
  <2>1. "users" \in Reads(call[c].op)
    BY <1>6 DEF UpdateProfile, Reads
  <2>2. QED
    BY <1>0, <1>6, <1>c, <2>1, SeenHolds DEF UpdateProfile
<1>7. CASE DeleteProfile(c)
  <2> DEFINE u == call[c].user
             users == [UsersOf(c) EXCEPT ![u] = Absent]
             S == {r \in SessionsOf(c) : r.user # u}
             K == {r \in TokensOf(c) : r.user # u}
             D == seen[c].codes \ {u}
  <2>1. Reads(call[c].op) = {"users", "sessions", "tokens", "codes"}
    BY <1>7 DEF DeleteProfile, Reads, Tables
  <2>2. /\ users \in [Users -> UserRows] /\ D \subseteq Users
        /\ S \subseteq SessionRows /\ K \subseteq TokenRows
    BY <1>0, <2>1, SeenHolds DEF Absent, UserRows, Statuses, Roles
  <2>3. Ids(S) \subseteq Ids(SessionsOf(c)) /\ Ids(K) \subseteq Ids(TokensOf(c))
    BY DEF Ids
  <2>4. \/ Refuse(c)
        \/ Write(c, [users |-> users, sessions |-> S, tokens |-> K, codes |-> D], {})
    BY <1>7 DEF DeleteProfile
  <2> HIDE DEF users, S, K, D
  <2>5. WritesWell(c, [users |-> users, sessions |-> S, tokens |-> K, codes |-> D], {})
    BY <2>1, <2>2, <2>3 DEF WritesWell, Holds, Closable, SessionsOf, TokensOf
  <2>6. QED
    BY <1>0, <2>4, <2>5
<1>8. CASE ForgotPassword(c)
  <2>1. "codes" \in Reads(call[c].op)
    BY <1>8 DEF ForgotPassword, Reads
  <2>2. WritesWell(c, [codes |-> seen[c].codes \cup {call[c].user}], {})
    BY <1>0, <1>8, <1>a, <2>1, SeenHolds DEF ForgotPassword, WritesWell, Holds, Closable
  <2>3. QED
    BY <1>0, <1>8, <1>b, <2>2 DEF ForgotPassword
<1>9. CASE ResetPassword(c)
  <2> DEFINE u == call[c].user
             others == Others(c, u, "")
             r == Revoked(c, others)
             D == seen[c].codes \ {u}
  <2>1. Reads(call[c].op) = {"users", "sessions", "tokens", "codes"}
    BY <1>9 DEF ResetPassword, Reads, Tables
  <2>2. UsersOf(c) \in [Users -> UserRows] /\ D \subseteq Users /\ seen[c].codes \subseteq Users
    BY <1>0, <2>1, SeenHolds
  <2>3. /\ r.sessions \subseteq SessionRows /\ r.tokens \subseteq TokenRows
        /\ Ids(r.sessions) \subseteq Ids(SessionsOf(c))
        /\ Ids(r.tokens) \subseteq Ids(TokensOf(c))
    <3>1. Closable \subseteq Reads(call[c].op)
      BY <2>1 DEF Closable
    <3> HIDE DEF others
    <3>2. QED
      BY <1>0, <3>1, RevokedTakesAway
  <2>4. \/ Refuse(c)
        \/ \E left \in {seen[c].codes, D} : Write(c, [codes |-> left], {})
        \/ Write(c, [users |-> UsersOf(c), codes |-> D,
                    sessions |-> r.sessions, tokens |-> r.tokens], {})
    BY <1>9 DEF ResetPassword
  <2> HIDE DEF r, D
  <2>5. \A left \in {seen[c].codes, D} : WritesWell(c, [codes |-> left], {})
    BY <2>1, <2>2 DEF WritesWell, Holds, Closable
  <2>6. WritesWell(c, [users |-> UsersOf(c), codes |-> D,
                       sessions |-> r.sessions, tokens |-> r.tokens], {})
    BY <2>1, <2>2, <2>3 DEF WritesWell, Holds, Closable, SessionsOf, TokensOf
  <2>7. QED
    BY <1>0, <2>4, <2>5, <2>6
<1>10. CASE UpdatePassword(c)
  <2> DEFINE r == Revoked(c, Others(c, call[c].user, call[c].with))
  <2>1. Closable \cup {"users"} \subseteq Reads(call[c].op)
    BY <1>10 DEF UpdatePassword, Reads, Closable
  <2>2. /\ UsersOf(c) \in [Users -> UserRows] /\ DOMAIN r = Closable
        /\ r.sessions \subseteq SessionRows /\ r.tokens \subseteq TokenRows
        /\ Ids(r.sessions) \subseteq Ids(SessionsOf(c))
        /\ Ids(r.tokens) \subseteq Ids(TokensOf(c))
    BY <1>0, <2>1, SeenHolds, RevokedTakesAway DEF Closable
  <2>3. Refuse(c) \/ Write(c, Nothing, {}) \/ Write(c, WithUsers(UsersOf(c), r), {})
    BY <1>10 DEF UpdatePassword
  <2> HIDE DEF r
  <2>4. WritesWell(c, WithUsers(UsersOf(c), r), {})
    BY <1>0, <2>1, <2>2, SessionsWriteWell
  <2>5. QED
    BY <1>0, <1>b, <2>3, <2>4
<1>11. ASSUME NEW ids, Closable \subseteq Reads(call[c].op), Write(c, Revoked(c, ids), {})
       PROVE  WritesWell(c, Revoked(c, ids), {})
  <2> DEFINE r == Revoked(c, ids)
  <2>1. /\ DOMAIN r = Closable
        /\ r.sessions \subseteq SessionRows /\ r.tokens \subseteq TokenRows
        /\ Ids(r.sessions) \subseteq Ids(SessionsOf(c))
        /\ Ids(r.tokens) \subseteq Ids(TokensOf(c))
    BY <1>0, <1>11, RevokedTakesAway
  <2> HIDE DEF r
  <2>2. WritesWell(c, r, {})
    BY <1>0, <1>11, <2>1, SessionsWriteWell
  <2>3. QED
    BY <2>2 DEF r
<1>12. CASE DeleteSession(c)
  <2>1. Closable \subseteq Reads(call[c].op)
    BY <1>12 DEF DeleteSession, Reads, Closable
  <2>2. QED
    BY <1>0, <1>11, <1>12, <2>1 DEF DeleteSession
<1>13. CASE DeleteOtherSessions(c)
  <2>1. Closable \subseteq Reads(call[c].op)
    BY <1>13 DEF DeleteOtherSessions, Reads, Closable
  <2>2. QED
    BY <1>0, <1>11, <1>13, <2>1 DEF DeleteOtherSessions
<1>14. QED
  BY <1>1, <1>2, <1>3, <1>4, <1>5, <1>6, <1>7, <1>8, <1>9, <1>10, <1>12, <1>13 DEF Operate

-----------------------------------------------------------------------------
\* Types.

\* A save leaves a table of its type, alone or with the rows of another transaction.
LEMMA SavedHolds ==
  ASSUME TypeInv, NEW c \in Calls, NEW t \in DOMAIN saves[c], Save(c, t)
  PROVE  /\ t \in Tables
         /\ \E rows : db' = [db EXCEPT ![t] = rows] /\ Holds(t, rows)
<1>1. t \in Tables /\ Holds(t, saves[c][t]) /\ Holds(t, db[t])
  BY DEF TypeInv, TypeOK
<1>2. Holds(t, Both(t, db[t], saves[c][t]))
  BY <1>1 DEF Holds, Both, Tables
<1>3. QED
  BY <1>1, <1>2 DEF Save

\* A switch of activity touches the users only, of which it leaves a table.
LEMMA SwitchWritesUsers ==
  ASSUME TypeInv, NEW c \in Calls, Switch(c)
  PROVE  /\ DOMAIN db' = Tables
         /\ \A t \in Tables \ {"users"} : db'[t] = db[t]
         /\ db'.users \in [Users -> UserRows]
         /\ userRow' \in [Calls -> UserRows]
         /\ current' \in [Calls -> SUBSET Tables]
         /\ \A d \in Calls : current'[d] \subseteq current[d] \cup {"users"}
         /\ phase \in [Calls -> Phases] /\ phase' \in [Calls -> Phases]
         /\ phase[c] \in {"queued", "switching"}
         /\ phase'[c] \in {"switching", "failed", "answered"}
         /\ \A d \in Calls \ {c} : phase'[d] = phase[d]
         /\ UNCHANGED <<call, expired, seen, saves, used, closing, ended, pended, unserial>>
<1>1. /\ DOMAIN db = Tables /\ "users" \in Tables /\ db.users \in [Users -> UserRows]
      /\ userRow \in [Calls -> UserRows] /\ current \in [Calls -> SUBSET Tables]
      /\ phase \in [Calls -> Phases]
  BY DEF TypeInv, TypeOK, Holds, Tables
<1>2. CASE FindUser(c)
  <2>1. db.users[call[c].user] \in UserRows
    BY <1>1, <1>2, PatchedIsARow DEF FindUser, TypeInv
  <2>2. QED
    BY <1>1, <1>2, <2>1 DEF FindUser, Keeps, Phases
<1>3. CASE SwitchActivity(c)
  <2> DEFINE new == [userRow[c] EXCEPT !.role = "other"]
             users == [db.users EXCEPT ![call[c].user] = new]
  <2>1. new \in UserRows
    BY <1>1 DEF UserRows, Roles
  <2>2. db' = [db EXCEPT !.users = users]
    BY <1>3 DEF SwitchActivity
  <2> HIDE DEF new
  <2>3. users \in [Users -> UserRows]
    BY <1>1, <2>1
  <2> HIDE DEF users
  <2>4. /\ DOMAIN db' = Tables /\ db'.users = users
        /\ \A t \in Tables \ {"users"} : db'[t] = db[t]
    BY <1>1, <2>2
  <2>5. QED
    BY <1>1, <1>3, <2>3, <2>4 DEF SwitchActivity, Keeps, Phases
<1>4. CASE SwitchFails(c)
  BY <1>1, <1>4 DEF SwitchFails, Keeps, Phases, history
<1>5. QED
  BY <1>2, <1>3, <1>4 DEF Switch

LEMMA TypeIsStable == TypeInv /\ Unissued /\ [Next]_vars => TypeInv'
<1> SUFFICES ASSUME TypeInv, Unissued, [Next]_vars PROVE TypeInv'
  OBVIOUS
<1> USE DEF TypeInv, TypeOK, Stages, Phases, Keeps, Early
<1>1. ASSUME NEW c \in Calls, Arrive(c) PROVE TypeInv'
  BY <1>1 DEF Arrive, history, Holds
<1>2. ASSUME NEW c \in Calls, Start(c) PROVE TypeInv'
  BY <1>2 DEF Start, history, Holds
<1>3. ASSUME NEW c \in Calls, NEW t \in Tables, Load(c, t) PROVE TypeInv'
  <2>1. PICK rows : /\ seen' = [seen EXCEPT ![c] = [x \in DOMAIN @ \cup {t} |->
                                                    IF x = t THEN rows ELSE @[x]]]
                    /\ Holds(t, rows)
    <3>1. Holds(t, IF t = "sessions" THEN Without(db[t], expired) ELSE db[t])
      BY WithoutIds DEF Holds
    <3>2. QED
      BY <1>3, <3>1 DEF Load
  <2>2. /\ seen'[c] = [x \in DOMAIN seen[c] \cup {t} |-> IF x = t THEN rows ELSE seen[c][x]]
        /\ \A d \in Calls \ {c} : seen'[d] = seen[d]
        /\ DOMAIN seen' = Calls
    BY <2>1
  <2>3. \A d \in Calls : /\ DOMAIN seen'[d] \subseteq Tables
                         /\ \A x \in DOMAIN seen'[d] : Holds(x, seen'[d][x])
    BY <2>1, <2>2
  <2>4. UNCHANGED <<db, phase, saves, call, userRow, used, closing, ended>>
    BY <1>3 DEF Load, history
  <2>5. current' \in [Calls -> SUBSET Tables]
    BY <1>3 DEF Load
  <2>6. \A d \in Calls : phase[d] # "loading" => DOMAIN seen'[d] = {}
    BY <1>3, <2>2 DEF Load
  <2> HIDE DEF Holds
  <2>7. QED
    BY <2>2, <2>3, <2>4, <2>5, <2>6 DEF Holds
<1>4. ASSUME NEW c \in Calls, Refuse(c), Loaded(c) PROVE TypeInv'
  BY <1>4 DEF Refuse, Loaded, Nothing, history, Holds
<1>5. ASSUME NEW c \in Calls, NEW rows, NEW ex, Loaded(c),
             WritesWell(c, rows, ex), Write(c, rows, ex)
      PROVE  TypeInv'
  <2>1. Reads(call[c].op) \subseteq Tables
    BY DEF Reads, Tables
  <2>2. /\ DOMAIN saves' = Calls /\ \A d \in Calls \ {c} : saves'[d] = saves[d]
        /\ DOMAIN saves'[c] = DOMAIN rows \cup {"audit"}
        /\ \A t \in DOMAIN saves'[c] : saves'[c][t] = IF t = "audit" THEN {} ELSE rows[t]
    BY <1>5 DEF Write
  <2>3. /\ DOMAIN saves'[c] \subseteq Tables /\ saves'[c] # Nothing
        /\ \A t \in DOMAIN saves'[c] : Holds(t, saves'[c][t])
    <3>1. DOMAIN saves'[c] \subseteq Tables
      BY <1>5, <2>1, <2>2 DEF WritesWell, Tables
    <3>2. saves'[c] # Nothing
      BY <2>2 DEF Nothing
    <3>3. \A t \in DOMAIN saves'[c] : Holds(t, saves'[c][t])
      BY <1>5, <2>2 DEF WritesWell, Holds
    <3>4. QED
      BY <3>1, <3>2, <3>3
  <2>4. used' \in [Calls -> SUBSET SessionIds]
    <3>1. ex \in SUBSET SessionIds
      BY <1>5, <2>1, SeenHolds DEF WritesWell, TokensOf, Ids, TokenRows, Loaded
    <3>2. QED
      BY <1>5, <3>1 DEF Write
  <2>5. closing' \in [Calls -> [Closable -> SUBSET SessionIds]]
    <3> DEFINE lost == [t \in DOMAIN NoneClosed |->
                          IF t \in DOMAIN rows THEN Ids(seen[c][t]) \ Ids(rows[t]) ELSE {}]
    <3>1. \A t \in Closable \cap DOMAIN rows : Ids(seen[c][t]) \subseteq SessionIds
      BY <1>5, SeenHolds DEF WritesWell, Closable, Loaded, SessionsOf, TokensOf, Ids,
                             SessionRows, TokenRows
    <3>2. lost \in [Closable -> SUBSET SessionIds]
      BY <3>1 DEF NoneClosed, Closable
    <3>3. closing' = [closing EXCEPT ![c] = lost]
      BY <1>5 DEF Write
    <3>4. QED
      BY <3>2, <3>3
  <2>6. /\ UNCHANGED <<db, call, current, userRow, ended>>
        /\ phase' = [phase EXCEPT ![c] = "saving"] /\ seen' = [seen EXCEPT ![c] = Nothing]
        /\ \A d \in Calls \ {c} : used'[d] = used[d]
    BY <1>5 DEF Write
  <2>7. phase[c] = "loading"
    BY <1>5 DEF Loaded
  <2>8. QED
    BY <2>2, <2>3, <2>4, <2>5, <2>6, <2>7 DEF Nothing, Holds
<1>6. ASSUME NEW c \in Calls, NEW t \in DOMAIN saves[c], Save(c, t) PROVE TypeInv'
  <2>1. PICK rows : db' = [db EXCEPT ![t] = rows] /\ Holds(t, rows) /\ t \in Tables
    BY <1>6, SavedHolds
  <2>2. DOMAIN db' = Tables /\ \A x \in Tables : Holds(x, db'[x])
    BY <2>1
  <2>3. /\ DOMAIN saves' = Calls /\ \A d \in Calls \ {c} : saves'[d] = saves[d]
        /\ DOMAIN saves'[c] = DOMAIN saves[c] \ {t}
        /\ \A x \in DOMAIN saves'[c] : saves'[c][x] = saves[c][x]
    BY <1>6 DEF Save, Over
  <2>4. /\ current' \in [Calls -> SUBSET Tables]
        /\ ended' \in [Closable -> SUBSET SessionIds]
        /\ closing' \in [Calls -> [Closable -> SUBSET SessionIds]]
    BY <1>6 DEF Save, Over, Answers, NoneClosed, Closable
  <2>5. /\ phase[c] \in {"saving", "failed"}
        /\ phase' = IF Answers(c, t) THEN [phase EXCEPT ![c] = "answered"] ELSE phase
        /\ UNCHANGED <<call, seen, userRow, used>>
    BY <1>6 DEF Save, Over
  <2>6. phase'[c] = "saving" => saves'[c] # Nothing
    BY <2>3, <2>5 DEF Answers, Nothing
  <2>7. QED
    BY <2>2, <2>3, <2>4, <2>5, <2>6 DEF Answers, Holds
<1>7. ASSUME NEW c \in Calls, NEW t \in DOMAIN saves[c], SaveFails(c, t) PROVE TypeInv'
  <2>1. /\ DOMAIN saves' = Calls /\ \A d \in Calls \ {c} : saves'[d] = saves[d]
        /\ DOMAIN saves'[c] = DOMAIN saves[c] \ {t}
        /\ \A x \in DOMAIN saves'[c] : saves'[c][x] = saves[c][x]
    BY <1>7 DEF SaveFails, Over
  <2>2. closing' \in [Calls -> [Closable -> SUBSET SessionIds]]
    BY <1>7 DEF SaveFails, Over, NoneClosed, Closable
  <2>3. /\ phase' = [phase EXCEPT ![c] = "failed"]
        /\ UNCHANGED <<db, call, seen, userRow, used, ended, current>>
    BY <1>7 DEF SaveFails, Over
  <2>4. QED
    BY <2>1, <2>2, <2>3 DEF Holds
<1>8. ASSUME NEW id \in Expiring, Expire(id) PROVE TypeInv'
  BY <1>8 DEF Expire, history, Holds
<1>9. CASE UNCHANGED vars
  BY <1>9 DEF vars, history, Holds
<1>10. ASSUME NEW c \in Calls, Switch(c) PROVE TypeInv'
  <2>1. \A t \in Tables : Holds(t, db'[t])
    BY <1>10, SwitchWritesUsers DEF Holds
  <2>2. /\ \A d \in Calls : phase'[d] \in Early \cup {"switching"} => used'[d] = {}
        /\ \A d \in Calls : /\ phase'[d] # "loading" => DOMAIN seen'[d] = {}
                            /\ phase'[d] \notin {"saving", "failed"} => DOMAIN saves'[d] = {}
                            /\ phase'[d] = "saving" => saves'[d] # Nothing
    <3>1. UNCHANGED <<seen, saves, used>>
      BY <1>10, SwitchWritesUsers
    <3>2. phase[c] \in {"queued", "switching"}
      BY <1>10, SwitchWritesUsers
    <3>3. \A d \in Calls \ {c} : phase'[d] = phase[d]
      BY <1>10, SwitchWritesUsers
    <3>4. phase'[c] \in {"switching", "failed", "answered"}
      BY <1>10, SwitchWritesUsers
    <3>5. QED
      BY <3>1, <3>2, <3>3, <3>4
  <2>3. /\ UNCHANGED <<call, seen, saves, used, closing, ended>>
        /\ DOMAIN db' = Tables /\ phase' \in [Calls -> Phases]
        /\ userRow' \in [Calls -> UserRows]
        /\ current' \in [Calls -> SUBSET Tables]
    BY <1>10, SwitchWritesUsers
  <2>4. QED
    BY <2>1, <2>2, <2>3 DEF Holds
<1>11. QED
  BY <1>1, <1>2, <1>3, <1>4, <1>5, <1>6, <1>7, <1>8, <1>9, <1>10, OperationsWriteWell
     DEF Next, Step, Settle

-----------------------------------------------------------------------------
\* What is closed.

\* What a save leaves in the tables of sessions and tokens.
LEMMA SavedIds ==
  ASSUME TypeInv, NEW c \in Calls, NEW t \in DOMAIN saves[c], Save(c, t), NEW x \in Closable
  PROVE  /\ x # t => db'[x] = db[x]
         /\ x = t => Ids(db'[x]) \subseteq Ids(db[x]) \cup Ids(saves[c][x])
         /\ x = t /\ x \in current[c] => db'[x] = saves[c][x]
<1>1. DOMAIN db = Tables /\ x \in Tables
  BY DEF TypeInv, TypeOK, Closable, Tables
<1>2. x = t => Both(t, db[t], saves[c][t]) = saves[c][t] \cup db[t]
  BY DEF Both, Closable
<1>3. QED
  BY <1>1, <1>2 DEF Save, Ids

LEMMA UnissuedIsStable == TypeInv /\ Unissued /\ [Next]_vars => Unissued'
<1> SUFFICES ASSUME TypeInv, Unissued, [Next]_vars,
                    NEW e \in Calls, NEW x \in Closable, phase'[e] \in Early
             PROVE  Unknown(e, x)'
  BY DEF Unissued
<1>a. phase[e] \in Early => Unknown(e, x)
  BY DEF Unissued
<1>b. /\ phase \in [Calls -> Phases]
      /\ DOMAIN seen = Calls /\ DOMAIN saves = Calls
      /\ DOMAIN closing = Calls /\ \A d \in Calls : DOMAIN closing[d] = Closable
      /\ DOMAIN ended = Closable
  BY DEF TypeInv, Stages
<1> USE <1>b DEF Early, Phases
<1>1. ASSUME NEW c \in Calls, Arrive(c) PROVE Unknown(e, x)'
  <2>1. phase[e] \in Early /\ UNCHANGED <<db, ended, closing, seen, saves>>
    BY <1>1 DEF Arrive, history
  <2>2. QED
    BY <1>a, <2>1 DEF Unknown
<1>2. ASSUME NEW c \in Calls, Start(c) PROVE Unknown(e, x)'
  <2>1. phase[e] \in Early /\ UNCHANGED <<db, ended, closing, seen, saves>>
    BY <1>2 DEF Start
  <2>2. QED
    BY <1>a, <2>1 DEF Unknown
<1>3. ASSUME NEW c \in Calls, NEW t \in Tables, Load(c, t) PROVE Unknown(e, x)'
  <2>1. UNCHANGED <<db, ended, closing, saves, phase>>
    BY <1>3 DEF Load, history
  <2>2. \A d \in Calls : x \in DOMAIN seen'[d] =>
          \/ x \in DOMAIN seen[d] /\ seen'[d][x] = seen[d][x]
          \/ seen'[d][x] = Without(db[x], expired)
          \/ seen'[d][x] = db[x]
    BY <1>3 DEF Load
  <2>3. Ids(Without(db[x], expired)) \subseteq Ids(db[x])
    BY WithoutIds
  <2>4. QED
    BY <1>a, <2>1, <2>2, <2>3 DEF Unknown
<1>4. ASSUME NEW c \in Calls, Refuse(c), Loaded(c) PROVE Unknown(e, x)'
  <2>1. /\ phase[e] \in Early /\ UNCHANGED <<db, ended, closing, saves>>
        /\ \A d \in Calls : seen'[d] = seen[d] \/ DOMAIN seen'[d] = {}
    BY <1>4 DEF Refuse, Loaded, Nothing, history
  <2>2. QED
    BY <1>a, <2>1 DEF Unknown
<1>5. ASSUME NEW c \in Calls, NEW rows, NEW ex, Loaded(c),
             WritesWell(c, rows, ex), Write(c, rows, ex)
      PROVE  Unknown(e, x)'
  <2>1. e # c /\ phase[e] \in Early /\ UNCHANGED <<db, ended>>
    BY <1>5 DEF Write
  <2>2. /\ \A d \in Calls \ {c} : saves'[d] = saves[d] /\ closing'[d] = closing[d]
                                 /\ seen'[d] = seen[d]
        /\ DOMAIN seen'[c] = {}
    BY <1>5 DEF Write, Nothing
  <2>3. /\ x \in DOMAIN saves'[c] => x \in DOMAIN rows /\ saves'[c][x] = rows[x]
        /\ closing'[c][x] = IF x \in DOMAIN rows THEN Ids(seen[c][x]) \ Ids(rows[x]) ELSE {}
    BY <1>5 DEF Write, NoneClosed, Closable
  <2>4. x \in DOMAIN rows => x \in DOMAIN seen[c] /\ Ids(rows[x]) \subseteq Ids(seen[c][x]) \cup {c}
    BY <1>5 DEF WritesWell, Loaded
  <2>5. x \in DOMAIN rows => e \notin Ids(seen[c][x])
    BY <1>a, <2>1, <2>4 DEF Unknown
  <2>6. QED
    BY <1>a, <2>1, <2>2, <2>3, <2>4, <2>5 DEF Unknown
<1>6. ASSUME NEW c \in Calls, NEW t \in DOMAIN saves[c], Save(c, t) PROVE Unknown(e, x)'
  <2>1. phase[e] \in Early /\ UNCHANGED seen
    BY <1>6 DEF Save, Over
  <2>2. /\ e \notin Ids(db[x])
        /\ x \in DOMAIN saves[c] => e \notin Ids(saves[c][x])
    BY <1>a, <2>1 DEF Unknown
  <2>3. e \notin Ids(db'[x])
    <3>1. CASE x # t
      <4>1. db'[x] = db[x]
        BY <1>6, <3>1, SavedIds
      <4>2. QED
        BY <2>2, <4>1
    <3>2. CASE x = t
      <4>1. Ids(db'[x]) \subseteq Ids(db[x]) \cup Ids(saves[c][x])
        BY <1>6, <3>2, SavedIds
      <4>2. QED
        BY <2>2, <3>2, <4>1
    <3>3. QED
      BY <3>1, <3>2
  <2>4. ended'[x] = ended[x] \/ ended'[x] = ended[x] \cup closing[c][x]
    BY <1>6 DEF Save
  <2>5. \A d \in Calls :
          /\ closing'[d][x] = closing[d][x] \/ closing'[d][x] = {}
          /\ x \in DOMAIN saves'[d] => x \in DOMAIN saves[d] /\ saves'[d][x] = saves[d][x]
    BY <1>6 DEF Save, Over, NoneClosed, Closable
  <2>6. QED
    BY <1>a, <2>1, <2>3, <2>4, <2>5 DEF Unknown
<1>7. ASSUME NEW c \in Calls, NEW t \in DOMAIN saves[c], SaveFails(c, t) PROVE Unknown(e, x)'
  <2>1. phase[e] \in Early /\ UNCHANGED <<db, ended, seen>>
    BY <1>7 DEF SaveFails, Over
  <2>2. \A d \in Calls :
          /\ closing'[d][x] = closing[d][x] \/ closing'[d][x] = {}
          /\ x \in DOMAIN saves'[d] => x \in DOMAIN saves[d] /\ saves'[d][x] = saves[d][x]
    BY <1>7 DEF SaveFails, Over, NoneClosed, Closable
  <2>3. QED
    BY <1>a, <2>1, <2>2 DEF Unknown
<1>8. ASSUME NEW id \in Expiring, Expire(id) PROVE Unknown(e, x)'
  BY <1>a, <1>8 DEF Expire, history, Unknown
<1>9. CASE UNCHANGED vars
  BY <1>a, <1>9 DEF vars, history, Unknown
<1>10. ASSUME NEW c \in Calls, Switch(c) PROVE Unknown(e, x)'
  <2>1. phase[e] \in Early /\ db'[x] = db[x] /\ UNCHANGED <<ended, closing, seen, saves>>
    BY <1>10, SwitchWritesUsers DEF Closable, Tables
  <2>2. QED
    BY <1>a, <2>1 DEF Unknown
<1>11. QED
  BY <1>1, <1>2, <1>3, <1>4, <1>5, <1>6, <1>7, <1>8, <1>9, <1>10, OperationsWriteWell
     DEF Next, Step, Settle

LEMMA GoneIs ==
  ASSUME NEW x, NEW i
  PROVE  i \in Gone(x) <=> \/ i \in ended[x]
                           \/ \E c \in Calls : /\ phase[c] = "saving" /\ x \notin DOMAIN saves[c]
                                               /\ i \in closing[c][x]
  BY DEF Gone

\* A token that is spent is gone.
LEMMA SpentIsGone ==
  ASSUME TypeInv, SpentOnce, NEW c \in Calls, Spent(c)
  PROVE  used[c] \subseteq Gone("tokens")
  BY GoneIs DEF SpentOnce, Spent

\* Steps that write no session or token and begin to write none.
Quiet ==
  /\ UNCHANGED <<saves, used, closing, ended>>
  /\ \A x \in Closable : db'[x] = db[x]
  /\ \A c \in Calls : /\ phase'[c] = "saving" <=> phase[c] = "saving"
                      /\ phase[c] = "answered" => phase'[c] = "answered"
                      /\ phase'[c] = "answered" => phase[c] = "answered" \/ used[c] = {}

LEMMA SwitchIsQuiet ==
  ASSUME TypeInv, NEW c \in Calls, Switch(c)
  PROVE  /\ Quiet /\ UNCHANGED seen
         /\ \A d \in Calls, x \in Closable : x \in current'[d] => x \in current[d]
<1>1. used[c] = {}
  BY SwitchWritesUsers DEF TypeInv, Early
<1>2. QED
  BY <1>1, SwitchWritesUsers DEF Quiet, Closable, Tables

LEMMA StayClosedIsStable ==
  ASSUME TypeInv, Unissued, NEW x \in Closable, StayClosed(x), [Next]_vars, x \notin crossed'
  PROVE  StayClosed(x)'
<1>a. /\ phase \in [Calls -> Phases]
      /\ DOMAIN seen = Calls /\ DOMAIN saves = Calls /\ DOMAIN current = Calls
      /\ DOMAIN closing = Calls /\ \A d \in Calls : DOMAIN closing[d] = Closable
      /\ DOMAIN ended = Closable
      /\ \A c \in Calls : phase[c] # "loading" => DOMAIN seen[c] = {}
      /\ \A c \in Calls : phase[c] \notin {"saving", "failed"} => DOMAIN saves[c] = {}
  BY DEF TypeInv, Stages
<1> USE <1>a DEF Phases
<1> DEFINE Held(c) ==
             /\ x \in current[c] /\ x \in DOMAIN seen[c] => Ids(seen[c][x]) \cap Gone(x) = {}
             /\ x \in current[c] /\ x \in DOMAIN saves[c] => Ids(saves[c][x]) \cap Gone(x) = {}
             /\ phase[c] = "saving" /\ x \in DOMAIN saves[c]
                  => Ids(saves[c][x]) \cap closing[c][x] = {}
           Goal == Ids(db'[x]) \cap Gone(x)' = {} /\ \A c \in Calls : Held(c)'
<1>g. SUFFICES Goal
  BY DEF StayClosed
<1>b. Ids(db[x]) \cap Gone(x) = {} /\ \A c \in Calls : Held(c)
  BY DEF StayClosed
<1>c. ASSUME Quiet PROVE Gone(x)' \subseteq Gone(x)
  <2>1. SUFFICES ASSUME NEW i \in Gone(x)' PROVE i \in Gone(x)
    OBVIOUS
  <2>2. \/ i \in ended'[x]
        \/ \E d \in Calls : phase'[d] = "saving" /\ x \notin DOMAIN saves'[d] /\ i \in closing'[d][x]
    BY <2>1 DEF Gone
  <2>3. QED
    BY <1>c, <2>2, GoneIs DEF Quiet
<1>1. ASSUME NEW c \in Calls, Arrive(c) PROVE Goal
  <2>1. Quiet /\ UNCHANGED <<seen, current>>
    BY <1>1 DEF Arrive, history, Quiet
  <2>2. QED
    BY <1>b, <1>c, <2>1 DEF Quiet
<1>2. ASSUME NEW c \in Calls, Start(c) PROVE Goal
  <2>1. Quiet /\ UNCHANGED <<seen, current>>
    BY <1>2 DEF Start, Quiet
  <2>2. QED
    BY <1>b, <1>c, <2>1 DEF Quiet
<1>3. ASSUME NEW c \in Calls, NEW t \in Tables, Load(c, t) PROVE Goal
  <2>1. Quiet /\ UNCHANGED phase
    BY <1>3 DEF Load, history, Quiet
  <2>2. \A d \in Calls :
          \/ seen'[d] = seen[d] /\ current'[d] = current[d]
          \/ /\ phase[d] = "loading"
             /\ x \in DOMAIN seen'[d] => \/ seen'[d][x] = Without(db[x], expired)
                                         \/ seen'[d][x] = db[x]
                                         \/ /\ x \in DOMAIN seen[d] /\ seen'[d][x] = seen[d][x]
                                            /\ x \in current'[d] => x \in current[d]
    BY <1>3 DEF Load
  <2>3. Ids(Without(db[x], expired)) \subseteq Ids(db[x])
    BY WithoutIds
  <2>4. QED
    BY <1>b, <1>c, <2>1, <2>2, <2>3 DEF Quiet
<1>4. ASSUME NEW c \in Calls, Refuse(c), Loaded(c) PROVE Goal
  <2>1. /\ Quiet /\ UNCHANGED current
        /\ \A d \in Calls : seen'[d] = seen[d] \/ DOMAIN seen'[d] = {}
    BY <1>4 DEF Refuse, Loaded, Nothing, history, Quiet
  <2>2. QED
    BY <1>b, <1>c, <2>1 DEF Quiet
<1>5. ASSUME NEW c \in Calls, NEW rows, NEW ex, Loaded(c),
             WritesWell(c, rows, ex), Write(c, rows, ex)
      PROVE  Goal
  <2>1. /\ UNCHANGED <<db, ended, current>>
        /\ phase[c] = "loading" /\ phase'[c] = "saving" /\ DOMAIN seen'[c] = {}
        /\ \A d \in Calls \ {c} : /\ saves'[d] = saves[d] /\ closing'[d] = closing[d]
                                  /\ seen'[d] = seen[d] /\ phase'[d] = phase[d]
    BY <1>5 DEF Write, Loaded, Nothing
  <2>2. /\ x \in DOMAIN saves'[c] <=> x \in DOMAIN rows
        /\ x \in DOMAIN rows => saves'[c][x] = rows[x]
        /\ closing'[c][x] = IF x \in DOMAIN rows THEN Ids(seen[c][x]) \ Ids(rows[x]) ELSE {}
    BY <1>5 DEF Write, NoneClosed, Closable
  <2>3. Gone(x)' \subseteq Gone(x)
    BY <2>1, <2>2, GoneIs DEF Gone
  <2>4. x \in DOMAIN rows => x \in DOMAIN seen[c] /\ Ids(rows[x]) \subseteq Ids(seen[c][x]) \cup {c}
    BY <1>5 DEF WritesWell, Loaded
  <2>5. c \notin Gone(x)
    BY <2>1, GoneIs DEF Unissued, Early, Unknown
  <2>6. Held(c)'
    BY <1>b, <2>1, <2>2, <2>3, <2>4, <2>5
  <2>7. \A d \in Calls \ {c} : Held(d)'
    BY <1>b, <2>1, <2>3
  <2>8. QED
    BY <1>b, <2>1, <2>3, <2>6, <2>7
<1>6. ASSUME NEW c \in Calls, NEW t \in DOMAIN saves[c], Save(c, t) PROVE Goal
  <2>1. /\ DOMAIN saves'[c] = DOMAIN saves[c] \ {t}
        /\ \A y \in DOMAIN saves'[c] : saves'[c][y] = saves[c][y]
        /\ \A d \in Calls \ {c} : saves'[d] = saves[d] /\ closing'[d] = closing[d]
        /\ phase'[c] = "saving" => closing'[c] = closing[c]
        /\ UNCHANGED seen
    BY <1>6 DEF Save, Over
  <2>2. /\ \A d \in Calls \ {c} : phase'[d] = phase[d] /\ current'[d] = current[d] \ {t}
        /\ current'[c] = current[c]
        /\ x = t => t \in current[c] \cup {"audit"}
        /\ phase'[c] = "saving" => phase[c] = "saving"
        /\ phase[c] \in {"saving", "failed"}
    BY <1>6 DEF Save, Answers
  <2>3. \/ ended'[x] = ended[x]
        \/ /\ ended'[x] = ended[x] \cup closing[c][x]
           /\ phase[c] = "saving" /\ DOMAIN saves[c] = {t}
    BY <1>6 DEF Save, Answers
  <2>4. Gone(x)' \subseteq Gone(x) \cup (IF x = t /\ phase[c] = "saving" THEN closing[c][x] ELSE {})
    <3>1. SUFFICES ASSUME NEW i \in Gone(x)'
                   PROVE  i \in Gone(x) \/ (x = t /\ phase[c] = "saving" /\ i \in closing[c][x])
      OBVIOUS
    <3>2. CASE i \in ended'[x]
      BY <2>3, <3>2, GoneIs
    <3>3. ASSUME NEW d \in Calls, phase'[d] = "saving", x \notin DOMAIN saves'[d],
                 i \in closing'[d][x]
          PROVE  i \in Gone(x) \/ (x = t /\ phase[c] = "saving" /\ i \in closing[c][x])
      BY <2>1, <2>2, <3>3, GoneIs
    <3>4. QED
      BY <3>1, <3>2, <3>3 DEF Gone
  <2>5. CASE x # t
    <3>1. db'[x] = db[x] /\ Gone(x)' \subseteq Gone(x)
      <4>1. db'[x] = db[x]
        BY <1>6, <2>5, SavedIds
      <4>2. QED
        BY <2>4, <2>5, <4>1
    <3>2. \A d \in Calls : Held(d)'
      BY <1>b, <2>1, <2>2, <3>1
    <3>3. QED
      BY <1>b, <3>1, <3>2
  <2>6. CASE x = t
    <3>1. x \in current[c]
      BY <2>2, <2>6 DEF Closable
    <3>2. db'[x] = saves[c][x]
      BY <1>6, <2>6, <3>1, SavedIds
    <3>3. Ids(saves[c][x]) \cap Gone(x)' = {}
      BY <1>b, <2>4, <2>6, <3>1
    <3>4. \A d \in Calls \ {c} : Held(d)'
      BY <1>b, <2>1, <2>2, <2>6
    <3>5. Held(c)'
      BY <2>1, <2>2, <2>6
    <3>6. QED
      BY <3>2, <3>3, <3>4, <3>5
  <2>7. QED
    BY <2>5, <2>6
<1>7. ASSUME NEW c \in Calls, NEW t \in DOMAIN saves[c], SaveFails(c, t) PROVE Goal
  <2>1. /\ DOMAIN saves'[c] = DOMAIN saves[c] \ {t}
        /\ \A y \in DOMAIN saves'[c] : saves'[c][y] = saves[c][y]
        /\ \A d \in Calls \ {c} : /\ saves'[d] = saves[d] /\ closing'[d] = closing[d]
                                  /\ phase'[d] = phase[d]
        /\ phase'[c] = "failed"
        /\ UNCHANGED <<db, ended, seen, current>>
    BY <1>7 DEF SaveFails, Over
  <2>2. Gone(x)' \subseteq Gone(x)
    BY <2>1, GoneIs DEF Gone
  <2>3. \A d \in Calls : Held(d)'
    BY <1>b, <2>1, <2>2
  <2>4. QED
    BY <1>b, <2>1, <2>2, <2>3
<1>8. ASSUME NEW id \in Expiring, Expire(id) PROVE Goal
  <2>1. Quiet /\ UNCHANGED <<seen, current, phase>>
    BY <1>8 DEF Expire, history, Quiet
  <2>2. QED
    BY <1>b, <1>c, <2>1 DEF Quiet
<1>9. CASE UNCHANGED vars
  <2>1. Quiet /\ UNCHANGED <<seen, current, phase>>
    BY <1>9 DEF vars, history, Quiet
  <2>2. QED
    BY <1>b, <1>c, <2>1 DEF Quiet
<1>10. ASSUME NEW c \in Calls, Switch(c) PROVE Goal
  <2>1. /\ Quiet /\ UNCHANGED seen
        /\ \A d \in Calls : x \in current'[d] => x \in current[d]
    BY <1>10, SwitchIsQuiet
  <2>2. QED
    BY <1>b, <1>c, <2>1 DEF Quiet
<1>11. QED
  BY <1>1, <1>2, <1>3, <1>4, <1>5, <1>6, <1>7, <1>8, <1>9, <1>10, OperationsWriteWell
     DEF Next, Step, Settle

LEMMA SpentOnceIsStable ==
  ASSUME TypeInv, StayClosed("tokens"), SpentOnce, [Next]_vars, Unissued, "tokens" \notin crossed'
  PROVE  SpentOnce'
<1>a. /\ phase \in [Calls -> Phases]
      /\ DOMAIN saves = Calls /\ DOMAIN current = Calls /\ DOMAIN used = Calls
      /\ DOMAIN closing = Calls /\ \A d \in Calls : DOMAIN closing[d] = Closable
      /\ DOMAIN ended = Closable
      /\ \A c \in Calls : phase[c] \notin {"saving", "failed"} => DOMAIN saves[c] = {}
  BY DEF TypeInv, Stages
<1> USE <1>a DEF Phases
<1> DEFINE Saving(d) == phase[d] = "saving" /\ "tokens" \in current[d] \cap DOMAIN saves[d]
           Kept(c) == /\ phase[c] = "saving" => used[c] \subseteq closing[c].tokens
                      /\ phase[c] = "answered" => used[c] \subseteq ended.tokens
           Apart(c, d) == Spent(c) /\ (Spent(d) \/ Saving(d)) => used[c] \cap used[d] = {}
           Goal == \A c \in Calls : Kept(c)' /\ \A d \in Calls \ {c} : Apart(c, d)'
<1>b. \A c \in Calls : Kept(c) /\ \A d \in Calls \ {c} : Apart(c, d)
  BY DEF SpentOnce
<1>g. SUFFICES Goal
  BY DEF SpentOnce
<1>c. ASSUME Quiet,
             \A d \in Calls : phase'[d] = "saving" /\ "tokens" \in current'[d]
                               => "tokens" \in current[d]
      PROVE  Goal
  BY <1>b, <1>c DEF Quiet, Spent
<1>1. ASSUME NEW c \in Calls, Arrive(c) PROVE Goal
  BY <1>1, <1>c DEF Arrive, history, Quiet
<1>2. ASSUME NEW c \in Calls, Start(c) PROVE Goal
  BY <1>2, <1>c DEF Start, Quiet
<1>3. ASSUME NEW c \in Calls, NEW t \in Tables, Load(c, t) PROVE Goal
  BY <1>3, <1>c DEF Load, history, Quiet
<1>4. ASSUME NEW c \in Calls, Refuse(c), Loaded(c) PROVE Goal
  BY <1>4, <1>c DEF Refuse, Loaded, history, Quiet
<1>5. ASSUME NEW c \in Calls, NEW rows, NEW ex, Loaded(c),
             WritesWell(c, rows, ex), Write(c, rows, ex)
      PROVE  Goal
  <2>1. /\ UNCHANGED <<ended, current>>
        /\ phase[c] = "loading" /\ phase'[c] = "saving" /\ used'[c] = ex
        /\ \A d \in Calls \ {c} : /\ saves'[d] = saves[d] /\ closing'[d] = closing[d]
                                  /\ phase'[d] = phase[d] /\ used'[d] = used[d]
    BY <1>5 DEF Write, Loaded
  <2>2. /\ "tokens" \in DOMAIN saves'[c] <=> "tokens" \in DOMAIN rows
        /\ closing'[c].tokens = IF "tokens" \in DOMAIN rows
                                THEN Ids(seen[c].tokens) \ Ids(rows.tokens) ELSE {}
    BY <1>5 DEF Write, NoneClosed
  <2>3. ex # {} => /\ "tokens" \in DOMAIN rows /\ "tokens" \in DOMAIN seen[c]
                   /\ ex \subseteq Ids(seen[c].tokens) \ Ids(rows.tokens)
    BY <1>5 DEF WritesWell, Loaded
  <2>4. Kept(c)'
    BY <2>1, <2>2, <2>3
  <2>5. \A d \in Calls \ {c} : Kept(d)'
    BY <1>b, <2>1
  <2>6. \A d \in Calls : d # c => Apart(c, d)'
    BY <2>1, <2>2, <2>3 DEF Spent
  <2>7. ASSUME NEW d \in Calls \ {c} PROVE Apart(d, c)'
    <3>1. SUFFICES ASSUME Spent(d), ex # {}, "tokens" \in current[c]
                   PROVE  used[d] \cap ex = {}
      BY <2>1, <2>2, <2>3 DEF Spent
    <3>2. used[d] \subseteq Gone("tokens")
      BY <3>1, SpentIsGone
    <3>3. Ids(seen[c].tokens) \cap Gone("tokens") = {}
      BY <2>3, <3>1 DEF StayClosed
    <3>4. QED
      BY <2>3, <3>1, <3>2, <3>3
  <2>8. \A d, d2 \in Calls \ {c} : d # d2 => Apart(d, d2)'
    BY <1>b, <2>1 DEF Spent
  <2> HIDE DEF Kept, Apart
  <2>9. QED
    BY <2>4, <2>5, <2>6, <2>7, <2>8
<1>6. ASSUME NEW c \in Calls, NEW t \in DOMAIN saves[c], Save(c, t) PROVE Goal
  <2>1. /\ DOMAIN saves'[c] = DOMAIN saves[c] \ {t}
        /\ \A d \in Calls \ {c} : saves'[d] = saves[d] /\ closing'[d] = closing[d]
        /\ phase'[c] = "saving" => closing'[c] = closing[c]
        /\ UNCHANGED used
    BY <1>6 DEF Save, Over
  <2>2. /\ \A d \in Calls \ {c} : phase'[d] = phase[d] /\ current'[d] = current[d] \ {t}
        /\ current'[c] = current[c]
        /\ t = "tokens" => t \in current[c]
        /\ phase[c] \in {"saving", "failed"}
        /\ \/ phase'[c] = phase[c]
           \/ phase[c] = "saving" /\ phase'[c] = "answered" /\ DOMAIN saves[c] = {t}
    BY <1>6 DEF Save, Answers
  <2>3. /\ ended.tokens \subseteq ended'.tokens
        /\ phase'[c] = "answered" => closing[c].tokens \subseteq ended'.tokens
    BY <1>6, <2>2 DEF Save, Closable
  <2>4. \A d \in Calls : Kept(d)'
    BY <1>b, <2>1, <2>2, <2>3
  <2>5. \A d \in Calls : Spent(d)' => Spent(d) \/ (d = c /\ t = "tokens" /\ Saving(d))
    BY <2>1, <2>2 DEF Spent
  <2>6. \A d \in Calls : Saving(d)' => Saving(d) /\ (d = c \/ t # "tokens")
    BY <2>1, <2>2
  <2> HIDE DEF Saving, Kept
  <2>7. ASSUME NEW d \in Calls, NEW f \in Calls \ {d} PROVE Apart(d, f)'
    <3>1. SUFFICES ASSUME Spent(d)', (Spent(f) \/ Saving(f))' PROVE used[d] \cap used[f] = {}
      BY <2>1
    <3>2. CASE Spent(d)
      BY <1>b, <2>5, <2>6, <3>1, <3>2
    <3>3. CASE ~Spent(d)
      <4>1. d = c /\ t = "tokens" /\ Saving(c)
        BY <2>5, <3>1, <3>3
      <4>2. Spent(f)
        BY <2>5, <2>6, <3>1, <4>1
      <4>3. QED
        BY <1>b, <4>1, <4>2
    <3>4. QED
      BY <3>2, <3>3
  <2> HIDE DEF Apart
  <2>8. QED
    BY <2>4, <2>7
<1>7. ASSUME NEW c \in Calls, NEW t \in DOMAIN saves[c], SaveFails(c, t) PROVE Goal
  <2>1. /\ \A d \in Calls \ {c} : /\ saves'[d] = saves[d] /\ closing'[d] = closing[d]
                                  /\ phase'[d] = phase[d]
        /\ phase'[c] = "failed"
        /\ UNCHANGED <<ended, current, used>>
    BY <1>7 DEF SaveFails, Over
  <2>2. QED
    BY <1>b, <2>1 DEF Spent
<1>8. ASSUME NEW id \in Expiring, Expire(id) PROVE Goal
  BY <1>8, <1>c DEF Expire, history, Quiet
<1>9. CASE UNCHANGED vars
  BY <1>9, <1>c DEF vars, history, Quiet
<1>10. ASSUME NEW c \in Calls, Switch(c) PROVE Goal
  BY <1>10, <1>c, SwitchIsQuiet DEF Closable
<1>11. QED
  BY <1>1, <1>2, <1>3, <1>4, <1>5, <1>6, <1>7, <1>8, <1>9, <1>10, OperationsWriteWell
     DEF Next, Step, Settle

\* Only a save writes over a write, or makes a superadmin "pending" in the table.
LEMMA OperationsKeepHistory ==
  ASSUME TypeInv, Unissued, NEW c \in Calls, Operate(c)
  PROVE  UNCHANGED <<pended, demoted, crossed>>
  BY OperationsWriteWell DEF Refuse, Write, history

LEMMA CrossedStays == ASSUME TypeInv, Unissued, [Next]_vars PROVE crossed \subseteq crossed'
<1>1. ASSUME NEW c \in Calls, Arrive(c) \/ Start(c) \/ (\E t \in Tables : Load(c, t)) \/ Switch(c)
      PROVE  crossed \subseteq crossed'
  BY <1>1 DEF Arrive, Start, Load, Switch, FindUser, SwitchActivity, SwitchFails, history
<1>2. ASSUME NEW c \in Calls, Settle(c) PROVE crossed \subseteq crossed'
  BY <1>2 DEF Settle, Save, SaveFails
<1>3. ASSUME NEW id \in Expiring, Expire(id) PROVE crossed \subseteq crossed'
  BY <1>3 DEF Expire, history
<1>4. QED
  BY <1>1, <1>2, <1>3, OperationsKeepHistory DEF Next, Step, vars, history

LEMMA ClosedIsStable == ClosedInv /\ [Next]_vars => ClosedInv'
<1> SUFFICES ASSUME ClosedInv, [Next]_vars PROVE ClosedInv'
  OBVIOUS
<1>1. TypeInv /\ Unissued /\ (TypeInv /\ Unissued)'
  BY TypeIsStable, UnissuedIsStable DEF ClosedInv
<1>2. crossed \subseteq crossed'
  BY <1>1, CrossedStays
<1>3. \A x \in Closable : x \notin crossed' => StayClosed(x)'
  BY <1>1, <1>2, StayClosedIsStable DEF ClosedInv
<1>4. "tokens" \notin crossed' => SpentOnce'
  BY <1>1, <1>2, SpentOnceIsStable DEF ClosedInv, Closable
<1>5. QED
  BY <1>1, <1>3, <1>4 DEF ClosedInv

-----------------------------------------------------------------------------
\* Lost updates.

LEMMA SerialIsStable == TypeInv /\ Unissued /\ SerialInv /\ [Next]_vars => SerialInv'
<1> SUFFICES ASSUME TypeInv, Unissued, SerialInv, [Next]_vars PROVE SerialInv'
  OBVIOUS
<1> USE DEF SerialInv, Stages, Serial, Alone, OnUsers, Active, Busy, Phases, Keeps
<1>1. ASSUME NEW c \in Calls, Arrive(c) PROVE SerialInv'
  BY <1>1 DEF Arrive, history
<1>2. ASSUME NEW c \in Calls, Start(c) PROVE SerialInv'
  <2>1. \A d \in Calls \ {c} : ~unserial' => ~Active(d)
    BY <1>2 DEF Start, Free, Foreign, Concurrent, Nothing
  <2>2. QED
    BY <1>2, <2>1 DEF Start
<1>3. ASSUME NEW c \in Calls, NEW t \in Tables, Load(c, t) PROVE SerialInv'
  BY <1>3 DEF Load, history
<1>4. ASSUME NEW c \in Calls, Refuse(c), Loaded(c) PROVE SerialInv'
  BY <1>4 DEF Refuse, Loaded, Nothing, history
<1>5. ASSUME NEW c \in Calls, NEW rows, NEW ex, Loaded(c),
             WritesWell(c, rows, ex), Write(c, rows, ex)
      PROVE  SerialInv'
  BY <1>5 DEF Write, WritesWell, Loaded, Nothing
<1>6. ASSUME NEW c \in Calls, NEW t \in DOMAIN saves[c], Save(c, t) PROVE SerialInv'
  BY <1>6 DEF Save, Over, Answers, Nothing
<1>7. ASSUME NEW c \in Calls, NEW t \in DOMAIN saves[c], SaveFails(c, t) PROVE SerialInv'
  BY <1>7 DEF SaveFails, Over, Nothing
<1>8. ASSUME NEW id \in Expiring, Expire(id) PROVE SerialInv'
  BY <1>8 DEF Expire, history
<1>9. CASE UNCHANGED vars
  BY <1>9 DEF vars, history
<1>10. ASSUME NEW c \in Calls, FindUser(c) PROVE SerialInv'
  <2>1. /\ phase[c] = "queued" /\ phase'[c] \in {"failed", "switching"}
        /\ current'[c] = {"users"}
        /\ ~beside' => ~beside /\ OnUsers(c) = {}
        /\ \A d \in Calls \ {c} : phase'[d] = phase[d] /\ current'[d] = current[d]
        /\ UNCHANGED <<call, seen, saves, crossed, unserial>>
    BY <1>10 DEF FindUser
  <2>2. Stages'
    BY <1>10 DEF FindUser
  <2>3. DOMAIN seen[c] = {} /\ DOMAIN saves[c] = {}
    BY <2>1
  <2>4. ~unserial' => Serial' /\ crossed' \subseteq {"users"}
    BY <2>1, <2>3
  <2>5. ASSUME ~unserial', ~beside' PROVE Alone' /\ crossed' = {}
    <3>1. Alone /\ crossed = {} /\ OnUsers(c) = {}
      BY <2>1, <2>5
    <3>2. \A d \in Calls : phase'[d] = "switching" => d = c
      BY <2>1, <3>1
    <3>3. OnUsers(c)' = OnUsers(c)
      BY <2>1
    <3>4. \A d \in Calls : "users" \in DOMAIN seen'[d] \cup DOMAIN saves'[d] => d # c
      BY <2>1, <2>3
    <3> HIDE DEF OnUsers
    <3>5. QED
      BY <2>1, <3>1, <3>2, <3>3, <3>4
  <2>6. QED
    BY <2>1, <2>2, <2>4, <2>5
<1>11. ASSUME NEW c \in Calls, SwitchActivity(c) PROVE SerialInv'
  BY <1>11 DEF SwitchActivity, Nothing
<1>12. ASSUME NEW c \in Calls, SwitchFails(c) PROVE SerialInv'
  BY <1>12 DEF SwitchFails, history
<1>13. QED
  BY <1>1, <1>2, <1>3, <1>4, <1>5, <1>6, <1>7, <1>8, <1>9, <1>10, <1>11, <1>12,
     OperationsWriteWell DEF Next, Step, Settle, Switch

-----------------------------------------------------------------------------
\* The last superadmin.

\* A table in which one user has another row.
LEMMA OthersAdminister ==
  ASSUME NEW users \in [Users -> UserRows], NEW u \in Users, NEW new,
         \/ ActiveSuperadmins(users) \ {u} # {}
         \/ new = [status |-> "active", role |-> "superadmin"]
         \/ new = [status |-> "pending", role |-> "superadmin"]
  PROVE  Administered([users EXCEPT ![u] = new])
  BY DEF Administered, ActiveSuperadmins, Pending

\* The row of the only active superadmin, when the patch is not refused.
LEMMA PatchedAdministers ==
  ASSUME NEW r, r = [status |-> "active", role |-> "superadmin"], NEW patch, ~Disables(r, patch),
         Patched(r, patch) \in UserRows,
         "status" \in DOMAIN patch => patch.status \in {"active", "pending", "suspended"}
  PROVE  \/ Patched(r, patch) = [status |-> "active", role |-> "superadmin"]
         \/ Patched(r, patch) = [status |-> "pending", role |-> "superadmin"]
<1>1. DOMAIN r = {"status", "role"} /\ r.status = "active" /\ r.role = "superadmin"
  OBVIOUS
<1>2. Patched(r, patch) =
        [f \in {"status", "role"} |-> IF f \in DOMAIN patch THEN patch[f] ELSE r[f]]
  BY <1>1 DEF Patched
<1>3. /\ (Patched(r, patch)).role = "superadmin"
      /\ (Patched(r, patch)).status \in {"active", "pending"}
  BY <1>1, <1>2 DEF Disables
<1>4. QED
  BY <1>3 DEF UserRows

\* Every operation writes a table of users that shows a superadmin, if it has read one.
LEMMA OperationsAdminister ==
  ASSUME TypeInv, NEW c \in Calls, Operate(c),
         "users" \in DOMAIN seen[c] => ActiveSuperadmins(seen[c].users) # {}
  PROVE  Refuse(c) \/ \E rows, ex : /\ Write(c, rows, ex)
                                    /\ "users" \in DOMAIN rows => Administered(rows.users)
<1>0. Loaded(c)
  BY DEF Operate, Login, Register, Refresh, Logout, PatchUser, UpdateProfile, DeleteProfile,
         ForgotPassword, ResetPassword, UpdatePassword, DeleteSession, DeleteOtherSessions
<1>a. "users" \in Reads(call[c].op) => /\ UsersOf(c) \in [Users -> UserRows]
                                       /\ ActiveSuperadmins(UsersOf(c)) # {}
                                       /\ Administered(UsersOf(c))
  BY <1>0, SeenHolds DEF Administered, UsersOf
<1>b. "users" \notin DOMAIN Nothing
  BY DEF Nothing
<1>c. \A users, r : /\ (WithUsers(users, r)).users = users
                    /\ [users |-> users].users = users
  BY DEF WithUsers
<1>d. \A ids : DOMAIN Revoked(c, ids) = Closable
  BY DEF Revoked, Closable
<1>1. CASE Login(c)
  <2>1. "users" \in Reads(call[c].op)
    BY <1>1 DEF Login, Reads
  <2>2. QED
    BY <1>1, <1>a, <1>b, <1>c, <2>1 DEF Login
<1>2. CASE Register(c)
  <2>1. "users" \in Reads(call[c].op)
    BY <1>2 DEF Register, Reads
  <2> DEFINE joined(u) == [UsersOf(c) EXCEPT ![u] = [status |-> "active", role |-> "other"]]
  <2>2. PICK u \in Users : \/ Refuse(c)
                           \/ ~Has(c, u) /\ \E r : Write(c, WithUsers(joined(u), r), {})
    BY <1>2, PatchedIsARow DEF Register, TypeInv
  <2>3. ~Has(c, u) => ActiveSuperadmins(UsersOf(c)) \ {u} # {}
    BY <1>a, <2>1 DEF ActiveSuperadmins, Has, Absent
  <2>4. ~Has(c, u) => Administered(joined(u))
    BY <1>a, <2>1, <2>3, OthersAdminister
  <2> HIDE DEF joined
  <2>5. QED
    BY <1>c, <2>2, <2>4
<1>3. CASE Refresh(c)
  <2>1. \A u, s, k : DOMAIN Issue(c, u, s, k) = Closable
    BY DEF Issue, Closable
  <2>2. QED
    BY <1>3, <2>1 DEF Refresh, Closable
<1>4. CASE Logout(c)
  BY <1>4 DEF Logout
<1>5. CASE PatchUser(c)
  <2> DEFINE u == call[c].on
             patch == call[c].patch
             new == Patched(UsersOf(c)[u], patch)
             users == [UsersOf(c) EXCEPT ![u] = new]
  <2>1. /\ "users" \in Reads(call[c].op) /\ u \in Users
        /\ "status" \in DOMAIN patch => patch.status \in {"active", "pending", "suspended"}
        /\ \A r \in UserRows : Patched(r, patch) \in UserRows
    BY <1>5, RequestsAreWellFormed, PatchedIsARow DEF PatchUser, Reads, TypeInv
  <2>2. SUFFICES ASSUME Write(c, [users |-> users], {}), ~LastOne(c, u, patch)
                 PROVE  Administered(users)
    BY <1>5, <1>c DEF PatchUser
  <2>3. ASSUME ActiveSuperadmins(UsersOf(c)) \ {u} = {}
        PROVE  \/ new = [status |-> "active", role |-> "superadmin"]
               \/ new = [status |-> "pending", role |-> "superadmin"]
    <3>1. /\ ActiveSuperadmins(UsersOf(c)) = {u}
          /\ UsersOf(c)[u] = [status |-> "active", role |-> "superadmin"]
      BY <1>a, <2>1, <2>3 DEF ActiveSuperadmins
    <3>2. Cardinality(ActiveSuperadmins(UsersOf(c))) = 1
      BY <3>1, FS_Singleton
    <3>3. ~Disables(UsersOf(c)[u], patch)
      BY <2>2, <3>2 DEF LastOne
    <3>4. new \in UserRows
      BY <1>a, <2>1
    <3> HIDE DEF patch
    <3>5. QED
      BY <2>1, <3>1, <3>3, <3>4, PatchedAdministers
  <2> HIDE DEF new, patch
  <2>4. QED
    BY <1>a, <2>1, <2>3, OthersAdminister
<1>6. CASE UpdateProfile(c)
  <2>1. "users" \in Reads(call[c].op)
    BY <1>6 DEF UpdateProfile, Reads
  <2>2. QED
    BY <1>6, <1>a, <1>c, <2>1 DEF UpdateProfile
<1>7. CASE DeleteProfile(c)
  <2> DEFINE u == call[c].user
             users == [UsersOf(c) EXCEPT ![u] = Absent]
             alone == /\ UsersOf(c)[u].role = "superadmin"
                      /\ ActiveSuperadmins(UsersOf(c)) \ {u} = {}
  <2>1. "users" \in Reads(call[c].op)
    BY <1>7 DEF DeleteProfile, Reads, Tables
  <2>2. PICK s, k, d : \/ Refuse(c)
                       \/ /\ Write(c, [users |-> users, sessions |-> s, tokens |-> k,
                                        codes |-> d], {})
                          /\ ~alone
    BY <1>7 DEF DeleteProfile
  <2>3. ASSUME ~alone PROVE Administered(users)
    <3>1. ActiveSuperadmins(UsersOf(c)) \ {u} # {}
      BY <1>a, <2>1, <2>3 DEF ActiveSuperadmins
    <3>2. CASE u \in Users
      BY <1>a, <2>1, <3>1, <3>2, OthersAdminister
    <3>3. CASE u \notin Users
      BY <1>a, <2>1, <3>3 DEF Administered, ActiveSuperadmins
    <3>4. QED
      BY <3>2, <3>3
  <2> HIDE DEF users
  <2>4. QED
    BY <2>2, <2>3
<1>8. CASE ForgotPassword(c)
  BY <1>8, <1>b DEF ForgotPassword
<1>9. CASE ResetPassword(c)
  <2>1. "users" \in Reads(call[c].op)
    BY <1>9 DEF ResetPassword, Reads, Tables
  <2>2. PICK s, k, d : \/ Refuse(c)
                       \/ \E left : Write(c, [codes |-> left], {})
                       \/ Write(c, [users |-> UsersOf(c), codes |-> d,
                                    sessions |-> s, tokens |-> k], {})
    BY <1>9 DEF ResetPassword
  <2>3. CASE \E left : Write(c, [codes |-> left], {})
    <3>1. \A left : "users" \notin DOMAIN [codes |-> left]
      OBVIOUS
    <3>2. QED
      BY <2>3, <3>1
  <2> DEFINE rows == [users |-> UsersOf(c), codes |-> d, sessions |-> s, tokens |-> k]
  <2>4. rows.users = UsersOf(c)
    OBVIOUS
  <2> HIDE DEF rows
  <2>5. CASE Write(c, rows, {})
    BY <1>a, <2>1, <2>4, <2>5
  <2>6. QED
    BY <2>2, <2>3, <2>5 DEF rows
<1>10. CASE UpdatePassword(c)
  <2>1. "users" \in Reads(call[c].op)
    BY <1>10 DEF UpdatePassword, Reads
  <2>2. QED
    BY <1>10, <1>a, <1>b, <1>c, <2>1 DEF UpdatePassword
<1>11. CASE DeleteSession(c)
  BY <1>11, <1>d DEF DeleteSession, Closable
<1>12. CASE DeleteOtherSessions(c)
  BY <1>12, <1>d DEF DeleteOtherSessions, Closable
<1>13. QED
  BY <1>1, <1>2, <1>3, <1>4, <1>5, <1>6, <1>7, <1>8, <1>9, <1>10, <1>11, <1>12 DEF Operate

LEMMA AdminIsStable ==
  ASSUME TypeInv, Unissued, AdminInv, [Next]_vars
  PROVE  AdminInv'
<1>a. /\ DOMAIN seen = Calls /\ DOMAIN saves = Calls /\ DOMAIN db = Tables
      /\ "users" \in Tables /\ db.users \in [Users -> UserRows]
      /\ \A c \in Calls : "users" \in DOMAIN saves[c] => saves[c].users \in [Users -> UserRows]
  BY DEF TypeInv, TypeOK, Stages, Tables, Holds
<1> USE <1>a
<1>b. ASSUME UNCHANGED <<db, saves, pended, demoted>>,
             \A d \in Calls : seen'[d] = seen[d] \/ DOMAIN seen'[d] = {}
      PROVE  AdminInv'
  BY <1>b DEF AdminInv
<1>1. ASSUME NEW c \in Calls, Arrive(c) PROVE AdminInv'
  BY <1>1, <1>b DEF Arrive, history, AdminInv
<1>2. ASSUME NEW c \in Calls, Start(c) PROVE AdminInv'
  BY <1>2, <1>b DEF Start, AdminInv
<1>3. ASSUME NEW c \in Calls, NEW t \in Tables, Load(c, t) PROVE AdminInv'
  <2>1. /\ UNCHANGED <<db, saves, pended, demoted>>
        /\ \A d \in Calls : "users" \in DOMAIN seen'[d] =>
             seen'[d].users = db.users \/ /\ "users" \in DOMAIN seen[d]
                                          /\ seen'[d].users = seen[d].users
    BY <1>3 DEF Load, history
  <2>2. QED
    BY <2>1 DEF AdminInv
<1>4. ASSUME NEW c \in Calls, Refuse(c) PROVE AdminInv'
  <2>1. /\ UNCHANGED <<db, saves, pended, demoted>>
        /\ \A d \in Calls : seen'[d] = seen[d] \/ DOMAIN seen'[d] = {}
    BY <1>4 DEF Refuse, history, Nothing
  <2>2. QED
    BY <2>1 DEF AdminInv
<1>5. ASSUME NEW c \in Calls, NEW rows, NEW ex, Write(c, rows, ex),
             ~pended /\ ~demoted => ("users" \in DOMAIN rows => Administered(rows.users))
      PROVE  AdminInv'
  <2>1. /\ UNCHANGED <<db, pended, demoted>>
        /\ \A d \in Calls : seen'[d] = seen[d] \/ DOMAIN seen'[d] = {}
        /\ \A d \in Calls \ {c} : saves'[d] = saves[d]
        /\ "users" \in DOMAIN saves'[c] => "users" \in DOMAIN rows /\ saves'[c].users = rows.users
    BY <1>5 DEF Write, Nothing
  <2>2. QED
    BY <1>5, <2>1 DEF AdminInv
<1>6. ASSUME NEW c \in Calls, NEW t \in DOMAIN saves[c], Save(c, t), ~pended', ~demoted' PROVE AdminInv'
  <2>1. /\ ~pended /\ ~demoted /\ UNCHANGED seen
        /\ \A d \in Calls : "users" \in DOMAIN saves'[d] => /\ "users" \in DOMAIN saves[d]
                                                            /\ saves'[d].users = saves[d].users
    BY <1>6 DEF Save, Over
  <2>2. ActiveSuperadmins(db'.users) # {}
    <3>1. CASE t # "users"
      BY <1>6, <2>1, <3>1 DEF Save, AdminInv
    <3>2. CASE t = "users"
      <4>1. Administered(saves[c].users) /\ Pending(saves[c].users) = {}
        BY <1>6, <2>1, <3>2 DEF Save, AdminInv
      <4>2. PICK u \in Users : saves[c].users[u] = [status |-> "active", role |-> "superadmin"]
        BY <4>1 DEF Administered, ActiveSuperadmins
      <4>3. db'.users = saves[c].users \/ db'.users = Both("users", db.users, saves[c].users)
        BY <1>6, <3>2 DEF Save
      <4>4. db'.users[u] = [status |-> "active", role |-> "superadmin"]
        BY <4>2, <4>3 DEF Both, Absent
      <4>5. QED
        BY <4>4 DEF ActiveSuperadmins
    <3>3. QED
      BY <3>1, <3>2
  <2>3. QED
    BY <2>1, <2>2 DEF AdminInv
<1>7. ASSUME NEW c \in Calls, NEW t \in DOMAIN saves[c], SaveFails(c, t) PROVE AdminInv'
  <2>1. /\ UNCHANGED <<db, seen, pended, demoted>>
        /\ \A d \in Calls : "users" \in DOMAIN saves'[d] => /\ "users" \in DOMAIN saves[d]
                                                            /\ saves'[d].users = saves[d].users
    BY <1>7 DEF SaveFails, Over
  <2>2. QED
    BY <2>1 DEF AdminInv
<1>8. ASSUME NEW id \in Expiring, Expire(id) PROVE AdminInv'
  BY <1>8, <1>b DEF Expire, history, AdminInv
<1>9. CASE UNCHANGED vars
  BY <1>9, <1>b DEF vars, history, AdminInv
<1>10. ASSUME NEW c \in Calls, Operate(c) PROVE AdminInv'
  <2>1. ~pended /\ ~demoted
          => ("users" \in DOMAIN seen[c] => ActiveSuperadmins(seen[c].users) # {})
    BY DEF AdminInv
  <2>2. CASE pended \/ demoted
    BY <1>10, <2>2, OperationsKeepHistory DEF AdminInv
  <2>3. CASE ~(pended \/ demoted)
    BY <1>4, <1>5, <1>10, <2>1, <2>3, OperationsAdminister
  <2>4. QED
    BY <2>2, <2>3
<1>11. ASSUME NEW c \in Calls, Switch(c) PROVE AdminInv'
  <2>1. CASE FindUser(c) \/ SwitchFails(c)
    BY <1>b, <2>1 DEF FindUser, SwitchFails, history
  <2>2. ASSUME SwitchActivity(c), ~demoted' PROVE AdminInv'
    <3> DEFINE u == call[c].user
               new == [userRow[c] EXCEPT !.role = "other"]
    <3>1. /\ ~demoted /\ db.users[u].role # "superadmin"
          /\ db' = [db EXCEPT !.users = [@ EXCEPT ![u] = new]]
          /\ UNCHANGED <<seen, saves, pended>>
      BY <2>2 DEF SwitchActivity
    <3> HIDE DEF new
    <3>2. \A v \in Users \ {u} : db'.users[v] = db.users[v]
      BY <3>1
    <3>3. \A v \in ActiveSuperadmins(db.users) : v # u
      BY <3>1 DEF ActiveSuperadmins
    <3>4. ActiveSuperadmins(db.users) \subseteq ActiveSuperadmins(db'.users)
      BY <3>2, <3>3 DEF ActiveSuperadmins
    <3>5. QED
      BY <3>1, <3>4 DEF AdminInv
  <2>3. QED
    BY <1>11, <2>1, <2>2 DEF Switch, AdminInv
<1>12. QED
  BY <1>1, <1>2, <1>3, <1>6, <1>7, <1>8, <1>9, <1>10, <1>11
     DEF Next, Step, Settle, AdminInv

-----------------------------------------------------------------------------
\* The theorems.

LEMMA InitClosed == Init => ClosedInv /\ SerialInv
<1> SUFFICES ASSUME Init PROVE ClosedInv /\ SerialInv
  OBVIOUS
<1>1. /\ DOMAIN db = Tables /\ db.users \in [Users -> UserRows]
      /\ userRow \in [Calls -> UserRows]
      /\ db.sessions = First /\ db.codes = {} /\ db.audit = {}
      /\ db.tokens = {Token(r.id, r.user) : r \in First}
  BY DEF Init, Tables, UserRows, Statuses, Roles, Absent
<1>2. First \subseteq SessionRows /\ db.tokens \subseteq TokenRows
  <2>1. Ids(First) \subseteq SessionIds
    BY DEF SessionIds
  <2>2. First \subseteq SessionRows
    BY <2>1, FirstSessions DEF SessionRows
  <2>3. db.tokens \subseteq TokenRows
    BY <1>1, <2>2 DEF SessionRows, TokenRows, Token
  <2>4. QED
    BY <2>2, <2>3
<1>3. TypeInv
  BY <1>1, <1>2 DEF Init, TypeInv, TypeOK, Stages, Holds, Tables, Phases, Nothing, NoneClosed,
                    Closable
<1>4. \A c \in Calls : c \notin Ids(db.sessions) /\ c \notin Ids(db.tokens)
  <2>1. \A c \in Calls : c \notin Ids(First)
    BY FirstSessions DEF Ids
  <2>2. \A k \in db.tokens : k.id \in Ids(First)
    BY <1>1 DEF Ids, Token
  <2>3. Ids(db.tokens) \subseteq Ids(First)
    BY <2>2 DEF Ids
  <2>4. QED
    BY <1>1, <2>1, <2>3
<1>5. Unissued
  <2>1. /\ \A c \in Calls : DOMAIN seen[c] = {} /\ DOMAIN saves[c] = {}
        /\ \A c \in Calls : closing[c] = NoneClosed
        /\ ended = NoneClosed
    BY DEF Init, Nothing
  <2>2. \A x \in Closable : NoneClosed[x] = {}
    BY DEF NoneClosed, Closable
  <2>3. \A c \in Calls, x \in Closable : c \notin Ids(db[x])
    BY <1>4 DEF Closable
  <2>4. QED
    BY <2>1, <2>2, <2>3 DEF Unissued, Unknown
<1>6. /\ \A x \in Closable : Gone(x) = {}
      /\ \A x \in Closable : StayClosed(x)
  <2>1. \A x \in Closable : Gone(x) = {}
    BY DEF Init, Gone, NoneClosed, Closable
  <2>2. QED
    BY <2>1 DEF Init, StayClosed, Nothing
<1>7. SpentOnce
  BY DEF Init, SpentOnce, Spent
<1>8. SerialInv
  BY DEF Init, SerialInv, Stages, Serial, Alone, Active, Busy, Phases, Nothing
<1>9. QED
  BY <1>3, <1>5, <1>6, <1>7, <1>8 DEF ClosedInv

\* What a step needs of the states before it holds of all of them.
THEOREM ClosedIsInvariant == Spec => []ClosedInv
  BY InitClosed, ClosedIsStable, PTL DEF Spec

\* The tables, what the calls have read of them and what they will write have their
\* types, and a session that a call issues bears a name that is in use nowhere else.
THEOREM TypeCorrect == Spec => []TypeOK
<1>1. ClosedInv => TypeOK
  BY DEF ClosedInv, TypeInv
<1>2. QED
  BY <1>1, ClosedIsInvariant, PTL

\* What a call has answered to be closed stays closed for every call after it, sessions
\* and tokens each as long as their table is not written over a write that was not read.
THEOREM RevokedStays == Spec => []RevokedStaysRevoked
<1>1. ClosedInv => RevokedStaysRevoked
  BY GoneIs DEF ClosedInv, StayClosed, RevokedStaysRevoked, Closable, Gone
<1>2. QED
  BY <1>1, ClosedIsInvariant, PTL

\* One refresh token gives one session, as long as the table of tokens is not written over
\* a write that was not read.
THEOREM TokensAreExchangedOnce == Spec => []ExchangedOnce
<1>1. ClosedInv => ExchangedOnce
  BY DEF ClosedInv, SpentOnce, Spent, ExchangedOnce, TypeInv, Stages
<1>2. QED
  BY <1>1, ClosedIsInvariant, PTL

\* As long as there is a superadmin at first there is one at the end, however many
\* processes suspend, promote, demote and delete them, unless one was set to "pending" or
\* a switch of activity took the role away.
THEOREM ASuperadminRemains ==
  ASSUME Superadmins # {}
  PROVE  Spec => []LastSuperadminIsKept
<1>1. Init => AdminInv
  BY DEF Init, AdminInv, ActiveSuperadmins, Nothing
<1>2. ClosedInv /\ AdminInv /\ [Next]_vars => AdminInv'
  BY AdminIsStable DEF ClosedInv
<1>3. AdminInv => LastSuperadminIsKept
  BY DEF AdminInv, LastSuperadminIsKept
<1>4. QED
  BY <1>1, <1>2, <1>3, ClosedIsInvariant, PTL DEF Spec

\* The promise queue of one process is as good as a lock for sessions, tokens and codes:
\* they are written over a write that was not read only if processes overlapped, or a
\* failed call still wrote.  The users are also when a switch of activity, which the
\* queue does not hold back, ran beside another call on them.
THEOREM LostUpdatesAreExplained == Spec => []LostUpdateIsExplained
<1>1. ClosedInv /\ SerialInv /\ [Next]_vars => SerialInv'
  BY SerialIsStable DEF ClosedInv
<1>2. SerialInv => LostUpdateIsExplained
  BY DEF SerialInv, LostUpdateIsExplained
<1>3. QED
  BY <1>1, <1>2, InitClosed, ClosedIsInvariant, PTL DEF Spec
=============================================================================
