---------------------------- MODULE AuthSession ----------------------------
(***************************************************************************)
(* The accounts, sessions and refresh tokens of AuthService, each table a  *)
(* whole that every mutation loads, changes in memory and writes back:     *)
(* saveRows deletes the table and creates the rows it was given, table by  *)
(* table, each in its own transaction.  A promise queue runs one mutation  *)
(* of a process after the other; the next one starts when the operation    *)
(* settles, which the first failing save brings about while the others are *)
(* still on their way.  Another process has a queue of its own.            *)
(* AuthActivityService writes the row of one user without that queue.      *)
(* Revoked rows are left out of the tables, as every load leaves them out; *)
(* what a user row holds besides its status and whether its role is        *)
(* superadmin, login counts and attempts at a reset code are left out, and *)
(* so are reads that nothing else follows.                                 *)
(***************************************************************************)
EXTENDS Naturals, FiniteSets

CONSTANTS Calls,        \* requests of clients
          Processes,
          ProcessOf,    \* [Calls -> Processes]
          Users,
          Superadmins,  \* the users with that role at the start
          First,        \* sessions that are open at the start: rows
          Expiring,     \* sessions whose absolute time may pass
          Requests,     \* what the calls may ask for: a set of functions on Calls
          MaxSessions   \* issueSession keeps that many sessions of a user

ASSUME AuthConstants ==
    /\ IsFiniteSet(Calls) /\ IsFiniteSet(Users) /\ IsFiniteSet(First)
    /\ ProcessOf \in [Calls -> Processes]
    /\ Superadmins \subseteq Users
    /\ MaxSessions \in Nat \ {0}

ASSUME RequestsAreWellFormed ==
    \A f \in Requests, c \in Calls :
        /\ f[c].op \in {"login", "register", "forgotPassword", "switchActivity"}
             => f[c].user \in Users
        /\ f[c].op = "patchUser" =>
             /\ f[c].on \in Users
             /\ DOMAIN f[c].patch \subseteq {"status", "role"}
             /\ "status" \in DOMAIN f[c].patch
                  => f[c].patch.status \in {"active", "pending", "suspended"}
             /\ "role" \in DOMAIN f[c].patch => f[c].patch.role \in {"superadmin", "other"}

VARIABLES
    db,         \* the tables
    expired,    \* sessions past their absolute time, while their refresh token lives on
    call,       \* [Calls -> what is asked for]
    phase,      \* [Calls -> Phases]
    seen,       \* [Calls -> the tables that the operation of a call has read]
    current,    \* [Calls -> the tables that nobody has written since the call read them]
    saves,      \* [Calls -> the tables a call has still to write]
    userRow,    \* [Calls -> the user that a switch of activity has read]
    used,       \* history: [Calls -> sessions whose refresh token it has exchanged]
    closing,    \* history: [Calls -> sessions and tokens it finds and does not write back]
    ended,      \* history: sessions and tokens that answered calls have closed
    pended,     \* history: a superadmin was set to "pending"
    demoted,    \* history: a switch of activity took that role away
    crossed,    \* history: the tables a call wrote over a write it had not read
    unserial,   \* history: a call started while another process or a failed call wrote
    beside      \* history: a switch of activity ran beside another call on the users

history == <<used, closing, ended, pended, demoted, crossed, unserial, beside>>
vars == <<db, expired, call, phase, seen, current, saves, userRow, history>>

Tables   == {"users", "sessions", "tokens", "codes", "audit"}
Statuses == {"active", "pending", "suspended", "none"}
Roles    == {"superadmin", "other"}
UserRows == [status : Statuses, role : Roles]
Absent   == [status |-> "none", role |-> "other"]
Phases   == {"idle", "queued", "loading", "saving", "switching", "answered", "failed"}

\* The time, as far as sessions are sorted by it: later after each operation.
Now == Cardinality(First)
       + Cardinality({c \in Calls : phase[c] \in {"saving", "answered", "failed"}})

\* A session issued by a call bears its name.  A row is [id, user, current, at], of a
\* refresh token [id, user]; a reset code is one of its user.
Row(id, u)  == [id |-> id, user |-> u, current |-> TRUE, at |-> Now]
Token(id, u) == [id |-> id, user |-> u]
Ids(rows)   == {r.id : r \in rows}
Nothing     == [t \in {} |-> {}]
NoneClosed  == [sessions |-> {}, tokens |-> {}]

\* The rows of a table without those of some sessions.
Without(rows, ids) == {r \in rows : r.id \notin ids}

ASSUME FirstSessions ==
    First \subseteq [id : Ids(First) \ Calls, user : Users, current : BOOLEAN, at : Nat]

\* Calls that carry a session: attachAuthToRequest looks it up on arrival.
Authenticated == {"patchUser", "updateProfile", "deleteProfile", "updatePassword",
                  "deleteSession", "deleteOtherSessions", "switchActivity"}

\* A call that the queue of its process waits for.
Busy(c) == phase[c] \in {"loading", "saving"}

Init ==
    /\ call \in Requests
    /\ db = [users    |-> [u \in Users |-> [status |-> "active",
                             role |-> IF u \in Superadmins THEN "superadmin" ELSE "other"]],
             sessions |-> First,
             tokens   |-> {Token(r.id, r.user) : r \in First},
             codes    |-> {},
             audit    |-> {}]
    /\ expired = {}
    /\ phase = [c \in Calls |-> "idle"]
    /\ seen = [c \in Calls |-> Nothing]
    /\ current = [c \in Calls |-> {}]
    /\ saves = [c \in Calls |-> Nothing]
    /\ userRow = [c \in Calls |-> Absent]
    /\ used = [c \in Calls |-> {}]
    /\ closing = [c \in Calls |-> NoneClosed]
    /\ ended = NoneClosed
    /\ pended = FALSE /\ demoted = FALSE
    /\ crossed = {} /\ unserial = FALSE /\ beside = FALSE

Keeps == UNCHANGED <<call, expired>>

-----------------------------------------------------------------------------

\* The middleware: a request whose session is revoked or expired is refused, and a
\* switch of activity to administrators.
Arrive(c) ==
    /\ phase[c] = "idle"
    /\ LET known == \E r \in db.sessions : /\ r.id = call[c].with /\ r.id \notin expired
                                           /\ db.users[r.user] # Absent
           refused == \/ call[c].op \in Authenticated /\ ~known
                      \/ /\ call[c].op = "switchActivity"
                         /\ db.users[call[c].user].role = "superadmin"
       IN phase' = [phase EXCEPT ![c] = IF refused THEN "failed" ELSE "queued"]
    /\ UNCHANGED <<db, seen, current, saves, userRow, history>> /\ Keeps

\* Mutant: the queue goes on when the tables are loaded and not when they are saved.
Free_Loaded(p) == \A c \in Calls : ProcessOf[c] = p => phase[c] # "loading"

\* runSerializedMutation: the operation before has settled.
Free(p) == \A c \in Calls : ProcessOf[c] = p => ~Busy(c)

\* Writes that are on their way and that the queue of c does not wait for.
Foreign(c) == \E d \in Calls \ {c} : saves[d] # Nothing
                                     /\ (ProcessOf[d] # ProcessOf[c] \/ phase[d] = "failed")
Concurrent(c) == \E d \in Calls \ {c} : Busy(d) /\ ProcessOf[d] # ProcessOf[c]

\* The tables that what follows depends on.
Reads(op) ==
    CASE op \in {"login", "register", "refresh", "updatePassword"}
             -> {"users", "sessions", "tokens"}
      [] op \in {"logout", "deleteSession", "deleteOtherSessions"} -> {"sessions", "tokens"}
      [] op \in {"patchUser", "updateProfile"} -> {"users"}
      [] op = "forgotPassword" -> {"users", "codes"}
      [] OTHER -> Tables \ {"audit"}

\* Calls other than c that may write a table of users they have read, or are about to read.
OnUsers(c) == {d \in Calls \ {c} : \/ phase[d] = "switching"
                                    \/ /\ Busy(d) \/ saves[d] # Nothing
                                       /\ "users" \in Reads(call[d].op)}

Start(c) ==
    /\ phase[c] = "queued" /\ call[c].op # "switchActivity" /\ Free(ProcessOf[c])
    /\ phase' = [phase EXCEPT ![c] = "loading"]
    /\ unserial' = (unserial \/ Foreign(c) \/ Concurrent(c))
    /\ beside' = (beside \/ /\ "users" \in Reads(call[c].op)
                            /\ \E d \in OnUsers(c) : phase[d] = "switching")
    /\ UNCHANGED <<db, seen, current, saves, userRow, used, closing, ended, pended, demoted,
                   crossed>>
    /\ Keeps

\* loadSnapshot reads the tables side by side; sessions past their time are left out.
Load(c, t) ==
    /\ phase[c] = "loading" /\ t \in Reads(call[c].op) \ DOMAIN seen[c]
    /\ LET rows == IF t = "sessions" THEN Without(db[t], expired) ELSE db[t]
       IN seen' = [seen EXCEPT ![c] = [x \in DOMAIN @ \cup {t} |->
                                       IF x = t THEN rows ELSE @[x]]]
    /\ current' = [current EXCEPT ![c] = @ \cup {t}]
    /\ UNCHANGED <<db, phase, saves, userRow, history>> /\ Keeps

Loaded(c) == phase[c] = "loading" /\ DOMAIN seen[c] = Reads(call[c].op)

\* Promise.all of the saves; the audit log is always among them.
Write(c, rows, exchanged) ==
    /\ saves' = [saves EXCEPT ![c] = [t \in DOMAIN rows \cup {"audit"} |->
                                      IF t = "audit" THEN {} ELSE rows[t]]]
    /\ used' = [used EXCEPT ![c] = exchanged]
    /\ closing' = [closing EXCEPT ![c] = [t \in DOMAIN NoneClosed |->
                       IF t \in DOMAIN rows THEN Ids(seen[c][t]) \ Ids(rows[t]) ELSE {}]]
    /\ phase' = [phase EXCEPT ![c] = "saving"]
    /\ seen' = [seen EXCEPT ![c] = Nothing]
    /\ UNCHANGED <<db, current, userRow, ended, pended, demoted, crossed, unserial, beside>>
    /\ Keeps

\* The operation throws, or has nothing to save.
Refuse(c) ==
    /\ phase' = [phase EXCEPT ![c] = "failed"]
    /\ seen' = [seen EXCEPT ![c] = Nothing]
    /\ UNCHANGED <<db, current, saves, userRow, history>> /\ Keeps

-----------------------------------------------------------------------------

\* What a call finds.
UsersOf(c)    == seen[c].users
SessionsOf(c) == seen[c].sessions
TokensOf(c)   == seen[c].tokens
Has(c, u)     == UsersOf(c)[u] # Absent

\* issueSession on the rows s and the tokens k: the new session is the current one of
\* its user, and those of his with MaxSessions newer ones are revoked with their tokens.
Issue(c, u, s, k) ==
    LET others == {IF r.user = u THEN [r EXCEPT !.current = FALSE] ELSE r : r \in s}
        newer(r) == {q \in s : q.user = u /\ q.at > r.at}
        stale  == {r.id : r \in {q \in s : q.user = u
                                          /\ Cardinality(newer(q)) + 1 >= MaxSessions}}
    IN [sessions |-> {Row(c, u)} \cup Without(others, stale),
        tokens   |-> {Token(c, u)} \cup Without(k, stale)]

\* revokeSessionChain.
Revoked(c, ids) == [sessions |-> Without(SessionsOf(c), ids),
                    tokens   |-> Without(TokensOf(c), ids)]

WithUsers(users, rows) == [t \in DOMAIN rows \cup {"users"} |->
                           IF t = "users" THEN users ELSE rows[t]]

\* A wrong password counts against the user, or finds him locked.
Login(c) ==
    /\ call[c].op = "login" /\ Loaded(c)
    /\ LET u == call[c].user IN
       IF ~Has(c, u) THEN Refuse(c)
       ELSE IF ~call[c].right
       THEN \/ Write(c, [users |-> UsersOf(c)], {})
            \/ Write(c, Nothing, {})
       ELSE IF UsersOf(c)[u].status # "active" THEN Refuse(c)
       ELSE Write(c, WithUsers(UsersOf(c), Issue(c, u, SessionsOf(c), TokensOf(c))), {})

\* A new account; the OAuth callback does the same for an unknown address.
Register(c) ==
    /\ call[c].op = "register" /\ Loaded(c)
    /\ LET u == call[c].user IN
       IF Has(c, u) THEN Refuse(c)
       ELSE Write(c, WithUsers([UsersOf(c) EXCEPT ![u] = [status |-> "active", role |-> "other"]],
                               Issue(c, u, SessionsOf(c), TokensOf(c))), {})

\* Mutant: the token that was presented is not revoked.
Refresh_KeepToken(c) ==
    /\ call[c].op = "refresh" /\ Loaded(c)
    /\ LET id == call[c].with
           row == CHOOSE r \in TokensOf(c) : r.id = id
       IN IF id \notin Ids(TokensOf(c)) \/ ~Has(c, row.user) THEN Refuse(c)
          ELSE Write(c, Issue(c, row.user, Without(SessionsOf(c), {id}), TokensOf(c)), {id})

\* The token of a session is exchanged for a new session, whatever its user's status.
Refresh(c) ==
    /\ call[c].op = "refresh" /\ Loaded(c)
    /\ LET id == call[c].with
           row == CHOOSE r \in TokensOf(c) : r.id = id
           rest == Revoked(c, {id})
       IN IF id \notin Ids(TokensOf(c)) \/ ~Has(c, row.user) THEN Refuse(c)
          ELSE Write(c, Issue(c, row.user, rest.sessions, rest.tokens), {id})

\* The cookies may be there or not: the session lives shorter than its token.
Logout(c) ==
    /\ call[c].op = "logout" /\ Loaded(c)
    /\ LET id == call[c].with IN
       \E cookies \in {{"session", "token"}, {"token"}} :
           Write(c, [sessions |-> Without(SessionsOf(c),
                                         IF "session" \in cookies THEN {id} ELSE {}),
                     tokens   |-> Without(TokensOf(c), {id})], {})

ActiveSuperadmins(users) ==
    {u \in Users : users[u] = [status |-> "active", role |-> "superadmin"]}

\* A row with some of its fields replaced.
Patched(r, patch) == [f \in DOMAIN r |-> IF f \in DOMAIN patch THEN patch[f] ELSE r[f]]

\* disablesSuperadmin: another role, or suspended; another status passes.
Disables(r, patch) ==
    /\ r.role = "superadmin"
    /\ \/ "role" \in DOMAIN patch /\ patch.role # "superadmin"
       \/ "status" \in DOMAIN patch /\ patch.status = "suspended"

\* Mutant: suspended superadmins count.
LastOne_AnyStatus(c, u, patch) ==
    /\ Disables(UsersOf(c)[u], patch)
    /\ Cardinality({v \in Users : UsersOf(c)[v].role = "superadmin"}) <= 1

\* patchUser refuses to disable the last superadmin.
LastOne(c, u, patch) ==
    /\ Disables(UsersOf(c)[u], patch)
    /\ Cardinality(ActiveSuperadmins(UsersOf(c))) <= 1

\* An administrator changes the status or the role of a user, not his own.
PatchUser(c) ==
    /\ call[c].op = "patchUser" /\ Loaded(c)
    /\ LET u == call[c].on
           new == Patched(UsersOf(c)[u], call[c].patch)
       IN IF \/ ~Has(c, u)
             \/ u = call[c].user /\ new # UsersOf(c)[u]
             \/ LastOne(c, u, call[c].patch)
          THEN Refuse(c)
          ELSE Write(c, [users |-> [UsersOf(c) EXCEPT ![u] = new]], {})

\* updateProfile: nothing that matters here changes, and the whole table is written.
UpdateProfile(c) ==
    /\ call[c].op = "updateProfile" /\ Loaded(c)
    /\ IF Has(c, call[c].user) THEN Write(c, [users |-> UsersOf(c)], {}) ELSE Refuse(c)

DeleteProfile(c) ==
    /\ call[c].op = "deleteProfile" /\ Loaded(c)
    /\ LET u == call[c].user IN
       IF \/ ~Has(c, u)
          \/ UsersOf(c)[u].role = "superadmin" /\ ActiveSuperadmins(UsersOf(c)) \ {u} = {}
       THEN Refuse(c)
       ELSE Write(c, [users    |-> [UsersOf(c) EXCEPT ![u] = Absent],
                      sessions |-> {r \in SessionsOf(c) : r.user # u},
                      tokens   |-> {r \in TokensOf(c) : r.user # u},
                      codes    |-> seen[c].codes \ {u}], {})

\* deliverSecurityCode is awaited before the code is saved and may fail; a code that is
\* younger than its cooldown is kept.
ForgotPassword(c) ==
    /\ call[c].op = "forgotPassword" /\ Loaded(c)
    /\ LET u == call[c].user IN
       \/ UsersOf(c)[u].status = "active" /\ Write(c, [codes |-> seen[c].codes \cup {u}], {})
       \/ UsersOf(c)[u].status = "active" /\ u \in seen[c].codes /\ Write(c, Nothing, {})
       \/ Refuse(c)

\* Sessions of u that the call finds, but for one.
Others(c, u, id) == {r.id : r \in {q \in SessionsOf(c) : q.user = u /\ q.id # id}}

\* Too many wrong codes take the code away; a weak password is refused.  A refresh
\* token whose session is past its time has no session to be found with, and stays.
ResetPassword(c) ==
    /\ call[c].op = "resetPassword" /\ Loaded(c)
    /\ LET u == call[c].user
           codes == seen[c].codes
       IN IF ~Has(c, u) \/ u \notin codes THEN Refuse(c)
          ELSE IF ~call[c].right
          THEN \E left \in {codes, codes \ {u}} : Write(c, [codes |-> left], {})
          ELSE LET rest == Revoked(c, Others(c, u, "")) IN
               \/ Refuse(c)
               \/ Write(c, [users |-> UsersOf(c), codes |-> codes \ {u},
                         sessions |-> rest.sessions, tokens |-> rest.tokens], {})

UpdatePassword(c) ==
    /\ call[c].op = "updatePassword" /\ Loaded(c)
    /\ LET u == call[c].user IN
       IF ~Has(c, u) THEN Refuse(c)
       ELSE IF ~call[c].right THEN Write(c, Nothing, {})
       ELSE \/ Refuse(c)
            \/ Write(c, WithUsers(UsersOf(c), Revoked(c, Others(c, u, call[c].with))), {})

\* A session of the user that is not marked as his current one.
NotCurrent(c, u) == {r.id : r \in {q \in SessionsOf(c) : q.user = u /\ ~q.current}}

DeleteSession(c) ==
    /\ call[c].op = "deleteSession" /\ Loaded(c)
    /\ IF call[c].on \in NotCurrent(c, call[c].user)
       THEN Write(c, Revoked(c, {call[c].on}), {})
       ELSE Refuse(c)

DeleteOtherSessions(c) ==
    /\ call[c].op = "deleteOtherSessions" /\ Loaded(c)
    /\ Write(c, Revoked(c, NotCurrent(c, call[c].user)), {})

Operate(c) ==
    \/ Login(c) \/ Register(c) \/ Refresh(c) \/ Logout(c) \/ PatchUser(c)
    \/ UpdateProfile(c) \/ DeleteProfile(c) \/ ForgotPassword(c) \/ ResetPassword(c)
    \/ UpdatePassword(c) \/ DeleteSession(c) \/ DeleteOtherSessions(c)

-----------------------------------------------------------------------------

\* The rows that two overlapping transactions have both created, when they share none.
Present(t, rows) == CASE t = "users" -> {u \in Users : rows[u] # Absent}
                      [] t \in {"sessions", "tokens"} -> Ids(rows)
                      [] OTHER -> rows
Both(t, old, new) == CASE t = "users" -> [u \in Users |-> IF new[u] # Absent THEN new[u]
                                                         ELSE old[u]]
                       [] OTHER -> new \cup old

\* The superadmins that a table shows as waiting for an approval.
Pending(users) == {u \in Users : users[u] = [status |-> "pending", role |-> "superadmin"]}

\* The save of one table is over, whatever becomes of it: the last one answers.
Over(c, t) ==
    /\ saves' = [saves EXCEPT ![c] = [x \in DOMAIN @ \ {t} |-> @[x]]]
    /\ closing' = [closing EXCEPT ![c] = IF phase'[c] = "saving" THEN @ ELSE NoneClosed]
    /\ UNCHANGED <<seen, userRow, used, demoted, unserial, beside>> /\ Keeps

Answers(c, t) == phase[c] = "saving" /\ DOMAIN saves[c] = {t}

\* Mutant: the rows are created or replaced, those that are gone stay.
Save_Upsert(c, t) ==
    /\ t \in DOMAIN saves[c]
    /\ LET new == saves[c][t] IN
       db' = [db EXCEPT ![t] = IF t = "sessions" THEN new \cup Without(@, Ids(new)) ELSE new]
    /\ current' = [d \in Calls |-> IF d = c THEN current[d] ELSE current[d] \ {t}]
    /\ crossed' = crossed \cup ({t} \ (current[c] \cup {"audit"}))
    /\ pended' = (pended \/ (t = "users" /\ Pending(saves[c][t]) # {}))
    /\ phase' = IF Answers(c, t) THEN [phase EXCEPT ![c] = "answered"] ELSE phase
    /\ ended' = IF Answers(c, t) THEN [x \in DOMAIN ended |-> ended[x] \cup closing[c][x]]
                ELSE ended
    /\ Over(c, t)

\* saveRows commits: the table is what the call makes it, or also holds the rows of a
\* transaction that committed after its deleteMany.
Save(c, t) ==
    /\ t \in DOMAIN saves[c]
    /\ LET new == saves[c][t] IN
       \/ db' = [db EXCEPT ![t] = new]
       \/ /\ t \notin current[c] /\ Present(t, new) \cap Present(t, db[t]) = {}
          /\ db' = [db EXCEPT ![t] = Both(t, @, new)]
    /\ current' = [d \in Calls |-> IF d = c THEN current[d] ELSE current[d] \ {t}]
    /\ crossed' = crossed \cup ({t} \ (current[c] \cup {"audit"}))
    /\ pended' = (pended \/ (t = "users" /\ Pending(saves[c][t]) # {}))
    /\ phase' = IF Answers(c, t) THEN [phase EXCEPT ![c] = "answered"] ELSE phase
    /\ ended' = IF Answers(c, t) THEN [x \in DOMAIN ended |-> ended[x] \cup closing[c][x]]
                ELSE ended
    /\ Over(c, t)

\* Mutant: a save that fails is not reported.
SaveFails_Swallowed(c, t) ==
    /\ t \in DOMAIN saves[c]
    /\ UNCHANGED <<db, phase, current, ended, pended, crossed>>
    /\ Over(c, t)

\* It is rolled back: a lost connection, rows that another transaction has created, the
\* end of the process (which rolls the others back as well).  Promise.all rejects at
\* once and the queue goes on.
SaveFails(c, t) ==
    /\ t \in DOMAIN saves[c]
    /\ phase' = [phase EXCEPT ![c] = "failed"]
    /\ UNCHANGED <<db, current, ended, pended, crossed>>
    /\ Over(c, t)

\* absoluteExpiresAt passes.
Expire(id) ==
    /\ id \in Ids(db.sessions) \ expired
    /\ expired' = expired \cup {id}
    /\ UNCHANGED <<db, call, phase, seen, current, saves, userRow, history>>

-----------------------------------------------------------------------------

\* switchActivity reads the row of its user, outside the queue; the roles are looked up next.
FindUser(c) ==
    /\ phase[c] = "queued" /\ call[c].op = "switchActivity"
    /\ LET found == db.users[call[c].user] IN
       /\ userRow' = [userRow EXCEPT ![c] = found]
       /\ phase' = [phase EXCEPT ![c] = IF found = Absent THEN "failed" ELSE "switching"]
    /\ current' = [current EXCEPT ![c] = {"users"}]
    /\ beside' = (beside \/ OnUsers(c) # {})
    /\ UNCHANGED <<db, seen, saves, used, closing, ended, pended, demoted, crossed, unserial>>
    /\ Keeps

\* Its transaction writes the whole row back, with another role.
SwitchActivity(c) ==
    /\ phase[c] = "switching"
    /\ LET u == call[c].user IN
       /\ db.users[u] # Absent
       /\ db' = [db EXCEPT !.users = [@ EXCEPT ![u] = [userRow[c] EXCEPT !.role = "other"]]]
       /\ demoted' = (demoted \/ db.users[u].role = "superadmin")
    /\ current' = [d \in Calls |-> IF d = c THEN current[d] ELSE current[d] \ {"users"}]
    /\ crossed' = crossed \cup ({"users"} \ current[c])
    /\ phase' = [phase EXCEPT ![c] = "answered"]
    /\ UNCHANGED <<seen, saves, userRow, used, closing, ended, pended, unserial, beside>> /\ Keeps

\* It is rolled back: the row is gone, a lost connection, the end of the process.
SwitchFails(c) ==
    /\ phase[c] = "switching"
    /\ phase' = [phase EXCEPT ![c] = "failed"]
    /\ UNCHANGED <<db, seen, current, saves, userRow, history>> /\ Keeps

Settle(c) == \E t \in DOMAIN saves[c] : Save(c, t) \/ SaveFails(c, t)
Switch(c) == FindUser(c) \/ SwitchActivity(c) \/ SwitchFails(c)
Step(c) == Start(c) \/ (\E t \in Tables : Load(c, t)) \/ Operate(c) \/ Settle(c) \/ Switch(c)

Next ==
    \/ \E c \in Calls : Arrive(c) \/ Step(c)
    \/ \E id \in Expiring : Expire(id)

Spec == Init /\ [][Next]_vars

-----------------------------------------------------------------------------

SessionIds  == Calls \cup Ids(First)
SessionRows == [id : SessionIds, user : Users, current : BOOLEAN, at : Nat]
TokenRows   == [id : SessionIds, user : Users]
Holds(t, rows) == CASE t = "users" -> rows \in [Users -> UserRows]
                    [] t = "sessions" -> rows \subseteq SessionRows
                    [] t = "tokens" -> rows \subseteq TokenRows
                    [] OTHER -> rows \subseteq Users

\* Type invariant; a table holds a session and its token once.
TypeOK ==
    /\ DOMAIN db = Tables /\ \A t \in Tables : Holds(t, db[t])
    /\ phase \in [Calls -> Phases]
    /\ \A c \in Calls :
        /\ DOMAIN seen[c] \cup DOMAIN saves[c] \subseteq Tables
        /\ \A t \in DOMAIN seen[c] : Holds(t, seen[c][t])
        /\ \A t \in DOMAIN saves[c] : Holds(t, saves[c][t])
        /\ phase[c] = "saving" => saves[c] # Nothing
    /\ current \in [Calls -> SUBSET Tables]
    /\ userRow \in [Calls -> UserRows]

\* Sessions, tokens and codes are written over a write that was not read only when calls
\* ran in two processes at once, or after a call whose other saves were still on their way
\* when one of them failed: within one process the queue is as good as a lock.  The users
\* are also when a switch of activity, which no queue holds back, overlapped another
\* switch or a call that had read them: then a suspension can be lost.
LostUpdateIsExplained ==
    /\ crossed \subseteq {"users"} \/ unserial
    /\ crossed = {} \/ unserial \/ beside

\* What a call has answered to be closed stays closed, sessions and refresh tokens: no
\* later login, rotation, logout or change of password brings it back with the rows it
\* writes, unless it wrote that table over a write it had not read.
RevokedStaysRevoked ==
    /\ "sessions" \notin crossed => Ids(db.sessions) \cap ended.sessions = {}
    /\ "tokens" \notin crossed => Ids(db.tokens) \cap ended.tokens = {}

\* "rotation refresh": one refresh token gives one new session, however often and from
\* wherever it is sent, unless the tokens were written over a write that was not read.
ExchangedOnce ==
    "tokens" \notin crossed => \A c, d \in Calls :
        c # d /\ phase[c] = "answered" /\ phase[d] = "answered" => used[c] \cap used[d] = {}

\* The platform keeps an active superadmin ("Impossible de retirer le dernier superadmin
\* actif"): whatever calls suspend, promote and demote superadmins or delete their own
\* accounts, in however many processes, and whatever saves are lost, as each writes a
\* table in which it has counted one; unless one was set to "pending", which patchUser
\* does not count, or a switch of activity that began before a promotion undid it.
LastSuperadminIsKept == ActiveSuperadmins(db.users) # {} \/ pended \/ demoted
=============================================================================
