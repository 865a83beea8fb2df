------------------------------ MODULE AppStore ------------------------------
(***************************************************************************)
(* The store of the process, the AppRow table behind it, and the commands  *)
(* that change both.  A command of the learning, project, marketplace or   *)
(* payment services awaits syncAppStoreFromDatabase, then in one           *)
(* synchronous section checks rows of the store, patches, appends or       *)
(* removes rows and collects copies of them, and last awaits persistRows   *)
(* or deleteRows, which write the copies to AppRow in one transaction,     *)
(* unchecked.  Sections of different commands never overlap, their         *)
(* transactions do, and a reload replaces the store by what it has read    *)
(* while they ran.  The sections are those of the modules that extend this *)
(* one; Next allows any section, so that what holds here holds for all.    *)
(***************************************************************************)
EXTENDS Naturals, FiniteSets

CONSTANTS Calls,        \* commands that clients call
          Rows,         \* rows of all tables, those still to be created included
          Values,       \* what a row may hold
          Absent,       \* "no such row"
          Projected,    \* tables a reload takes from the Project Center projection
          NoSnapshot,   \* "no reload in progress"
          MaxRestarts   \* bound: how often the process ends

ASSUME AbsentIsNoValue == Absent \notin Values
ASSUME ProjectedAreRows == Projected \in SUBSET SUBSET Rows
ASSUME NoSnapshotIsNoTable == NoSnapshot \notin [Rows -> Values \cup {Absent}]
ASSUME RestartsAreBounded == MaxRestarts \in Nat

VARIABLES
    app,        \* AppRow, and the projection that is written with it
    memory,     \* the store of the process
    snapshot,   \* what the reload in progress has read, or NoSnapshot
    unread,     \* tables of the projection it has still to read
    missed,     \* rows with a write it cannot have seen
    batch,      \* [Calls -> the rows collected for the transaction]
    ahead,      \* [Calls -> the commands in flight whose section ran earlier]
    phase,      \* [Calls -> Phases]
    restarts,   \* 0..MaxRestarts
    stale,      \* history: rows a reload put back to an earlier value
    unsaved,    \* history: rows a failed command has left changed in the store
    overtaken   \* history: rows whose writes were committed in another order

disturbed == <<stale, unsaved, overtaken>>
storeVars == <<app, memory, snapshot, unread, missed, batch, ahead, phase, restarts,
               disturbed>>

Tables == [Rows -> Values \cup {Absent}]
NoRows == [r \in {} |-> Absent]

Phases == {"idle", "waiting", "resuming", "persisting", "answered", "failed"}

InFlight == {c \in Calls : phase[c] = "persisting"}
\* Commands in flight that write r.
Pending(r) == {c \in InFlight : r \in DOMAIN batch[c]}

Dirty == stale \cup unsaved \cup overtaken

StoreInit ==
    /\ memory = app
    /\ snapshot = NoSnapshot /\ unread = {} /\ missed = {}
    /\ batch = [c \in Calls |-> NoRows]
    /\ ahead = [c \in Calls |-> {}]
    /\ phase = [c \in Calls |-> "idle"]
    /\ restarts = 0
    /\ stale = {} /\ unsaved = {} /\ overtaken = {}

-----------------------------------------------------------------------------

\* A client calls a command.  When he calls it again, after a failure or not, that is
\* another command.
Ready(c) == phase[c] = "idle"

Move(c, next) == phase' = [phase EXCEPT ![c] = next]

\* The end of a section that leaves the store as next and has collected the rows in
\* written: persistRows has copied them when its first await gives way.
Collect(c, next, written) ==
    /\ memory' = next
    /\ batch' = [batch EXCEPT ![c] = [r \in written |-> next[r]]]
    /\ ahead' = [ahead EXCEPT ![c] = InFlight]
    /\ Move(c, "persisting")
    /\ missed' = IF snapshot = NoSnapshot THEN missed ELSE missed \cup written
    /\ UNCHANGED <<app, snapshot, unread, restarts, disturbed>>

\* A section that throws after it has changed the rows in written.
Throw(c, next, written) ==
    /\ memory' = next
    /\ Move(c, "failed")
    /\ unsaved' = unsaved \cup written
    /\ UNCHANGED <<app, snapshot, unread, missed, batch, ahead, restarts, stale, overtaken>>

\* A section that changes nothing ends at next: it answers, or awaits something else.
Pass(c, next) ==
    /\ Move(c, next)
    /\ UNCHANGED <<app, memory, snapshot, unread, missed, batch, ahead, restarts, disturbed>>

\* An await of a command settles: its section goes on, or it fails.
Settle(c, next) ==
    /\ phase[c] = "waiting"
    /\ Move(c, next)
    /\ UNCHANGED <<app, memory, snapshot, unread, missed, batch, ahead, restarts, disturbed>>

\* Mutant: the transaction that is over keeps its rows.
Leave_KeepRows(c) ==
    /\ ahead' = [d \in Calls |-> IF d = c THEN {} ELSE ahead[d] \ {c}]
    /\ UNCHANGED batch

\* The transaction of c is over: c is ahead of nobody any more.
Leave(c) ==
    /\ batch' = [batch EXCEPT ![c] = NoRows]
    /\ ahead' = [d \in Calls |-> IF d = c THEN {} ELSE ahead[d] \ {c}]

\* Mutant: only the rows AppRow has already are written.
Persist_UpdateOnly(c) ==
    /\ phase[c] = "persisting"
    /\ app' = [r \in Rows |-> IF r \in DOMAIN batch[c] /\ app[r] # Absent
                              THEN batch[c][r] ELSE app[r]]
    /\ overtaken' = overtaken \cup {r \in DOMAIN batch[c] : Pending(r) \cap ahead[c] # {}}
    /\ Leave(c)
    /\ Move(c, "answered")
    /\ UNCHANGED <<memory, snapshot, unread, missed, restarts, stale, unsaved>>

\* persistRows or deleteRows commits and the command answers (or loses its answer: its
\* client may call anything then, as after an answer).
Persist(c) ==
    /\ phase[c] = "persisting"
    /\ app' = [r \in Rows |-> IF r \in DOMAIN batch[c] THEN batch[c][r] ELSE app[r]]
    /\ overtaken' = overtaken \cup {r \in DOMAIN batch[c] : Pending(r) \cap ahead[c] # {}}
    /\ Leave(c)
    /\ Move(c, "answered")
    /\ UNCHANGED <<memory, snapshot, unread, missed, restarts, stale, unsaved>>

\* The transaction is rolled back; nothing takes the rows back from the store.
PersistFails(c) ==
    /\ phase[c] = "persisting"
    /\ unsaved' = unsaved \cup DOMAIN batch[c]
    /\ Leave(c)
    /\ Move(c, "failed")
    /\ UNCHANGED <<app, memory, snapshot, unread, missed, restarts, stale, overtaken>>

\* syncAppStoreFromDatabase, when its 60 s are over or a caller forces it.
ReadAppRows ==
    /\ snapshot = NoSnapshot
    /\ snapshot' = app
    /\ unread' = Projected
    /\ missed' = UNION {DOMAIN batch[c] : c \in InFlight}
    /\ UNCHANGED <<app, memory, batch, ahead, phase, restarts, disturbed>>

\* overlayProjectCenterFromPrisma: one findMany per table, each at its own time.
ReadProjection(table) ==
    /\ table \in unread
    /\ snapshot' = [r \in Rows |-> IF r \in table THEN app[r] ELSE snapshot[r]]
    /\ unread' = unread \ {table}
    /\ missed' = (missed \ table) \cup {r \in table : Pending(r) # {}}
    /\ UNCHANGED <<app, memory, batch, ahead, phase, restarts, disturbed>>

\* resetStore, in the same turn of the event loop as the last answer.
ResetStore ==
    /\ snapshot # NoSnapshot /\ unread = {}
    /\ memory' = snapshot
    /\ stale' = stale \cup missed
    /\ snapshot' = NoSnapshot /\ missed' = {}
    /\ UNCHANGED <<app, unread, batch, ahead, phase, restarts, unsaved, overtaken>>

\* The process ends, its transactions are rolled back, and the next one loads AppRow.
Restart ==
    /\ restarts < MaxRestarts
    /\ restarts' = restarts + 1
    /\ memory' = app
    /\ snapshot' = NoSnapshot /\ unread' = {} /\ missed' = {}
    /\ batch' = [c \in Calls |-> NoRows]
    /\ ahead' = [c \in Calls |-> {}]
    /\ phase' = [c \in Calls |-> IF phase[c] \in {"waiting", "resuming", "persisting"}
                                 THEN "failed" ELSE phase[c]]
    /\ unsaved' = unsaved \cup UNION {DOMAIN batch[c] : c \in InFlight}
    /\ UNCHANGED <<app, stale, overtaken>>

Reload == ReadAppRows \/ (\E table \in unread : ReadProjection(table)) \/ ResetStore
Finish(c) == Persist(c) \/ PersistFails(c)

StoreNext == (\E c \in Calls : Finish(c)) \/ Reload \/ Restart

-----------------------------------------------------------------------------

\* What a section may do, whatever the command: it collects every row it changes.
Changes(written) ==
    /\ written \in SUBSET Rows
    /\ memory' \in Tables
    /\ \A r \in Rows \ written : memory'[r] = memory[r]

Section(c) ==
    /\ Ready(c) \/ phase[c] = "resuming"
    /\ \/ LET written == DOMAIN batch'[c] IN
            Collect(c, memory', written) /\ Changes(written)
       \/ LET written == {r \in Rows : memory'[r] # memory[r]} IN
            Throw(c, memory', written) /\ Changes(written)
       \/ \E next \in {"answered", "waiting"} : Pass(c, next)

Await(c) == \E next \in {"resuming", "failed"} : Settle(c, next)

Init == app \in Tables /\ StoreInit
Next == StoreNext \/ (\E c \in Calls : Section(c) \/ Await(c))

\* What all commands have in common.
StoreSpec == Init /\ [][Next]_storeVars

-----------------------------------------------------------------------------

\* Type invariant.
StoreTypeOK ==
    /\ app \in Tables /\ memory \in Tables
    /\ snapshot \in Tables \cup {NoSnapshot}
    /\ unread \in SUBSET Projected /\ (snapshot = NoSnapshot => unread = {})
    /\ missed \in SUBSET Rows
    /\ DOMAIN batch = Calls
    /\ \A c \in Calls : /\ DOMAIN batch[c] \in SUBSET Rows
                        /\ batch[c] \in [DOMAIN batch[c] -> Values \cup {Absent}]
                        /\ phase[c] # "persisting" => batch[c] = NoRows
    /\ ahead \in [Calls -> SUBSET Calls]
    /\ phase \in [Calls -> Phases]
    /\ restarts \in 0..MaxRestarts
    /\ Dirty \in SUBSET Rows

\* A row of the store and of AppRow differ only while a command in flight is about to
\* write it, or for one of three reasons: a reload that had read AppRow before a write
\* put the row back, a command failed and left it changed in the store, or two
\* transactions were committed in the other order than their sections ran.
StoreAgrees == \A r \in Rows \ Dirty : Pending(r) = {} => memory[r] = app[r]
=============================================================================
