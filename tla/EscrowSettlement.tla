-------------------------- MODULE EscrowSettlement --------------------------
(***************************************************************************)
(* An administrator releases an escrow to its provider or refunds it to    *)
(* its client: adminUpdateEscrowStatus of payment-commands.service.ts with *)
(* applyEscrowUpdateSideEffects.  The status of the escrow lives in the    *)
(* store of the process, in AppRow and in EscrowCase.  A call checks the   *)
(* transition on the store, patches the store, pays (one transaction with  *)
(* markEscrowReleased or markEscrowRefunded), writes EscrowCase            *)
(* unconditionally (syncEscrowCase) and last persists the rows.  Calls     *)
(* interleave at every await, the store is reloaded from AppRow, a step    *)
(* can fail, the process can end, and a boot rebuilds EscrowCase.          *)
(***************************************************************************)
EXTENDS Naturals, FiniteSets

CONSTANTS Calls,        \* calls of administrators for one escrow
          Target,       \* [Calls -> {"released", "refunded"}]
          MaxCrashes,   \* bound: how often the process ends
          NoSnapshot    \* "no reload in progress"

Settled == {"released", "refunded"}

ASSUME CallsAreWellFormed == Target \in [Calls -> Settled] /\ MaxCrashes \in Nat

Claimable == {"funded", "assigned", "in_progress", "delivery_review"}
Statuses  == {"awaiting_funding"} \cup Claimable \cup Settled

ASSUME NoSnapshotIsNoStatus == NoSnapshot \notin Statuses \cup {"missing"}

VARIABLES
    funded,     \* the escrow has a funded_at: it holds the client's money
    provider,   \* it names the user to pay
    db,         \* EscrowCase.status, or "missing"
    source,     \* EscrowCase.source
    app,        \* status in AppRow
    memory,     \* status in the store
    snapshot,   \* status the reload in progress has read, or NoSnapshot
    paid,       \* SUBSET Settled, the completed operations escrow_release:ID, escrow_refund:ID
    phase,      \* [Calls -> Phases]
    crashes,    \* 0..MaxCrashes
    up,         \* the process serves requests
    skipped,    \* history: a call found its target in the store, yet unpaid
    unguarded,  \* history: a payment found no EscrowCase to check
    rebuilt     \* history: a boot took EscrowCase back to an earlier status

escrow == <<funded, provider>>
history == <<skipped, unguarded, rebuilt>>
vars == <<escrow, db, source, app, memory, snapshot, paid, phase, crashes, up, history>>

Phases == {"idle", "paying", "syncing", "persisting", "done", "failed"}
Running(a) == phase[a] \in {"paying", "syncing", "persisting"}

-----------------------------------------------------------------------------

\* ESCROW_STATE_GRAPH and assertFinanceTransition; a status may be set again.
Successors == [awaiting_funding |-> {"funded", "refunded"},
               funded           |-> {"assigned", "released", "refunded"},
               assigned         |-> {"in_progress", "released", "refunded"},
               in_progress      |-> {"delivery_review", "released", "refunded"},
               delivery_review  |-> {"released", "refunded"},
               released         |-> {},
               refunded         |-> {}]
Allowed(from, to) == to = from \/ to \in Successors[from]

\* What a change of status pays: a release its provider, a refund the money held.
Owes(from, to) == /\ from # to
                  /\ to = "released" => provider
                  /\ to = "refunded" => funded \/ from \in Claimable

Move(a, next) == phase' = [phase EXCEPT ![a] = next]

Init ==
    /\ app \in {"awaiting_funding", "delivery_review"}
    /\ funded = (app # "awaiting_funding")
    /\ provider \in BOOLEAN
    /\ memory = app
    /\ db \in {app, "missing"}
    /\ source \in {"app_row", "native"}
    /\ snapshot = NoSnapshot
    /\ paid = {}
    /\ phase = [a \in Calls |-> "idle"]
    /\ crashes = 0 /\ up = TRUE
    /\ skipped = FALSE /\ unguarded = FALSE /\ rebuilt = FALSE

\* Up to the first await: check and patch the store.  A failed call is made again.
Start(a) ==
    /\ up /\ phase[a] \in {"idle", "failed"}
    /\ Allowed(memory, Target[a])
    /\ memory' = Target[a]
    /\ Move(a, IF Owes(memory, Target[a]) THEN "paying" ELSE "syncing")
    /\ skipped' = (skipped \/ (memory = Target[a] /\ Target[a] \notin paid /\ funded))
    /\ UNCHANGED <<escrow, db, source, app, snapshot, paid, crashes, up, unguarded, rebuilt>>

\* "Transition ... interdite pour escrow."
Refuse(a) ==
    /\ up /\ phase[a] \in {"idle", "failed"}
    /\ ~Allowed(memory, Target[a])
    /\ Move(a, "done")
    /\ UNCHANGED <<escrow, db, source, app, memory, snapshot, paid, crashes, up, history>>

\* The status guard of markEscrowReleased and markEscrowRefunded.
Accepts_Any(a) == TRUE   \* Mutant: "status in" is dropped.
Accepts(a) == db \in {"missing", Target[a]} \cup Claimable

\* releaseEscrow or refund: the operation of this escrow is completed already, or it
\* moves the money and the case together.
Pay(a) ==
    /\ phase[a] = "paying"
    /\ Target[a] \in paid \/ Accepts(a)
    /\ paid' = paid \cup {Target[a]}
    /\ db' = IF Target[a] \in paid \/ db = "missing" THEN db ELSE Target[a]
    /\ unguarded' = (unguarded \/ (Target[a] \notin paid /\ db = "missing"))
    /\ Move(a, "syncing")
    /\ UNCHANGED <<escrow, source, app, memory, snapshot, crashes, up, skipped, rebuilt>>

\* Mutant: the failure of the payment is swallowed.
PayFails_Swallowed(a) ==
    /\ phase[a] = "paying"
    /\ Move(a, "syncing")
    /\ UNCHANGED <<escrow, db, source, app, memory, snapshot, paid, crashes, up, history>>

\* "Le sequestre a deja ete traite", a wallet conflict ("Reessayez."), a time limit:
\* nothing is committed, the store keeps the target status.
PayFails(a) ==
    /\ phase[a] = "paying"
    /\ Move(a, "failed")
    /\ UNCHANGED <<escrow, db, source, app, memory, snapshot, paid, crashes, up, history>>

\* syncEscrowCase upserts the status, then the store takes the row it returns.
Sync(a) ==
    /\ phase[a] = "syncing"
    /\ db' = Target[a]
    /\ source' = IF db = "missing" THEN "native" ELSE source
    /\ memory' = Target[a]
    /\ Move(a, "persisting")
    /\ UNCHANGED <<escrow, app, snapshot, paid, crashes, up, history>>

\* persistRows: AppRow and EscrowCase take the row collected with the sync.
Persist(a) ==
    /\ phase[a] = "persisting"
    /\ app' = Target[a] /\ db' = Target[a]
    /\ Move(a, "done")
    /\ UNCHANGED <<escrow, source, memory, snapshot, paid, crashes, up, history>>

\* A write after the payment fails.
WriteFails(a) ==
    /\ phase[a] \in {"syncing", "persisting"}
    /\ Move(a, "failed")
    /\ UNCHANGED <<escrow, db, source, app, memory, snapshot, paid, crashes, up, history>>

\* syncAppStoreFromDatabase: the read of AppRow and, later, the reset of the store.
ReadAppRows ==
    /\ up /\ snapshot = NoSnapshot
    /\ snapshot' = app
    /\ UNCHANGED <<escrow, db, source, app, memory, paid, phase, crashes, up, history>>

ResetStore ==
    /\ snapshot # NoSnapshot
    /\ memory' = snapshot
    /\ snapshot' = NoSnapshot
    /\ UNCHANGED <<escrow, db, source, app, paid, phase, crashes, up, history>>

Crash ==
    /\ up /\ crashes < MaxCrashes
    /\ crashes' = crashes + 1
    /\ up' = FALSE
    /\ snapshot' = NoSnapshot
    /\ phase' = [a \in Calls |-> IF Running(a) THEN "failed" ELSE phase[a]]
    /\ UNCHANGED <<escrow, db, source, app, memory, paid, history>>

\* The snapshot sync rebuilds the cases that came from AppRow and creates the missing
\* ones (or fails and is skipped); then the store is loaded.
Boot ==
    /\ ~up
    /\ up' = TRUE
    /\ memory' = app
    /\ \/ UNCHANGED <<db, source, rebuilt>>
       \/ /\ source = "app_row" \/ db = "missing"
          /\ db' = app
          /\ source' = "app_row"
          /\ rebuilt' = (rebuilt \/ (db \in Settled /\ db' # db))
    /\ UNCHANGED <<escrow, app, snapshot, paid, phase, crashes, skipped, unguarded>>

Step(a) == Pay(a) \/ PayFails(a) \/ Sync(a) \/ Persist(a) \/ WriteFails(a)

Next == \/ \E a \in Calls : Start(a) \/ Refuse(a) \/ Step(a)
        \/ ReadAppRows \/ ResetStore \/ Crash \/ Boot

Spec == Init /\ [][Next]_vars

-----------------------------------------------------------------------------

\* Type invariant.
TypeOK ==
    /\ {funded, provider} \subseteq BOOLEAN
    /\ db \in Statuses \cup {"missing"}
    /\ source \in {"app_row", "native"}
    /\ app \in Statuses /\ memory \in Statuses
    /\ snapshot \in Statuses \cup {NoSnapshot}
    /\ paid \in SUBSET Settled
    /\ phase \in [Calls -> Phases]
    /\ crashes \in 0..MaxCrashes
    /\ {up, skipped, unguarded, rebuilt} \subseteq BOOLEAN

\* Money leaves an escrow once: whatever calls, reloads and failures interleave, the
\* provider is paid or the client is refunded, never both, as long as EscrowCase had a
\* row to check and nothing overwrote its status unpaid: a boot that rebuilds it, or a
\* call that skipped its payment.
OneSidePaid == ~unguarded /\ ~rebuilt /\ ~skipped => Cardinality(paid) <= 1

\* What a settlement in AppRow pays: a provider it names, a client who funded it.
Payable(side) == funded /\ (side = "released" => provider)

\* An escrow is recorded as settled only when that side was paid, unless a call found
\* in the store the status that an earlier one had put there without paying.
SettledIsPaid == ~skipped /\ app \in Settled /\ Payable(app) => app \in paid

\* The status guard of the payments "is what protects against double release / double
\* payout" (wallet.state-transitions.spec.ts): an escrow that has its EscrowCase row
\* pays one side at most.
EscrowPaysOneSide == ~unguarded => Cardinality(paid) <= 1
=============================================================================
