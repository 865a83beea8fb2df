-------------------------- MODULE WalletProjection --------------------------
(***************************************************************************)
(* A wallet lives in three places: the Wallet row of Postgres with its     *)
(* ledger, the AppRow row of Postgres, and the store of the process        *)
(* (data-app-store.ts).  A command of payment-commands.service.ts captures *)
(* the row of the store, runs one transaction on Wallet and the ledger     *)
(* (module WalletLedger), copies the result to the captured row, collects  *)
(* the row of the store and writes that to AppRow and to Wallet in a       *)
(* second transaction (persistRows).  Meanwhile the store is reloaded from *)
(* AppRow, the process ends, and at boot the rows of Wallet that came from *)
(* AppRow are rebuilt from it (platform-snapshot-sync.service.ts).         *)
(*                                                                         *)
(* A balance is modelled as the set of the commands it includes.           *)
(***************************************************************************)
EXTENDS Naturals, FiniteSets

CONSTANTS Commands,     \* calls of topupWallet or withdrawWallet on one wallet,
                        \* each with its idempotency key
          MaxCalls,     \* bound: how often one command is called
          MaxCrashes,   \* bound: how often the process ends
          NoSnapshot    \* "no reload in progress"

ASSUME BoundsAreNatural == MaxCalls \in Nat /\ MaxCrashes \in Nat

VARIABLES
    ledger,      \* commands completed in Postgres, with their ledger entry
    wallet,      \* balance of the Wallet row
    source,      \* Wallet.source
    app,         \* the AppRow rows: [wallet, txns]
    memory,      \* the rows of the store: [wallet, txns]
    snapshot,    \* AppRow as read by the reload in progress, or NoSnapshot
    phase,       \* [Commands -> Phases]
    attached,    \* the commands whose captured row is the one in the store
    result,      \* [Commands -> balance returned by the first transaction]
    batch,       \* [Commands -> balance of the row collected for AppRow]
    calls,       \* [Commands -> 0..MaxCalls]
    crashes,     \* 0..MaxCrashes
    up,          \* the process serves requests
    detached,    \* history: a result was copied to a row no longer in the store
    overlapped,  \* history: a command ran between the two transactions of another
    torn         \* history: a command stopped between its two transactions

stored == <<ledger, wallet, source, app>>
history == <<detached, overlapped, torn>>
vars == <<stored, memory, snapshot, phase, attached, result, batch, calls, crashes,
          up, history>>

Phases == {"idle", "called", "committed", "projected", "answered", "failed"}

Rows == [wallet : SUBSET Commands, txns : SUBSET Commands]
Empty == [wallet |-> {}, txns |-> {}]

\* Commands between their two transactions.
Halfway == {c \in Commands : phase[c] \in {"committed", "projected"}}
InFlight == Halfway \cup {c \in Commands : phase[c] = "called"}

-----------------------------------------------------------------------------

Init ==
    /\ ledger = {} /\ wallet = {}
    /\ source \in {"app_row", "native"}
    /\ app = Empty /\ memory = Empty /\ snapshot = NoSnapshot
    /\ phase = [c \in Commands |-> "idle"]
    /\ attached = {}
    /\ result = [c \in Commands |-> {}]
    /\ batch = [c \in Commands |-> {}]
    /\ calls = [c \in Commands |-> 0]
    /\ crashes = 0 /\ up = TRUE
    /\ detached = FALSE /\ overlapped = FALSE /\ torn = FALSE

\* ensureWalletAccount hands the row of the store to the wallet service.  A client
\* calls again, with the same key, a command that failed or that it saw no answer of.
Call(c) ==
    /\ up
    /\ phase[c] \in {"idle", "failed"}
    /\ calls[c] < MaxCalls
    /\ calls' = [calls EXCEPT ![c] = @ + 1]
    /\ phase' = [phase EXCEPT ![c] = "called"]
    /\ attached' = attached \cup {c}
    /\ UNCHANGED <<stored, memory, snapshot, result, batch, crashes, up, history>>

\* runPrismaFirstOperation; a key already completed reports the wallet as it is now.
RunOperation(c) ==
    /\ phase[c] = "called"
    /\ ledger' = ledger \cup {c}
    /\ wallet' = IF c \in ledger THEN wallet ELSE wallet \cup {c}
    /\ result' = [result EXCEPT ![c] = wallet']
    /\ phase' = [phase EXCEPT ![c] = "committed"]
    /\ overlapped' = (overlapped \/ Halfway # {})
    /\ UNCHANGED <<source, app, memory, snapshot, attached, batch, calls, crashes, up,
                   detached, torn>>

\* Insufficient funds, a lock conflict, a time limit: the first transaction rolls back.
OperationFails(c) ==
    /\ phase[c] = "called"
    /\ phase' = [phase EXCEPT ![c] = "failed"]
    /\ attached' = attached \ {c}
    /\ UNCHANGED <<stored, memory, snapshot, result, batch, calls, crashes, up,
                   history>>

\* Mutant: the captured row is collected before the result is copied to it.
ProjectOperation_CollectFirst(c) ==
    /\ phase[c] = "committed"
    /\ memory' = [wallet |-> IF c \in attached THEN result[c] ELSE memory.wallet,
                  txns   |-> memory.txns \cup {c}]
    /\ batch' = [batch EXCEPT ![c] = memory.wallet]
    /\ phase' = [phase EXCEPT ![c] = "projected"]
    /\ detached' = (detached \/ c \notin attached)
    /\ result' = [result EXCEPT ![c] = {}] /\ attached' = attached \ {c}
    /\ UNCHANGED <<stored, snapshot, calls, crashes, up, overlapped, torn>>

\* projectWalletOperation: the result goes to the captured row, what is collected is
\* the row of that id in the store.
ProjectOperation(c) ==
    /\ phase[c] = "committed"
    /\ memory' = [wallet |-> IF c \in attached THEN result[c] ELSE memory.wallet,
                  txns   |-> memory.txns \cup {c}]
    /\ batch' = [batch EXCEPT ![c] = memory'.wallet]
    /\ phase' = [phase EXCEPT ![c] = "projected"]
    /\ detached' = (detached \/ c \notin attached)
    /\ result' = [result EXCEPT ![c] = {}] /\ attached' = attached \ {c}
    /\ UNCHANGED <<stored, snapshot, calls, crashes, up, overlapped, torn>>

\* Mutant: the rows are written without the transaction of this command.
PersistRows_WalletOnly(c) ==
    /\ phase[c] = "projected"
    /\ app' = [app EXCEPT !.wallet = batch[c]]
    /\ wallet' = batch[c]
    /\ phase' = [phase EXCEPT ![c] = "answered"]
    /\ batch' = [batch EXCEPT ![c] = {}]
    /\ UNCHANGED <<ledger, source, memory, snapshot, attached, result, calls,
                   crashes, up, history>>

\* Mutant: only the normalized tables are written.
PersistRows_NormalizedOnly(c) ==
    /\ phase[c] = "projected"
    /\ app' = [app EXCEPT !.txns = @ \cup {c}]
    /\ wallet' = batch[c]
    /\ phase' = [phase EXCEPT ![c] = "answered"]
    /\ batch' = [batch EXCEPT ![c] = {}]
    /\ UNCHANGED <<ledger, source, memory, snapshot, attached, result, calls,
                   crashes, up, history>>

\* persistRows: AppRow and the balance of Wallet take the collected row, unchecked.
PersistRows(c) ==
    /\ phase[c] = "projected"
    /\ app' = [wallet |-> batch[c], txns |-> app.txns \cup {c}]
    /\ wallet' = batch[c]
    /\ phase' = [phase EXCEPT ![c] = "answered"]
    /\ batch' = [batch EXCEPT ![c] = {}]
    /\ UNCHANGED <<ledger, source, memory, snapshot, attached, result, calls,
                   crashes, up, history>>

\* The second transaction fails; the store keeps the rows it would have written.
PersistFails(c) ==
    /\ phase[c] = "projected"
    /\ phase' = [phase EXCEPT ![c] = "failed"]
    /\ torn' = TRUE
    /\ batch' = [batch EXCEPT ![c] = {}]
    /\ UNCHANGED <<stored, memory, snapshot, attached, result, calls, crashes, up,
                   detached, overlapped>>

\* syncAppStoreFromDatabase, when its 60 s are over or a caller forces it: it reads
\* AppRow, awaits the project overlay, and only then replaces every row of the store.
ReadAppRows ==
    /\ up
    /\ snapshot = NoSnapshot
    /\ snapshot' = app
    /\ UNCHANGED <<stored, memory, phase, attached, result, batch, calls, crashes, up,
                   history>>

\* Mutant: the reload adds rows and leaves those the store has.
ResetStore_KeepRows ==
    /\ snapshot # NoSnapshot
    /\ memory' = [memory EXCEPT !.txns = @ \cup snapshot.txns]
    /\ attached' = {}
    /\ snapshot' = NoSnapshot
    /\ UNCHANGED <<stored, phase, result, batch, calls, crashes, up, history>>

ResetStore ==
    /\ snapshot # NoSnapshot
    /\ memory' = snapshot
    /\ attached' = {}
    /\ snapshot' = NoSnapshot
    /\ UNCHANGED <<stored, phase, result, batch, calls, crashes, up, history>>

\* The process ends; the clients of the commands in flight see a failure.
Crash ==
    /\ up
    /\ crashes < MaxCrashes
    /\ crashes' = crashes + 1
    /\ up' = FALSE
    /\ memory' = Empty /\ snapshot' = NoSnapshot /\ attached' = {}
    /\ phase' = [c \in Commands |-> IF c \in InFlight THEN "failed" ELSE phase[c]]
    /\ torn' = (torn \/ Halfway # {})
    /\ result' = [c \in Commands |-> {}] /\ batch' = [c \in Commands |-> {}]
    /\ UNCHANGED <<stored, calls, detached, overlapped>>

\* Before it serves requests the process rebuilds the Wallet rows that came from
\* AppRow (one created by a command stays; a rebuild that fails, or is switched off,
\* is skipped) and loads the store.
Boot ==
    /\ ~up
    /\ up' = TRUE
    /\ wallet' \in {wallet} \cup IF source = "app_row" THEN {app.wallet} ELSE {}
    /\ memory' = app
    /\ UNCHANGED <<ledger, source, app, snapshot, phase, attached, result, batch, calls,
                   crashes, history>>

Step(c) == \/ RunOperation(c) \/ OperationFails(c) \/ ProjectOperation(c)
           \/ PersistRows(c) \/ PersistFails(c)

Next == \/ \E c \in Commands : Call(c) \/ Step(c)
        \/ ReadAppRows \/ ResetStore \/ Crash \/ Boot

Spec == Init /\ [][Next]_vars

\* A command goes on until it is answered, a reload until it is done, the service is
\* restarted, and requests keep coming, so that the store is reloaded again and again.
FairSpec ==
    /\ Spec
    /\ \A c \in Commands : WF_vars(Step(c))
    /\ WF_vars(ReadAppRows) /\ WF_vars(ResetStore) /\ WF_vars(Boot)

-----------------------------------------------------------------------------

\* Type invariant.
TypeOK ==
    /\ ledger \in SUBSET Commands
    /\ wallet \in SUBSET Commands
    /\ source \in {"app_row", "native"}
    /\ app \in Rows /\ memory \in Rows
    /\ snapshot = NoSnapshot \/ snapshot \in Rows
    /\ phase \in [Commands -> Phases]
    /\ attached \in SUBSET Commands
    /\ result \in [Commands -> SUBSET Commands]
    /\ batch \in [Commands -> SUBSET Commands]
    /\ calls \in [Commands -> 0..MaxCalls]
    /\ crashes \in 0..MaxCrashes
    /\ {up, detached, overlapped, torn} \subseteq BOOLEAN

Undisturbed == ~detached /\ ~overlapped /\ ~torn

\* Money is lost in three ways only: the blind write of persistRows leaves Wallet as
\* the ledger says unless a reload replaced the row a command had captured, another
\* command ran between the two transactions of one, or one of them never ran.
LossIsExplained == Undisturbed => wallet = ledger

\* When no command is in flight and none of the three happened, AppRow tells the same
\* story as the ledger, so the rebuild at boot changes nothing.
AppRowFollowsLedger ==
    Undisturbed /\ InFlight = {} => app.wallet = ledger /\ app.txns = ledger

\* What a client was told is kept: the transaction of an answered command is in the
\* ledger and in AppRow for good, whatever reloads, crashes and rebuilds follow.
AnsweredIsKept ==
    \A c \in Commands : phase[c] = "answered" => c \in ledger /\ c \in app.txns

\* The store catches up: a reload that raced with a command can leave old rows in it,
\* but once the commands stop the store shows AppRow's.
StoreCatchesUp == <>[](up /\ memory = app)
=============================================================================
