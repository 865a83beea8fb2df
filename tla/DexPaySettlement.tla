-------------------------- MODULE DexPaySettlement --------------------------
(***************************************************************************)
(* A deposit paid through DexPay: provider-integration.service.ts.  A      *)
(* webhook about the order, a user, a reconciliation or an operator starts *)
(* a synchronisation: it asks the provider for the order, moves the        *)
(* transaction in the store, credits the wallet of the store when the      *)
(* order is confirmed, and persists the rows it touched.  Synchronisations *)
(* interleave at every await, answers and writes overtake each other, the  *)
(* store is reloaded from AppRow, a step fails, the process restarts.      *)
(*                                                                         *)
(* No wallet command runs here (module WalletProjection), so AppRow and    *)
(* Wallet, which one transaction writes, hold the same balance: `credits'  *)
(* counts how often it includes the deposit.                               *)
(***************************************************************************)
EXTENDS FinanceGuards, Naturals

CONSTANTS Syncs,        \* handler runs: webhook deliveries and other callers
          Events,       \* webhook events, all of them "the order is completed"
          NoEvent,      \* "not called by a webhook"
          EventOf,      \* [Syncs -> Events or NoEvent]
          MaxTries,     \* bound: how often one handler runs
          MaxRestarts,  \* bound: how often the process restarts
          None          \* "no reload in progress", "no rows collected"

ASSUME DeliveriesAreWellFormed ==
    /\ NoEvent \notin Events
    /\ EventOf \in [Syncs -> Events \cup {NoEvent}]
    /\ MaxTries \in Nat /\ MaxRestarts \in Nat

VARIABLES
    provider,   \* status of the order at the provider
    app,        \* AppRow: [tx, credits]
    memory,     \* the store: [tx, credits]
    snapshot,   \* AppRow as the reload in progress has read it, or None
    receipt,    \* [Events -> status of the WebhookReceipt, or "none"]
    phase,      \* [Syncs -> Phases]
    order,      \* [Syncs -> status of the order in the provider's answer]
    batch,      \* [Syncs -> rows to persist or None]
    tries,      \* [Syncs -> 0..MaxTries]
    restarts,   \* 0..MaxRestarts
    overtaken,  \* history: rows were persisted over rows collected after them
    late,       \* history: an answer behind the stored state was written to the row
    dropped     \* history: rows that carried the credit were never persisted

rows == <<app, memory, snapshot>>
history == <<overtaken, late, dropped>>
vars == <<provider, rows, receipt, phase, order, batch, tries, restarts, history>>

OrderStatuses == {"PENDING", "PROCESSING", "COMPLETED", "FAILED"}
Phases == {"idle", "checked", "asking", "answered", "persisting", "finishing", "done",
           "failed"}
Running(s) == phase[s] \notin {"idle", "done", "failed"}

Transactions == [status : {"pending", "completed", "failed"},
                 provider_status : OrderStatuses, settled : BOOLEAN]
Tables == [tx : Transactions, credits : Nat]
Batches == [tx : Transactions, wallet : SUBSET Nat]

ASSUME NoneIsNoRow == None \notin Tables \cup Batches

-----------------------------------------------------------------------------

\* mapDexPayStatus
Mapped(raw) == CASE raw = "COMPLETED" -> "completed"
                 [] raw = "FAILED" -> "failed"
                 [] OTHER -> "pending"

\* resolveProviderLifecycleState: a failed status, else a provider status that is the
\* name of a lifecycle state, else the words of both.
Lifecycle(tx) ==
    IF tx.status = "failed" \/ tx.provider_status = "FAILED" THEN "failed"
    ELSE IF tx.provider_status = "PROCESSING" THEN "processing"
    ELSE IF tx.status = "completed" /\ tx.settled THEN "reconciled"
    ELSE IF tx.status = "completed" \/ tx.provider_status = "COMPLETED" THEN "confirmed"
    ELSE "pending_provider"

\* mapLifecycleStatusToTransactionStatus
StoredStatus(state) == CASE state = "failed" -> "failed"
                         [] state \in {"confirmed", "reconciled", "refunded"} -> "completed"
                         [] OTHER -> "pending"

\* What an answer of the provider reports of a transaction.
Attempted(tx, raw) ==
    Lifecycle([status |-> Mapped(raw), provider_status |-> raw, settled |-> tx.settled])

\* Evaluated once: resolveMonotonicFinanceTransition on the transaction graph.
Resolve == [current \in DOMAIN TransactionGraph |-> [attempted \in DOMAIN TransactionGraph |->
                Resolved(TransactionGraph, current, attempted)]]

NextState(tx, raw) == Resolve[Lifecycle(tx)][Attempted(tx, raw)]

\* Mutant: the credit does not look at settled_to_wallet.
Settles_Always(tx, raw) == NextState(tx, raw) \in {"confirmed", "reconciled"}

\* A deposit that is confirmed and not settled yet is credited.
Settles(tx, raw) == NextState(tx, raw) = "confirmed" /\ ~tx.settled

\* The transaction after the answer: a provider status is stored even when the
\* transition is not.
Updated(tx, raw) ==
    [status |-> IF NextState(tx, raw) = Lifecycle(tx) THEN tx.status
                ELSE StoredStatus(NextState(tx, raw)),
     provider_status |-> raw,
     settled |-> tx.settled \/ Settles(tx, raw)]

-----------------------------------------------------------------------------

Move(s, next) == phase' = [phase EXCEPT ![s] = next]

NewOrder == [status |-> "pending", provider_status |-> "PENDING", settled |-> FALSE]

\* After recordDexPayCheckout.
Init ==
    /\ provider = "PENDING"
    /\ app = [tx |-> NewOrder, credits |-> 0]
    /\ memory = app /\ snapshot = None
    /\ receipt = [e \in Events |-> "none"]
    /\ phase = [s \in Syncs |-> "idle"]
    /\ order = [s \in Syncs |-> "PENDING"]
    /\ batch = [s \in Syncs |-> None]
    /\ tries = [s \in Syncs |-> 0]
    /\ restarts = 0
    /\ overtaken = FALSE /\ late = FALSE /\ dropped = FALSE

\* The order at the provider; a failed one may be taken up again.
ProviderMoves ==
    /\ \E raw \in OrderStatuses :
          /\ <<provider, raw>> \in {<<"PENDING", "PROCESSING">>, <<"PENDING", "FAILED">>,
                                    <<"PROCESSING", "COMPLETED">>,
                                    <<"PROCESSING", "FAILED">>, <<"FAILED", "PENDING">>}
          /\ provider' = raw
    /\ UNCHANGED <<rows, receipt, phase, order, batch, tries, restarts, history>>

\* A handler starts, or starts again: a webhook whose delivery failed, a user who asks
\* once more.
Begin(s) ==
    /\ phase[s] \in {"idle", "failed"} \/ (phase[s] = "done" /\ EventOf[s] = NoEvent)
    /\ tries[s] < MaxTries
    /\ tries' = [tries EXCEPT ![s] = @ + 1]

\* receiveDexPayWebhook finds the receipt of the event: one already processed is
\* answered as a duplicate.
Deliver(s) ==
    /\ EventOf[s] # NoEvent /\ provider = "COMPLETED"
    /\ Begin(s)
    /\ Move(s, IF receipt[EventOf[s]] = "processed" THEN "done" ELSE "checked")
    /\ UNCHANGED <<provider, rows, receipt, order, batch, restarts, history>>

\* ... and a later write marks it received, whatever it has become meanwhile.
MarkReceived(s) ==
    /\ phase[s] = "checked"
    /\ receipt' = [receipt EXCEPT ![EventOf[s]] = "received"]
    /\ Move(s, "asking")
    /\ UNCHANGED <<provider, rows, order, batch, tries, restarts, history>>

\* A user, a reconciliation or an operator calls syncDexPayOrderForActor directly.
Ask(s) ==
    /\ EventOf[s] = NoEvent
    /\ Begin(s)
    /\ Move(s, "asking")
    /\ UNCHANGED <<provider, rows, receipt, order, batch, restarts, history>>

\* getOrder: the provider answers with the status of this moment.
Answer(s) ==
    /\ phase[s] = "asking"
    /\ order' = [order EXCEPT ![s] = provider]
    /\ Move(s, "answered")
    /\ UNCHANGED <<provider, rows, receipt, batch, tries, restarts, history>>

\* From the answer to persistRows nothing awaits: transaction and wallet of the store
\* are patched, and what was touched is collected.
Apply(s) ==
    LET raw == order[s]
        tx == memory.tx
        balance == memory.credits + 1
    IN  /\ phase[s] = "answered"
        /\ memory' = [tx |-> Updated(tx, raw),
                      credits |-> IF Settles(tx, raw) THEN balance ELSE memory.credits]
        /\ batch' = [batch EXCEPT ![s] =
                        [tx |-> memory'.tx,
                         wallet |-> IF Settles(tx, raw) THEN {balance} ELSE {}]]
        /\ late' = (late \/ NextState(tx, raw) # Attempted(tx, raw))
        /\ order' = [order EXCEPT ![s] = "PENDING"]
        /\ Move(s, "persisting")
        /\ UNCHANGED <<provider, app, snapshot, receipt, tries, restarts, overtaken, dropped>>

\* AppRow would go back to an earlier row of the transaction.
Older(tx) == (app.tx.settled /\ ~tx.settled)
             \/ Ahead(TransactionGraph, Lifecycle(tx), Lifecycle(app.tx))

\* Mutant: the wallet is written in a later transaction, if at all.
Persist_TransactionOnly(s) ==
    /\ phase[s] = "persisting"
    /\ app' = [app EXCEPT !.tx = batch[s].tx]
    /\ overtaken' = (overtaken \/ Older(batch[s].tx))
    /\ batch' = [batch EXCEPT ![s] = None]
    /\ Move(s, "finishing")
    /\ UNCHANGED <<provider, memory, snapshot, receipt, order, tries, restarts, late, dropped>>

\* persistRows: one transaction writes every row collected, over whatever is there.
Persist(s) ==
    /\ phase[s] = "persisting"
    /\ app' = [tx |-> batch[s].tx,
               credits |-> IF batch[s].wallet = {} THEN app.credits
                           ELSE CHOOSE c \in batch[s].wallet : TRUE]
    /\ overtaken' = (overtaken \/ Older(batch[s].tx))
    /\ batch' = [batch EXCEPT ![s] = None]
    /\ Move(s, "finishing")
    /\ UNCHANGED <<provider, memory, snapshot, receipt, order, tries, restarts, late, dropped>>

\* The provider artifacts and the audit entry are written; a webhook is processed.
Finish(s) ==
    /\ phase[s] = "finishing"
    /\ receipt' = IF EventOf[s] = NoEvent THEN receipt
                  ELSE [receipt EXCEPT ![EventOf[s]] = "processed"]
    /\ Move(s, "done")
    /\ UNCHANGED <<provider, rows, order, batch, tries, restarts, history>>

Carries(s) == batch[s] # None /\ batch[s].wallet # {}

\* Mutant: the webhook is processed whatever happened.
Fail_AsProcessed(s) ==
    /\ phase[s] \in {"asking", "persisting", "finishing"}
    /\ receipt' \in {receipt} \cup {[receipt EXCEPT ![e] = "processed"] : e \in Events \cap {EventOf[s]}}
    /\ dropped' = (dropped \/ Carries(s))
    /\ batch' = [batch EXCEPT ![s] = None]
    /\ Move(s, "failed")
    /\ UNCHANGED <<provider, rows, order, tries, restarts, overtaken, late>>

\* getOrder, persistRows or a later write throws.  The store keeps what it has; the
\* receipt is marked failed, unless that write throws too.
Fail(s) ==
    /\ phase[s] \in {"asking", "persisting", "finishing"}
    /\ receipt' \in {receipt} \cup {[receipt EXCEPT ![e] = "failed"] : e \in Events \cap {EventOf[s]}}
    /\ dropped' = (dropped \/ Carries(s))
    /\ batch' = [batch EXCEPT ![s] = None]
    /\ Move(s, "failed")
    /\ UNCHANGED <<provider, rows, order, tries, restarts, overtaken, late>>

\* syncAppStoreFromDatabase reads AppRow and, after another await, resets the store.
ReadAppRows ==
    /\ snapshot = None
    /\ snapshot' = app
    /\ UNCHANGED <<provider, app, memory, receipt, phase, order, batch, tries, restarts,
                   history>>

ResetStore ==
    /\ snapshot # None
    /\ memory' = snapshot
    /\ snapshot' = None
    /\ UNCHANGED <<provider, app, receipt, phase, order, batch, tries, restarts, history>>

\* The process ends and starts again with what AppRow holds.
Restart ==
    /\ restarts < MaxRestarts
    /\ restarts' = restarts + 1
    /\ memory' = app /\ snapshot' = None
    /\ phase' = [s \in Syncs |-> IF Running(s) THEN "failed" ELSE phase[s]]
    /\ order' = [s \in Syncs |-> "PENDING"]
    /\ batch' = [s \in Syncs |-> None]
    /\ dropped' = (dropped \/ \E s \in Syncs : Carries(s))
    /\ UNCHANGED <<provider, app, receipt, tries, overtaken, late>>

Step(s) == \/ Deliver(s) \/ MarkReceived(s) \/ Ask(s) \/ Answer(s) \/ Apply(s)
           \/ Persist(s) \/ Finish(s) \/ Fail(s)

Next == ProviderMoves \/ (\E s \in Syncs : Step(s)) \/ ReadAppRows \/ ResetStore \/ Restart

Spec == Init /\ [][Next]_vars

-----------------------------------------------------------------------------

\* Type invariant.
TypeOK ==
    /\ provider \in OrderStatuses
    /\ app \in Tables /\ memory \in Tables
    /\ snapshot = None \/ snapshot \in Tables
    /\ receipt \in [Events -> {"none", "received", "processed", "failed"}]
    /\ phase \in [Syncs -> Phases]
    /\ order \in [Syncs -> OrderStatuses]
    /\ batch \in [Syncs -> Batches \cup {None}]
    /\ \A s \in Syncs : phase[s] = "persisting" <=> batch[s] # None
    /\ tries \in [Syncs -> 0..MaxTries]
    /\ restarts \in 0..MaxRestarts
    /\ {overtaken, late, dropped} \subseteq BOOLEAN

\* A deposit is credited once at most, however many webhooks, users and reconciliations
\* synchronise it at the same time and whatever reloads come between, as long as no
\* write puts an older row of the transaction over a newer one.
CreditedOnce == ~overtaken => app.credits <= 1 /\ memory.credits <= 1

\* A transaction that AppRow shows as settled is credited there, or the rows with the
\* credit are still to be written, or their write was lost after the store had marked
\* the transaction settled.
SettledIsCredited ==
    app.tx.settled => \/ app.credits >= 1
                      \/ \E s \in Syncs : Carries(s)
                      \/ dropped

\* A webhook that is processed has taken effect: AppRow shows the order completed and
\* settled, unless a write put an older row of the transaction over a newer one.
ProcessedIsApplied ==
    ~overtaken =>
        \A e \in Events : receipt[e] = "processed" =>
            app.tx.status = "completed" /\ app.tx.settled

\* "Webhook idempotent" (docs/SAAS_COMPLIANCE_STANDARD.md): once no handler runs, the
\* order of a processed webhook has been credited exactly once, however often it was
\* delivered.
ProcessedIsCredited ==
    (\A s \in Syncs : ~Running(s)) =>
        \A e \in Events : receipt[e] = "processed" => app.credits = 1
=============================================================================
