# Formal model of the C2P backend

TLA+ modules for the backend of the C2P platform (`src/backend/src`, NestJS over
Postgres through Prisma), TLC configurations that check them on small instances,
and proofs that TLAPS checks for every value of the constants. Paths below are
relative to `src/backend/src` unless they start with `src/`.

The backend keeps most of its data three times: in JSON rows of one Postgres table
(`AppRow`), in normalized tables (`Wallet`, `EscrowCase`, ...), and in an in-memory
store of the process that all requests read and patch. Every `await` is a point
where another request runs. Most of what is checked here is about that: what money,
cases and events look like after commands, reloads, retries, failures and restarts
have interleaved.

## 1. Inventory

| Part | State | Operations | Interacts with | Hard behaviour | What makes it correct |
|---|---|---|---|---|---|
| **Transactional outbox** `outbox/` | `OutboxEvent` rows: status, attemptCount, nextRetryAt, processedAt | enqueue (upsert by key), `processPendingBatch` (claim, handle, settle), requeue, ignore, replay | written by `persistRows`; run by the API timer, a worker CLI and an admin endpoint at once; handlers send mail, SMS, in-app rows | concurrent batches, lost acknowledgements, crash after a claim, administrators who write over a row that moved | one batch per row, no early give-up, duplicates only when explained, every waiting row is settled |
| **Wallet and financial operations** `database/wallet*.ts` | `Wallet`, `FinancialOperation`, `FinanceLedgerEntry`, `WalletTransaction`, case statuses | topup, withdraw, hold, release, refund, subscription, visibility, payout; all through `runPrismaFirstOperation` | called by every command; moves `EscrowCase` and `PayoutRequest` | interleaved interactive transactions, optimistic lock on a millisecond clock, keys that block and replay | ledger explains balance, a key applies once, one side of an escrow is paid |
| **AppRow store and projections** `data/data-app-store.ts`, `database/platform-persistence.service.ts`, `database/platform-snapshot-sync.service.ts` | the store, `AppRow`, the normalized projections | reload with a 60 s life, patch/append, `persistRows`, rebuild at boot | everything | a reload between a read and a write, blind writes of collected rows, rebuild from older rows | money is not lost, what was answered is kept, the store catches up |
| **Escrow settlement** `payments/payment-commands.service.ts`, `data/data-finance-side-effects.ts` | escrow status in the store, `AppRow` and `EscrowCase` | `adminUpdateEscrowStatus` | wallet commands, `syncEscrowCase`, `persistRows` | the store is patched before the payment; an unguarded upsert follows it | at most one side paid, settled implies paid |
| **Finance state machines** `payments/finance-domain-guards.ts` | six state graphs | `assertFinanceTransition`, `resolveMonotonicFinanceTransition` | commands, webhooks, synchronisations | reports late, repeated and reordered | only forward, nothing ahead is lost |
| **DexPay integration** `payments/provider-integration.service.ts` | the payment transaction, `WebhookReceipt`, the wallet row | checkout, webhook, user sync, reconciliation, operator sync | the provider's API, the store, `persistRows`, provider artifacts | answers and writes overtake each other, a delivery is repeated, a write fails after the store changed | a deposit is credited once |
| **Outbox deliveries** `outbox/handlers`, `outbox-notification.service.ts`, `outbox-delivery-log.service.ts` | notifications, delivery records | run by a batch | mail and SMS providers | redelivery resets rows | a notification is delivered, its read mark kept |
| **Payout, refund, subscription, visibility commands** `payments/payment-commands.service.ts` | requests, subscriptions, plans | create, approve, pay, refund, activate | wallet commands | same pattern as the escrow; an earlier refund is looked up in the store, its row appended after the payment | shown as paid what was paid, refunded once |
| **Provider artifacts** `payments/provider-artifacts.service.ts` | `PaymentIntent`, `ProviderTransaction`, `WalletFunding` | one sync | DexPay integration | read then upsert | monotone statuses |
| **Authentication** `auth/` | users, sessions, refresh tokens, reset codes (`AppRow`) | login, refresh, logout, revoke, password, accounts | request middleware | whole-table snapshots serialised by a promise queue of one process, three saves per mutation; `auth-activity.service.ts` writes a user's row without that queue | a rotated token is used once, a suspension is not lost |
| **Learning** `learning/` | courses, enrollments, exams, attempts, certificates | purchase, start/submit exam, publish, progress | wallet commands, store | read-then-append across a reload, charge then enroll | one session per attempt, paid implies enrolled |
| **Project center and funding** `project-center/` | projects, rounds, commitments, schedules | commit, review, activate, installments | store | patch before a check that throws | funding equals active commitments |
| **Marketplace** `marketplace/`, **messaging** `messaging/`, **notifications** `notifications/` | bookings, missions, conversations, messages | create, accept, update, mark read | store, escrow | rows appended to a store that reloads | nothing persisted is lost |
| **Generic data API** `data/` | all tables | role filters, sanitizers, hydrators | store | mostly pure functions | an actor sees and writes what its role allows |
| **Edges** `common/http/rate-limit.ts`, `cache/`, `communications/`, `uploads/`, `public/`, `monitoring/`, `admin/`, `modules/user`, `config/` | counters, caches, files | - | outside services | little protocol | - |
| **Web client, scripts, ops** `src/front`, `src/backend/scripts`, `src/ops` | - | - | HTTP | out of scope | - |

`PROJECT.json` lists every part with its status, and under `hazards` the places where
this code is hard to test, each with the properties that watch it or the reason none does.

## 2. Plan

Order: the code that moves money first, then what carries its consequences, then what
shares its mechanisms. All of it is built.

1. `Outbox` with its contract `OutboxContract`; `WalletLedger` with `LedgerContract`;
   `WalletProjection`; `EscrowSettlement`; `FinanceGuards`, `FinanceLifecycle`,
   `FinanceReach`; `DexPaySettlement`.
2. `AppStore`: what every command around the store has in common, written so that it is
   the abstract specification of the commands that extend it.
3. `ProjectFunding` over `FundingSchedule`, `CourseCertification`, `CoursePurchase` and
   `PaymentCommands`, each a set of sections of `AppStore`; `StoreCommands` composes them on
   one store and is checked against `AppStore`.
4. `AuthSession`, which keeps its tables in another way.
5. Proofs beside each of these components: every safety invariant, action property and
   refinement that a run checks.

A project that goes on would take, in this order: `DexPaySettlement` with a wallet command
on the same wallet (the two are modelled apart), the provider artifacts, the handlers of the
outbox with the rows they write, marketplace bookings as sections of `AppStore`.

## 3. What is modelled

### Outbox (`Outbox.tla`, contract `OutboxContract.tla`)

One function per steering column of `OutboxEvent`; per batch the rows it read
(`candidates`), claimed (`claimed`) and is running (`running`); per administrator the row
it has checked and not yet written (`request`).

| Action | Code |
|---|---|
| `Insert`, `EnqueueAgain` | the upsert of `OutboxService.enqueueMany`; a second enqueue rewrites the schedule only |
| `ReadCandidates`, `Claim`, `ClaimMisses` | `claimPending`: `findMany`, then one `updateMany` per row that compares the status read |
| `Handle` | `handleEvent`, with the outcome left open |
| `MarkProcessed`, `AcknowledgementRejected`, `MarkFailed` | the try and catch of `processPendingBatch`; the update inside the try may reject after a delivery |
| `AbandonBatch` | a rejected claim, a rejected update of the catch clause, the end of the process |
| `OperatorReads`, `Requeue`, `Ignore`, `Replay` | the three administrator commands; requeue and ignore write by id what they checked earlier |
| `RetryTimeComes` | the clock passes `nextRetryAt`, which is kept as null, future or due |

The promise ends where the code ends it: `raced` records an administrator's write over a
row that is no longer dead or failed, `lostAck` a delivery whose acknowledgement was lost,
`abandoned` an interrupted claim. Each property says exactly which of them it excludes.

### Wallet ledger (`WalletLedger.tla`, contract `LedgerContract.tla`)

One request per call. `Reserve` is the upsert of the idempotency key, enabled when no open
transaction holds it; `ReadWallet`/`RefuseFunds` read the wallet and check the funds;
`Commit` is `updateWalletWithLock`, the case update, the ledger entry and the completed
operation, atomic because the wallet row stays locked from the update to the commit.
`LockConflict`, `CaseConflict` and `Rollback` are the ways a transaction ends without
effect, `ReturnEarlier` is `loadCompletedOperation`, `Retry` the caller's retry. `stamp`
is `Wallet.updatedAt`; with `InstantsDistinct = FALSE` two writes may share a millisecond,
which `collided` records. The eight commands differ by kind (credit or debit, the case
they settle); `CaseOf` names the escrow or payout.

### Wallet projection (`WalletProjection.tla`)

The same wallet in `Wallet`, `AppRow` and the store, each balance as the set of commands it
includes. A command captures the row object of the store (`attached`), runs its first
transaction (`RunOperation`), copies the result to the captured object and collects the
row of that id from the store (`ProjectOperation`), and writes it blindly to `AppRow` and
`Wallet` (`PersistRows`). `ReadAppRows` and `ResetStore` are the two halves of the reload,
`Crash` and `Boot` the end of the process and the rebuild of projections whose source is
`app_row`. History variables name the three disturbances: `detached` (the captured row was
replaced by a reload), `overlapped` (another command ran between the two transactions),
`torn` (the second transaction did not run).

### Escrow settlement (`EscrowSettlement.tla`)

One escrow, its status in `memory`, `app` and `db` (`EscrowCase`). `Start` is
`adminUpdateEscrowStatus` up to its first await (check, patch of the store, what the change
owes), `Pay` the wallet command with its case guard, `Sync` the unguarded upsert
`syncEscrowCase`, `Persist` the rows. `skipped`, `unguarded` and `rebuilt` record a call
that found its target in the store unpaid, a payment that had no case to check, and a boot
that took the case back.

### Finance lifecycle (`FinanceGuards.tla`, `FinanceLifecycle.tla`, `FinanceReach.tla`)

The six graphs as functions, reachability by closed sets, the decision of
`resolveMonotonicFinanceTransition` in its order. `Report` is a provider's report,
`Transition` a command. `FinanceReach` runs a report in its steps, which nothing interrupts:

| Action | Code |
|---|---|
| `ReportAtOnce` | an unknown or unchanged stored state, which needs no search |
| `BeginReport` | the first call of `canReachFinanceState`, from the stored state to the reported one |
| `Call` | a recursive call on a candidate: the target, a visited state, or one to mark and go into |
| `Return` | a call without candidates left returns false |
| `Answer` (in both) | the outermost call returns; the search back starts with a set of its own |
| `Decide` | the decision from both answers |
| `Command` | `assertFinanceTransition` between two reports |

`calls` is the stack of the recursion, the candidates of each call in no order; `visited` is the
set the calls share. The recursion is a stack and not a recursive operator because TLAPS cannot
reason in a module that declares one. Source and target are known states in every call: the
callers check them, and `GraphsAreClosed` says that no graph leads out of itself.

### DexPay (`DexPaySettlement.tla`)

One deposit and any number of handler runs about it, webhook deliveries and direct callers.
`Deliver` and `MarkReceived` are the receipt (looked up, then written), `Answer` the
provider's answer, `Apply` everything from the answer to `persistRows` (nothing awaits
there: transaction, wallet and collected rows), `Persist` the one transaction that writes
them, `Finish` and `Fail` the end of the handler, `ReadAppRows`/`ResetStore`/`Restart` the
environment. `overtaken` records that older rows were persisted over newer ones, `late`
that an answer behind the stored state was written, `dropped` that rows with the credit
were lost.

### The store (`AppStore.tla`, `StoreTables.tla`)

The learning, project, payment and marketplace commands have one shape: await a reload, then
in one synchronous section check, patch, append or remove rows of the store and collect
copies of them, then await the transaction that writes the copies. `AppStore` is that shape
over any rows and values.

| Action | Code |
|---|---|
| `Collect`, `Throw`, `Pass` | a section ends: at the await of `persistRows`/`deleteRows`; with an exception after it has patched; without a change |
| `Settle` | an await inside a command (a wallet operation) settles |
| `Persist`, `PersistFails` | the transaction of `persistRows`; nothing takes a failed command's rows back from the store |
| `ReadAppRows`, `ReadProjection`, `ResetStore` | `syncAppStoreFromDatabase`: `AppRow` in one statement, the tables of the Project Center each in its own, then `resetStore` |
| `Restart` | the process ends; the next one loads `AppRow` |

Three history variables name what this can do to a row: `stale` (a reload that had read
before a write put the row back), `unsaved` (a failed command left it changed in the store),
`overtaken` (transactions were committed in another order than their sections ran).
`StoreSpec` allows any section that collects every row it changes, and is the abstract
specification of all commands below: `CollectsWhatItChanges` is that refinement.
`StoreTables` adds tables, lookup, patch and append.

`StoreCommands` joins the commands below. `Scenarios` is what clients ask for and the rows they
find. `ScenariosAreWellFormed` says what these have in common: inputs the handlers accept, ids
that are not in use yet, and rows the application could have left there (`StartsWell`: one row of
a kind, no payout that is paid already, a project that has raised what its commitments are worth
and a card once there is an offer, no work or certificate of a learner who is not enrolled, no
certificate issued before it was earned). The row of a refund belongs to one transaction, as its
id is made from the transaction and the key of the request.

### Funding (`ProjectFunding.tla`, `FundingSchedule.tla`)

One project, its round, the commitments of a partner and the tracking card of the pair:
`CreateCommitment`, `ReviewCommitment`, `ActivateCommitment` (it patches the commitment before
`requireOpenProject` may throw, and adds to totals of three tables), `MarkInstallmentPaid`,
`UpdateOwnerProject`, `DeleteOwnerProject`, `ExpressPartnerInterest`. `FundingSchedule` is the
arithmetic of `buildSimulation`: rounded shares month by month. `OfSchedule` is what a row of a
commitment may hold: instalments of its schedule, and as `repaid` what these come to. It is a part
of the type invariant: a command that adds an instalment and not its amount breaks the type.

### Certification and purchase (`CourseCertification.tla`, `CoursePurchase.tla`)

One course with one evaluation and one learner. The actions are the commands that end in
`syncCourseCertificate`: progress, submission, correction, resubmission, quiz sessions, the
life cycle and the deletion of the evaluation, the list of certificates, and the instructor's
delivery and revocation. `earned` records what `AppRow` has shown of the requirements.
`Purchase`, `Charge`, `PurchaseGoesOn` are the two sections of a purchase and the wallet
operation between them; `PurchaseWithExternalPayment` and `EnrollLearner` the other ways in.

### Payouts and refunds (`PaymentCommands.tla`)

`UpdatePayoutStatus` patches and copies the request, then `CompletePayout` runs the wallet
operation while those rows wait: they are collected rows from the section on, which is why
`paying` holds back `Persist` and not `Collect`. `Refund` looks for a refund in the store,
`Credit` is its wallet operation, `RecordRefund` the hook that appends its row afterwards.
`credited` and `paidOut` are the operations completed, `beside` the calls that overlapped.

### Sessions (`AuthSession.tla`)

`AuthService` keeps each table as a whole: a mutation loads the tables it needs (`Load`),
changes them in memory (`Login` ... `DeleteOtherSessions`) and writes back each table in a
transaction of its own (`Save`, `SaveFails`): `deleteMany` and `createMany`. `Start` is the
promise queue of a process, which goes on when the first failing save rejects, while the others
are still on their way; a second process has a queue of its own. `Save` also covers what
Postgres does with two such transactions at once: the second one's `deleteMany` does not see the
rows of the first, so that both remain or the transaction fails on a key. `Expire` is the
absolute end of a session, whose refresh token lives longer.

`AuthActivityService.switchActivity` writes one row of `auth_users` and does not go through the queue:
`FindUser` is its `findUnique`, after which the roles of the user are looked up, and
`SwitchActivity` the transaction that updates the row with all it has read (`userRow`) and another
role, or `SwitchFails`. What `patchUser` has saved in between is overwritten, and a mutation that had
loaded the table overwrites the switch: `beside` records that a switch ran beside another call on the
users, `demoted` that it took away the role of superadmin, which needs a promotion after its
middleware has refused administrators. A row of a user is its status and whether its role is
superadmin; `Patched` is what an administrator changes of it, `Disables` what he may not do to the
last one.

A session keeps the moment it was issued at
(`at`), because `issueSession` keeps the `MaxSessions` last ones of a user and drops the others;
`FirstSessions` are those a scenario starts from, under ids that no call issues.

## 4. Runs

| Run | Instance | What it shows |
|---|---|---|
| `outbox_races` | 1 row, 2 batches, 2 administrators, 3 retries | one batch per row, duplicates explained by a lost acknowledgement, the row keeps `OutboxContract`; once crashes and administrators stop, it is settled |
| `outbox_live` | 2 rows, 2 batches of 2, interrupted handlers, replay | every waiting row is processed, dead or was in an interrupted batch; only those leave orphans |
| `wallet_races` | 5 requests (two under one key), 2 wallets, an escrow, shared milliseconds allowed | ledger explains balance, keys apply once, answers agree, one side paid, settlements final |
| `wallet_contract` | 4 requests, distinct instants, fairness | the transactions implement atomic commands; every call is answered |
| `projection` | 2 commands, 2 calls each, 2 crashes, fairness | losses have three causes only, AppRow follows the ledger, answers are kept, the store catches up |
| `escrow` | 2 releases, 2 refunds, 1 crash, with and without funds, provider and case row | one side paid, settled is paid, outside the recorded causes |
| `finance_lifecycle` | the six graphs and all 512 graphs on three states, every report with its two searches | nothing ahead is lost, the searches answer reachability |
| `dexpay` | 2 deliveries of one webhook, 2 callers, 1 restart | credited once, settled is credited, processed is applied |
| `store_commands` | 17 scenarios of 3 calls, 1 restart, reloads in two reads | store and AppRow agree outside the recorded causes; commands collect what they change; funding is counted, loans repay what is expected, certificates are earned and final, one row of each kind, paid is enrolled, payouts are shown, refunds paid once |
| `auth` | 13 sets of 3 requests in 2 processes, 3 users, 2 of them superadmins; switches of activity beside suspensions, promotions, deletions and other switches | lost updates have three causes only, one of them on the users alone; what was closed stays closed, a token is exchanged once, a superadmin remains |

Two runs are expected to find a violation; they are the project's findings.

| Run | Statement of the repository | What the code does |
|---|---|---|
| `escrow_one_side` | `database/wallet.state-transitions.spec.ts`: the guard protects against double payout | the unguarded upsert puts `refunded` under the guard of a release that has paid; with a reload both sides are paid |
| `dexpay_idempotent` | `src/docs/SAAS_COMPLIANCE_STANDARD.md`: webhook idempotent | the store is settled before the write; when it fails, later deliveries are processed without the credit |

What the escape clauses of the other properties stand for is also worth a reader's attention:

- A command is two transactions, though `src/backend/README.md` speaks of one: the wallet moves in
  the first, `AppRow` in the second. `LossIsExplained` says what follows when the second is lost.
- A release, refund or payout whose payment fails stays settled in the store (`unsaved`). The next
  call for the same status owes nothing and persists it unpaid, until a reload comes first
  (`skipped` in `EscrowSettlement`, the first disjunct of `PayoutShows`).
- Two refunds of one transaction under different keys are both paid when their calls overlap or the
  first is lost between its payment and its row (`RefundedOnce`). A refund does not ask for the
  status of what it refunds.
- Saves of `AuthService` are not atomic together: a rotation may lose its session and keep its token,
  or the reverse, and the queue does not wait for the saves of a failed mutation (`unserial`).
- `patchUser` counts superadmins only when one is suspended; setting the last one to `pending` passes.
- `switchActivity` is a writer of `auth_users` that the queue does not hold back: within one process and
  with no failed save, a suspension that is saved between its read and its write is lost, and so is a
  promotion; a deletion makes it fail (`beside`, `demoted`). Without `beside` in
  `LostUpdateIsExplained` TLC shows such a loss after a few steps. The tables of sessions, tokens and codes are
  not exposed to it.

**Bounds and why they are enough.** Every interference above needs two actors, at most one
reload between two of their steps, and one failure; every instance has at least these.
`MaxRetries = 3` allows one stale count between the first failure and the last one.
Wallet instances have an amount that exceeds the available but not the total balance, and
two amounts under one key. Two crashes in `projection` allow a rebuild, a command and
another rebuild. In `escrow` two calls per side let one call skip the payment that the other has begun.
`finance_lifecycle` checks every graph on three states, beyond the six of the code.
`MaxTries = 1` in `dexpay` is one run per handler; a retry is another handler there. That
the escape clauses (`raced`, `collided`, `overtaken`, ...) are needed was checked by
removing each one: TLC then finds a violation, so the interesting case happens within the
bounds. In `store_commands` three calls are two that interfere and one that changes what they
read; the scenarios pair the commands that write a common row, and start where both are
allowed. A reload reads `AppRow` and then the three tables of the projection at once. Larger sets
were run once and dropped for time: project and cards read one after the other (380 000 states), a
third call under the key of the first refund (480 000 states) and a third one that follows two
activations show nothing new; the theorems hold for any tables of the projection.
In `auth` two requests share a process and one is in the other, so that each pair of causes can
meet. A switch that takes the last superadmin's role away needs one superadmin at the start, or a fourth
call; with one (`Superadmins = {"ann"}`: she promotes the user and deletes her account) TLC finds the
loss that `demoted` stands for. `CHECK_DEADLOCK FALSE` is set where all the calls of an instance may be over.

**Mutants.** Every property of a passing run has a mutant in `PROJECT.json`: a definition of
the model changed as a plausible bug would change the code, under which TLC must find that
property violated.

**Fairness.** Assumed where a property needs it only. `outbox_live`: the timer and the clock go on
(`WF` on each worker's steps and on `RetryTimeComes`); interrupts of a handler stay possible and
are not fair. `outbox_races` assumes the same and that administrators, and batches interrupted
before they have claimed a row, come to an end (`<>[][~Disturbance]_vars`): either could keep a row
unsettled for ever. `wallet_contract`: an open transaction is answered by Postgres or ended by its
30 s limit (`WF` on a step or a rollback). `projection`: a command goes on, a started
reload ends, the service manager restarts the process, requests keep coming so that reloads
happen. The other runs assume none and claim no liveness: a failed call is made
again by a person or not at all.

## 5. Proofs

For every number of rows, batches, requests, wallets, calls, processes and amounts:

- `OutboxProofs`: the type invariant is strengthened with "a batch runs what it holds" and
  "a row that can be claimed has an attempt left", without which `attempts` could pass
  `MaxRetries`. Exclusive claims need that a stale candidate's status cannot come back while
  another batch holds the row, so a claim that wins finds no other holder; the remaining
  invariants (orphans, duplicates, early death, claimable rows) rest on it, and
  `ProcessedStays` is the action property derived from them. `ContractIsKept` is the refinement
  of `OutboxContract`: a step moves at most one row (`StepsMoveOneRow`), from its stage to one that the
  contract allows from there (`MovesAreSteps`), or writes over a row that is not trusted any more.
- `WalletLedgerProofs`: type correctness (no balance is negative, which no run checks apart);
  `LedgerInv` adds `Snapshots`: a transaction that read the current
  stamp of an uncollided wallet read the current balance. `KeysInv` ties each key to its one entry, its
  holder and the answers given. `OneSideIsPaid` uses that a settled case blocks the other kind's
  guard. `CommandsAreAtomic` is the refinement of `LedgerContract` under the assumption that
  no two writes of a wallet share a millisecond (a hypothesis of the theorem).
- `FinanceLifecycleProofs`: for any closed graph, from three lemmas on reachability
  (reflexive, edges, transitive) and one on what a resolution may return. For any finite one,
  `SearchesAnswer` is the correctness of the search, from `Explored`: what is visited or still to try
  is reached and holds the first state, the successors of what is visited are among it, and the target
  is not visited. When no call is left, what is visited is therefore closed and lacks the target
  (`SearchFails`). `Explored` also gives each open call but the outermost a visited state of its own,
  so that a cycle cannot exhaust the stack (`SearchesAreShallow`). With the right answers the
  decision is the one of `FinanceLifecycle`, so the steps refine a report (`StepsImplementReports`),
  and what is proved of reports holds of the searches (`SearchesLoseNothing`). `SearchesEnd`
  is termination as a safety property, which needs no fairness: a search under way takes no step
  but its own, and each answers, or leaves fewer states unvisited, or as many and fewer
  candidates and open calls.
- `WalletProjectionProofs`: `AnsweredIsKept` from `Recorded` (a command past its first transaction is
  in the ledger, an answered one in `AppRow` too). `LossIsExplained` and `AppRowFollowsLedger` from
  `StepInv`: while nothing disturbs the commands, one at a time is between its two transactions,
  it carries the balance of the ledger, and its own transaction is all that `AppRow` lacks.
- `EscrowSettlementProofs`: `SettlementInv` joins `NothingHeld` (an escrow nobody funded is never
  released), `PastPayment` (a call past its payment has paid, unless it owed nothing),
  `NobodyElse` (only a provider that is named is paid) and `PaymentShows` (the case row keeps the
  status of the side that was paid), from which `OneSidePaid` follows; `SettledIsPaid` is a part of it.
- `DexPaySettlementProofs`: while no row is overtaken, `CreditInv` says of `AppRow`, the store, a reload
  and the collected rows that each holds one credit at most, and none beside an unsettled
  transaction. `SettledInv` says that wherever the transaction is settled its credit is in `AppRow`,
  on its way, or lost. `CreditedOnce` and `SettledIsCredited` follow. `ProcessedEventsAreApplied`
  needs `AppliedInv`: a transaction that names a completed order is completed, and whatever state
  such a transaction was in, the answer "completed" leads to a settled one (`CompletedSettles`, by the
  graph of payments); so a webhook handler writes a settled transaction, and `AppRow` keeps it.
- `StoreCommandsProofs`, first for `AppStore` and so for any sections: for every row without a
  recorded cause, `AgreeInv` says that the commands in flight that write it started one after the
  other and the last one carries what the store shows, which is `AppRow` when there is none
  (`Current`), and that a reload has read what `AppRow` still holds unless it knows that it missed a
  write (`Seen`). `StoreAgreement` follows.
  Then for the commands. `CommandsTypeCorrect` shows command by command that a section writes
  well-typed rows, and collects what it writes; hence `CommandsCollect`, the refinement of `AppStore`,
  and through it `CommandsAgree`. For a row in no history every step is one of three (`StepsOfRows`):
  it keeps the row, a section writes it, or the first transaction in order commits it. The
  invariants of each table are proved over these three: `FinalInv` (a command that decides no
  certificate has read one that was not decided), `OneInv` (a row of a learner that is traced in any
  copy is in the store, where the next command looks for it), `EnrolInv` (a purchase that charged
  finds its enrollment), `PayoutInv` and `RefundInv` (what is shown, being paid and recorded of a
  payment), `FundInv` (the project, its round and the cards hold the sum of what is counted;
  `ProjectSectionsCount` has one case per command of the project).
  `CertificatesAreEarned` is the one about rows of several tables in flight together. `EarnInv` says,
  as long as no row of the learner is in a history, that whatever certificate is issued or about to
  be rests on requirements that `AppRow` has shown or that a transaction in flight will show
  (`LessonsCome`, `ExamComes`: the last writer of the evaluation `d`, and the work it will find,
  `PassesWhen`). Work counts only for a learner who is enrolled, and the enrollment may be in flight
  too; then the commands between it and `d` wrote the certificate, the work and the evaluation in one
  order, which their transactions must keep or make a row overtaken (`EnrolledBy`, `WorkIsEnrolled`,
  `Starts`). `LearningSteps` reduces every step to two kinds, `Writes` and `Commits`, and there is one
  lemma per part of the invariant. TLC found `EarnInv` to hold on the scenarios of the run and on
  five others of four calls each before it was proved.
  `LoansRepay` is arithmetic on `FundingSchedule`: each rounded instalment is half a franc off at
  most, and the last principal makes up for the others. Sums over finite sets come by minimal
  counterexamples (`SmallestSubset`), because no induction theorem of the library can be
  instantiated here.
- `AuthSessionProofs`: `SerialInv`: as long as nobody has started beside an active call, one call at a time
  is active, and what it has read and will write nobody else has written since, the users excepted
  (`Serial`); as long as no switch of activity has run beside another call on the users either, these
  stand too, and a switch is alone with them (`Alone`).
  `OperationsWriteWell` is the lemma that an operation writes only tables it has read, one case per
  command; `LostUpdatesAreExplained` follows. `ClosedInv` says that no table holds what was closed, nor a copy that
  a call has read and nobody has written since (`StayClosed`), and that of two calls only one spends a
  token (`SpentOnce`), for each table as long as it was not written over a write that was not read;
  a switch of activity is quiet on both (`SwitchIsQuiet`), so that no lost user takes these promises away;
  `RevokedStays` and `TokensAreExchangedOnce` follow. It needs that a call which has not operated yet
  has issued nothing (`Unissued`). `AdminInv` keeps one superadmin
  active in the table of users and in what a call has read, and one active or just set to `pending`
  in what it will write, as long as no switch took a superadmin's role away (`ASuperadminRemains`, for a
  set of superadmins that is not empty).

Assumptions on constants are the named `ASSUME`s of the modules; TLC evaluates them in the runs.
The theorems about `StoreCommands` have one hypothesis more, `ValuesAreGiven`: `Values`, the
parameter of `AppStore`, holds what the tables hold. It is no `ASSUME` because TLC would have to
enumerate amounts; `MCValues` is that union, so the run is an instance.

Only model-checked is liveness (`EventuallySettled`, `EveryCallIsAnswered`, `StoreCatchesUp`), which
is out of TLAPS's reach with fairness and `ENABLED`. Every safety invariant and action property of
the runs is stated by a theorem.

## 6. What is left out of the modules

- The mode without a database (`prisma.isConnected = false`): it keeps nothing across a
  restart and serves demonstrations.
- Payloads, texts, currencies and fees: amounts are naturals, rows are compared by
  what the properties tell apart. A second enqueue's new payload is therefore invisible.
- In `DexPaySettlement`: wallet commands on the same wallet, provider artifacts and the
  reprocessing of a receipt, webhooks with a bad signature or an unknown order (rejected
  before any state changes), and the payload mismatch of a duplicate, which only flags it.
- In `EscrowSettlement`: the balance of the wallet (that is `WalletLedger`), and commissions.
- In `PaymentCommands`: the wallet and transaction rows of a payout, payout accounts,
  subscriptions and visibility plans, and the direct change of a transaction's status.
- In `ProjectFunding`: submission, milestones, documents, rounds edited by the owner, partnerships,
  flags and messages. The seed data (`data/mock-store-seed/projects.ts`) gives a donation no
  repayment where `buildSimulation` lets its last instalment repay the principal;
  `LoansRepayWhatIsExpected` is stated for loans.
- In `CourseCertification` and `CoursePurchase`: free enrollment, the quiz of the course player,
  attendance, authoring, comments and reviews; and one external payment used for several courses,
  which the code accepts and nothing in the repository rules out.
- In `AuthSession`: the OAuth exchange before its session, permissions and the role assignments of
  `rbac.service.ts` (those that a switch of activity changes included), roles other than superadmin,
  acceptance of clauses, the contents of the audit log, and the demonstration accounts that a boot with
  `prismaPlatformSeedEnabled` inserts when they are missing. An account that is deleted and registered
  again keeps its name in the model, so that a switch begun before may also write the new row. A password reset closes the sessions of the tables it has read; an expired
  session whose refresh token still lives (14 days against 12 hours) is not among them.
- Several API processes over one store. The outbox is modelled with concurrent workers
  because a worker CLI exists, the sessions with two processes because their tables are read
  before every mutation; the store of the other modules is that of one process, as the
  deployment runs one.
- Outbox deliveries, provider artifacts, bookings, messaging, the generic data API, caches, rate
  limits, uploads, mail and the web client: `PROJECT.json` gives the reason for each. They are input and
  output, pure functions of one row, synchronous counters, or sections of `AppStore` without a rule across rows.
