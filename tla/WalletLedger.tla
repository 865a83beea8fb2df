---------------------------- MODULE WalletLedger ----------------------------
(***************************************************************************)
(* The financial commands of backend/src/database/wallet.service.ts against*)
(* Postgres.  Every command is one interactive transaction:                *)
(*   1. upsert the FinancialOperation row of the idempotency key, which    *)
(*      blocks while another transaction holds that key;                   *)
(*   2. read the wallet (or take the row of the store if there is none);   *)
(*   3. write it back with "where updatedAt = what was read", move the     *)
(*      escrow or payout case, append the ledger entry, mark the operation *)
(*      completed and commit.                                              *)
(* Transactions of different keys interleave freely between 2 and 3.  Step *)
(* 3 is atomic here: the updateMany locks the wallet row up to the commit, *)
(* and a case is only touched under that lock and its own row lock.        *)
(***************************************************************************)
EXTENDS Integers, FiniteSets

CONSTANTS Requests,    \* the calls a client, an admin or a retry may make
          Keys,        \* idempotency keys
          Wallets,
          Cases,       \* escrow cases and payout requests
          NoCase,      \* "this request settles no case"
          NoRequest,   \* "no request completed this key"
          KeyOf, WalletOf, KindOf, AmountOf, CaseOf,   \* of each request
          Opening,     \* [Wallets -> Nat], balance in the store row
          Reserved,    \* [Wallets -> Nat], part of it that is not available
          CaseStart,   \* [Cases -> statuses], status before the first call
          InstantsDistinct  \* no two writes of a wallet share a millisecond

Credits == {"wallet_topup", "refund", "escrow_release"}
Debits  == {"wallet_withdraw", "escrow_hold", "subscription_charge",
            "provider_visibility_charge", "payout"}
Kinds   == Credits \cup Debits

EscrowStatuses == {"awaiting_funding", "funded", "assigned", "in_progress",
                   "delivery_review", "released", "refunded"}
PayoutStatuses == {"pending", "approved", "processing", "paid", "rejected"}
CaseStatuses   == EscrowStatuses \cup PayoutStatuses \cup {"missing"}

ASSUME RequestsAreWellFormed ==
    /\ KeyOf \in [Requests -> Keys]
    /\ WalletOf \in [Requests -> Wallets]
    /\ KindOf \in [Requests -> Kinds]
    /\ AmountOf \in [Requests -> Nat]
    /\ CaseOf \in [Requests -> Cases \cup {NoCase}]
    /\ NoCase \notin Cases
    /\ NoRequest \notin Requests

ASSUME WalletsAreWellFormed ==
    /\ Opening \in [Wallets -> Nat]
    /\ Reserved \in [Wallets -> Nat]
    /\ \A w \in Wallets : Reserved[w] <= Opening[w]
    /\ CaseStart \in [Cases -> CaseStatuses]
    /\ InstantsDistinct \in BOOLEAN

VARIABLES
    balance,     \* [Wallets -> Nat], Wallet.balance as committed
    available,   \* [Wallets -> Nat], Wallet.availableBalance
    stamp,       \* [Wallets -> Nat], Wallet.updatedAt; 0: there is no row yet
    status,      \* [Cases -> CaseStatuses]
    operation,   \* [Keys -> Requests or NoRequest], the completed operation
    entries,     \* requests with a FinanceLedgerEntry
    recorded,    \* [Wallets -> Int], total of the ledger entries
    phase,       \* [Requests -> Phases]
    seen,        \* [Requests -> what the transaction read of the wallet]
    answer,      \* [Requests -> Requests or NoRequest], operation reported back
    collided     \* [Wallets -> BOOLEAN], history: two writes in one millisecond

vars == <<balance, available, stamp, status, operation, entries, recorded,
          phase, seen, answer, collided>>

Phases == {"idle", "waiting", "reserved", "read", "done", "failed"}

Nothing == [balance |-> 0, available |-> 0, stamp |-> 0]

-----------------------------------------------------------------------------

\* resolveWalletLedgerDirection
Delta(r) == IF KindOf[r] \in Credits THEN AmountOf[r] ELSE 0 - AmountOf[r]

\* A debit needs both balances; every amount is positive.
Funded(r, bal, avail) ==
    /\ AmountOf[r] > 0
    /\ KindOf[r] \in Debits => bal >= AmountOf[r] /\ avail >= AmountOf[r]

\* The case statuses each kind may move, and the one it moves them to.
Settles(kind) == CASE kind = "escrow_release" -> "released"
                   [] kind = "refund" -> "refunded"
                   [] kind = "payout" -> "paid"
                   [] OTHER -> "none"
Claimable_AnyStatus(kind) == CaseStatuses   \* Mutant: no status guard.
Claimable(kind) == CASE kind \in {"escrow_release", "refund"} ->
                          {"funded", "assigned", "in_progress", "delivery_review"}
                     [] kind = "payout" -> {"approved", "pending", "processing"}
                     [] OTHER -> {}

\* A missing case and one that already has the target status are left alone.
CaseUntouched(r) == CaseOf[r] # NoCase =>
                        status[CaseOf[r]] \in {"missing", Settles(KindOf[r])}
CaseMoves_Unguarded(r) == ~CaseUntouched(r)   \* Mutant: "status in" dropped.
CaseMoves(r) == /\ ~CaseUntouched(r)
                /\ status[CaseOf[r]] \in Claimable(KindOf[r])

InTransaction(r) == phase[r] \in {"reserved", "read"}

\* Mutant: the insert of a key does not block.
KeyHeldByAnother_Never(r) == FALSE

\* The upsert of a key waits for the transaction that inserted it.
KeyHeldByAnother(r) == \E q \in Requests \ {r} : KeyOf[q] = KeyOf[r] /\ InTransaction(q)

Unchanged_Unchecked(r) == TRUE   \* Mutant: updatedAt is not compared.

\* updateMany where updatedAt = what was read (or the row does not exist yet)
Unchanged(r) == stamp[WalletOf[r]] = seen[r].stamp

\* updatedAt is a wall clock in milliseconds.
Instants(w) == {stamp[w] + 1}
               \cup IF InstantsDistinct \/ stamp[w] = 0 THEN {} ELSE {stamp[w]}

-----------------------------------------------------------------------------

Init ==
    /\ balance = Opening
    /\ available = [w \in Wallets |-> Opening[w] - Reserved[w]]
    /\ stamp \in [Wallets -> {0, 1}]
    /\ status = CaseStart
    /\ operation = [k \in Keys |-> NoRequest]
    /\ entries = {}
    /\ recorded = [w \in Wallets |-> 0]
    /\ phase = [r \in Requests |-> "idle"]
    /\ seen = [r \in Requests |-> Nothing]
    /\ answer = [r \in Requests |-> NoRequest]
    /\ collided = [w \in Wallets |-> FALSE]

\* The command reaches runPrismaFirstOperation.
Call(r) ==
    /\ phase[r] = "idle"
    /\ phase' = [phase EXCEPT ![r] = "waiting"]
    /\ UNCHANGED <<balance, available, stamp, status, operation, entries, recorded,
                   seen, answer, collided>>

\* The upsert inserts the operation as pending; it is visible at the commit only.
Reserve(r) ==
    /\ phase[r] = "waiting"
    /\ ~KeyHeldByAnother(r)
    /\ operation[KeyOf[r]] = NoRequest
    /\ phase' = [phase EXCEPT ![r] = "reserved"]
    /\ UNCHANGED <<balance, available, stamp, status, operation, entries, recorded,
                   seen, answer, collided>>

\* Mutant: the replay reports the operation it would have run.
ReturnEarlier_AsNew(r) ==
    /\ phase[r] = "waiting"
    /\ operation[KeyOf[r]] # NoRequest
    /\ phase' = [phase EXCEPT ![r] = "done"]
    /\ answer' = [answer EXCEPT ![r] = r]
    /\ UNCHANGED <<balance, available, stamp, status, operation, entries, recorded,
                   seen, collided>>

\* The upsert finds the key completed: loadCompletedOperation reports that one.
ReturnEarlier(r) ==
    /\ phase[r] = "waiting"
    /\ operation[KeyOf[r]] # NoRequest
    /\ phase' = [phase EXCEPT ![r] = "done"]
    /\ answer' = [answer EXCEPT ![r] = operation[KeyOf[r]]]
    /\ UNCHANGED <<balance, available, stamp, status, operation, entries, recorded,
                   seen, collided>>

\* ensurePrismaWallet and the checks on the amount and the funds.
ReadWallet(r) ==
    LET w == WalletOf[r] IN
    /\ phase[r] = "reserved"
    /\ Funded(r, balance[w], available[w])
    /\ phase' = [phase EXCEPT ![r] = "read"]
    /\ seen' = [seen EXCEPT ![r] = [balance |-> balance[w], available |-> available[w],
                                    stamp |-> stamp[w]]]
    /\ UNCHANGED <<balance, available, stamp, status, operation, entries, recorded,
                   answer, collided>>

\* "Le montant est invalide.", "Solde insuffisant.": the transaction rolls back.
RefuseFunds(r) ==
    /\ phase[r] = "reserved"
    /\ ~Funded(r, balance[WalletOf[r]], available[WalletOf[r]])
    /\ phase' = [phase EXCEPT ![r] = "failed"]
    /\ UNCHANGED <<balance, available, stamp, status, operation, entries, recorded,
                   seen, answer, collided>>

\* updateWalletWithLock, the case, the ledger entry and the completed operation.
Commit(r) ==
    LET w == WalletOf[r] IN
    /\ phase[r] = "read"
    /\ Unchanged(r)
    /\ CaseUntouched(r) \/ CaseMoves(r)
    /\ balance' = [balance EXCEPT ![w] = seen[r].balance + Delta(r)]
    /\ available' = [available EXCEPT ![w] = seen[r].available + Delta(r)]
    /\ \E instant \in Instants(w) :
          /\ stamp' = [stamp EXCEPT ![w] = instant]
          /\ collided' = [collided EXCEPT ![w] = @ \/ instant = stamp[w]]
    /\ status' = IF CaseMoves(r)
                 THEN [status EXCEPT ![CaseOf[r]] = Settles(KindOf[r])] ELSE status
    /\ entries' = entries \cup {r}
    /\ recorded' = [recorded EXCEPT ![w] = @ + Delta(r)]
    /\ operation' = [operation EXCEPT ![KeyOf[r]] = r]
    /\ answer' = [answer EXCEPT ![r] = r]
    /\ phase' = [phase EXCEPT ![r] = "done"]
    /\ UNCHANGED seen

\* The row changed since it was read, or another transaction created it first.
LockConflict(r) ==
    /\ phase[r] = "read"
    /\ ~Unchanged(r)
    /\ phase' = [phase EXCEPT ![r] = "failed"]
    /\ UNCHANGED <<balance, available, stamp, status, operation, entries, recorded,
                   seen, answer, collided>>

\* markEscrowReleased, markEscrowRefunded, markPayoutPaid: no row in a claimable status.
CaseConflict(r) ==
    /\ phase[r] = "read"
    /\ Unchanged(r)
    /\ ~CaseUntouched(r) /\ ~CaseMoves(r)
    /\ phase' = [phase EXCEPT ![r] = "failed"]
    /\ UNCHANGED <<balance, available, stamp, status, operation, entries, recorded,
                   seen, answer, collided>>

\* Mutant: the time limit leaves out the wait for the key.
Rollback_OnceReserved(r) ==
    /\ InTransaction(r)
    /\ phase' = [phase EXCEPT ![r] = "failed"]
    /\ UNCHANGED <<balance, available, stamp, status, operation, entries, recorded,
                   seen, answer, collided>>

\* The 30 s limit (the wait for the key included), a lost connection or the end of
\* the process: the transaction is rolled back.
Rollback(r) ==
    /\ phase[r] = "waiting" \/ InTransaction(r)
    /\ phase' = [phase EXCEPT ![r] = "failed"]
    /\ UNCHANGED <<balance, available, stamp, status, operation, entries, recorded,
                   seen, answer, collided>>

\* The caller tries a failed command again under the same key.
Retry(r) ==
    /\ phase[r] = "failed"
    /\ phase' = [phase EXCEPT ![r] = "idle"]
    /\ UNCHANGED <<balance, available, stamp, status, operation, entries, recorded,
                   seen, answer, collided>>

Step(r) == \/ Reserve(r) \/ ReturnEarlier(r) \/ ReadWallet(r) \/ RefuseFunds(r)
           \/ Commit(r) \/ LockConflict(r) \/ CaseConflict(r)

Next == \E r \in Requests : Call(r) \/ Step(r) \/ Rollback(r) \/ Retry(r)

Spec == Init /\ [][Next]_vars

\* An open transaction goes on: the code awaits one query after the other, and
\* Postgres answers or the time limit of the transaction ends it.
FairSpec == Spec /\ \A r \in Requests : WF_vars(Step(r) \/ Rollback(r))

-----------------------------------------------------------------------------

SeenWallets == [balance : Nat, available : Nat, stamp : Nat]

\* Type invariant.  Balances are naturals, so no command overdraws a wallet,
\* whatever the two writes of one millisecond do to its balance.
TypeOK ==
    /\ balance \in [Wallets -> Nat]
    /\ available \in [Wallets -> Nat]
    /\ stamp \in [Wallets -> Nat]
    /\ status \in [Cases -> CaseStatuses]
    /\ operation \in [Keys -> Requests \cup {NoRequest}]
    /\ entries \in SUBSET Requests
    /\ recorded \in [Wallets -> Int]
    /\ phase \in [Requests -> Phases]
    /\ seen \in [Requests -> SeenWallets]
    /\ answer \in [Requests -> Requests \cup {NoRequest}]
    /\ collided \in [Wallets -> BOOLEAN]

\* The ledger explains the balance: what a wallet holds is its opening balance
\* plus the entries of runPrismaFirstOperation, no update being lost between two
\* commands, unless two writes of the wallet fell in the same millisecond and the
\* comparison of updatedAt could not tell them apart.
LedgerExplainsBalance ==
    \A w \in Wallets : ~collided[w] => balance[w] = Opening[w] + recorded[w]

\* One effect per key: whatever calls and retries carry an idempotency key, one
\* ledger entry at most exists for it, and it is the completed operation's.
AppliedOncePerKey ==
    \A r \in entries : operation[KeyOf[r]] = r

\* Replays agree: every call that was answered reports the operation that took
\* effect for its key, whether it ran it or found it completed.
AnswersAgree ==
    \A r \in Requests : phase[r] = "done" =>
        /\ answer[r] \in entries
        /\ answer[r] = operation[KeyOf[r]]

\* One side is paid: the same escrow never pays its provider and refunds its
\* client (the statuses markEscrowReleased and markEscrowRefunded accept), as
\* long as the case has a row for those guards to read.
OneSidePaid ==
    \A r, q \in entries :
        /\ CaseOf[r] = CaseOf[q]
        /\ CaseOf[r] # NoCase
        /\ CaseStart[CaseOf[r]] # "missing"
        /\ {KindOf[r], KindOf[q]} \subseteq {"escrow_release", "refund"}
        => KindOf[r] = KindOf[q]

\* A settled case stays settled: no command takes a case out of the status that
\* paid for it.
SettlementIsFinal ==
    [][\A c \in Cases : status[c] \in {"released", "refunded", "paid"}
                          => status'[c] = status[c]]_vars

\* Atomic commands: seen from outside, the interleaved transactions are the single
\* steps of LedgerContract (when no two writes share a millisecond).
Contract == INSTANCE LedgerContract
    WITH funds <- balance, applied <- {k \in Keys : operation[k] # NoRequest},
         Moves <- [k \in Keys |-> {<<WalletOf[r], Delta(r)>> :
                                      r \in {q \in Requests : KeyOf[q] = k}}]
KeepsContract == Contract!Spec

\* No call hangs: a command that waits for its key, or runs, is answered, though
\* another command may hold the key and its wallet at the time.
EveryCallIsAnswered ==
    \A r \in Requests :
        phase[r] \in {"waiting", "reserved", "read"} ~> phase[r] \in {"done", "failed"}
=============================================================================
