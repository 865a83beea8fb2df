-------------------------- MODULE PaymentCommands --------------------------
(***************************************************************************)
(* Payout requests and refunds by an administrator, the commands of        *)
(* payment-commands.service.ts around the wallet operations payout_paid    *)
(* and admin_refund.  A payout is marked in the store and copied before    *)
(* its operation runs; a refund runs its operation first and then appends  *)
(* its row, which is what a second refund looks for.  Wallet rows are      *)
(* those of WalletProjection and are left out here.                        *)
(***************************************************************************)
EXTENDS StoreTables, FinanceGuards

VARIABLES
    paying,     \* [Calls -> the command has its wallet operation before it]
    paidOut,    \* payout requests whose operation payout_paid:id is completed
    credited,   \* calls for which the operation admin_refund:transaction:request is completed
    beside      \* history: [Calls -> the calls that ran when a refund began]

paymentVars == <<paying, paidOut, credited, beside>>

PayoutRows == RowsOf("payout_requests")
TransactionRows == RowsOf("payment_transactions")

PayoutValues      == [status : DOMAIN PayoutGraph]
TransactionValues == [type : {"payment"}] \cup [type : {"refund"}, of : TransactionRows]

Running == {c \in Calls : phase[c] \in {"waiting", "resuming", "persisting"}}

\* The refunds of transaction t that a store shows.
RefundsOf(s, t) == {r \in In(s, "payment_transactions") : s[r].type = "refund" /\ s[r].of = t}

-----------------------------------------------------------------------------

\* createPayoutRequest: the identifier of the request is that of the HTTP call, so a call
\* made again finds it; the available balance may be too small.
CreatePayoutRequest(c) ==
    /\ call[c].op = "createPayoutRequest" /\ Ready(c)
    /\ \/ Pass(c, "answered")
       \/ /\ memory[call[c].on] = Absent
          /\ Collect(c, Put(memory, [r \in {call[c].on} |-> [status |-> "pending"]]),
                     {call[c].on})
    /\ UNCHANGED paymentVars

\* Mutant: the status before is read from the row that was patched.
Owes_Patched(c) == FALSE

\* applyPayoutRequestUpdateSideEffects: the request becomes paid.
Owes(c) == call[c].status = "paid" /\ memory[call[c].on].status # "paid"

\* adminUpdatePayoutStatus up to its first await: the row of the store is patched and
\* copied, then the balance of the wallet row is checked.
UpdatePayoutStatus(c) ==
    /\ call[c].op = "adminUpdatePayoutStatus" /\ Ready(c)
    /\ LET r == call[c].on
           next == Put(memory, [x \in {r} |-> [status |-> call[c].status]])
       IN IF memory[r] # Absent /\ MayTransition(PayoutGraph, memory[r].status, call[c].status)
          THEN \/ /\ Collect(c, next, {r})
                  /\ paying' = [paying EXCEPT ![c] = Owes(c)]
               \/ Owes(c) /\ Throw(c, next, {r}) /\ UNCHANGED paying
          ELSE Pass(c, "answered") /\ UNCHANGED paying
    /\ UNCHANGED <<paidOut, credited, beside>>

\* markPayoutPaid accepts the request: by its status in PayoutRequest, which persistRows
\* writes with AppRow, or because there is no such row.
Payable(r) == app[r] = Absent \/ app[r].status \notin {"rejected", "cancelled"}

\* completePayout commits, or had under the same key; its answer may be lost.
CompletePayout(c) ==
    /\ call[c].op = "adminUpdatePayoutStatus" /\ paying[c] /\ phase[c] = "persisting"
    /\ call[c].on \in paidOut \/ Payable(call[c].on)
    /\ paidOut' = paidOut \cup {call[c].on}
    /\ paying' = [paying EXCEPT ![c] = FALSE]
    /\ UNCHANGED storeVars \/ PersistFails(c)
    /\ UNCHANGED <<credited, beside>>

\* completePayout is refused or rolled back: the rows are not persisted.
CompletePayoutFails(c) ==
    /\ call[c].op = "adminUpdatePayoutStatus" /\ paying[c]
    /\ PersistFails(c)
    /\ paying' = [paying EXCEPT ![c] = FALSE]
    /\ UNCHANGED <<paidOut, credited, beside>>

-----------------------------------------------------------------------------

\* Mutant: a refund that exists is not looked for.
Refund_Unchecked(c) ==
    /\ call[c].op = "adminRefundTransaction" /\ Ready(c)
    /\ Pass(c, "waiting")
    /\ paying' = [paying EXCEPT ![c] = TRUE]
    /\ beside' = [beside EXCEPT ![c] = Running]
    /\ UNCHANGED <<paidOut, credited>>

\* adminRefundTransaction from the answer of financialOperation.findUnique on: what comes
\* before only reads the transaction, which stays what it is, and the operation found
\* only chooses between two answers when there is a refund already.
Refund(c) ==
    /\ call[c].op = "adminRefundTransaction" /\ Ready(c)
    /\ IF /\ memory[call[c].on] # Absent /\ memory[call[c].on].type # "refund"
          /\ RefundsOf(memory, call[c].on) = {}
       THEN Pass(c, "waiting") /\ paying' = [paying EXCEPT ![c] = TRUE]
       ELSE Pass(c, "answered") /\ UNCHANGED paying
    /\ beside' = [beside EXCEPT ![c] = Running]
    /\ UNCHANGED <<paidOut, credited>>

\* topupWallet commits, or had under the same key; its answer may be lost.
Credit(c) ==
    /\ call[c].op = "adminRefundTransaction" /\ paying[c]
    /\ credited' = credited \cup {c}
    /\ Settle(c, "resuming") \/ Settle(c, "failed")
    /\ UNCHANGED <<paying, paidOut, beside>>

\* topupWallet is rolled back.
CreditFails(c) ==
    /\ call[c].op = "adminRefundTransaction" /\ paying[c]
    /\ Settle(c, "failed")
    /\ UNCHANGED paymentVars

\* appendPaymentTransaction, the hook of the wallet command: the row of the refund is
\* patched or appended.
RecordRefund(c) ==
    /\ call[c].op = "adminRefundTransaction" /\ phase[c] = "resuming" /\ paying[c]
    /\ Collect(c, Put(memory, [r \in {call[c].refund} |->
                               [type |-> "refund", of |-> call[c].on]]), {call[c].refund})
    /\ paying' = [paying EXCEPT ![c] = FALSE]
    /\ UNCHANGED <<paidOut, credited, beside>>

PaymentSection(c) ==
    \/ CreatePayoutRequest(c) \/ UpdatePayoutStatus(c) \/ CompletePayout(c)
    \/ CompletePayoutFails(c) \/ Refund(c) \/ Credit(c) \/ CreditFails(c) \/ RecordRefund(c)

-----------------------------------------------------------------------------

\* Once no command is about to write a payout request, AppRow shows it paid only if its
\* operation has run, or a failed command had left it paid in the store; and one that was
\* paid out is shown paid, unless a write of it was lost or the store had put it back.
PayoutShows ==
    \A r \in PayoutRows : app[r] # Absent /\ Pending(r) = {} =>
        /\ app[r].status = "paid" => r \in paidOut \cup unsaved
        /\ r \in paidOut => app[r].status = "paid" \/ r \in Dirty

\* Two refunds of one transaction are both credited only if their calls overlapped, one
\* of them failed and left no row to be found, or a reload or a failed write took the
\* row of one from the store or from AppRow.
RefundedOnce ==
    \A c, d \in Calls :
        /\ call[c].op = "adminRefundTransaction" /\ call[d].op = "adminRefundTransaction"
        /\ call[c].on = call[d].on /\ call[c].refund # call[d].refund
        /\ {c, d} \subseteq credited
        => \/ c \in beside[d] \/ d \in beside[c]
           \/ "failed" \in {phase[c], phase[d]}
           \/ {call[c].refund, call[d].refund} \cap Dirty # {}
=============================================================================
