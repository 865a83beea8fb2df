----------------------- MODULE DexPaySettlementProofs -----------------------
(***************************************************************************)
(* Theorems about DexPaySettlement, for any number of synchronisations,    *)
(* webhook events, tries and restarts.                                     *)
(***************************************************************************)
EXTENDS DexPaySettlement, TLAPS

USE DeliveriesAreWellFormed, NoneIsNoRow

\* An answer of the provider leaves a transaction of the store well formed.
LEMMA UpdatedIsTransaction ==
  ASSUME NEW tx \in Transactions, NEW raw \in OrderStatuses
  PROVE  Updated(tx, raw) \in Transactions
<1>1. Settles(tx, raw) \in BOOLEAN
  BY Zenon DEF Settles
<1>2. StoredStatus(NextState(tx, raw)) \in {"pending", "completed", "failed"}
  BY DEF StoredStatus
<1>3. QED
  BY <1>1, <1>2 DEF Updated, Transactions

\* Rows, receipts, handlers and history keep their types.
THEOREM TypeCorrect == Spec => []TypeOK
<1> USE DEF TypeOK, Phases
<1>1. Init => TypeOK
  <2>1. NewOrder \in Transactions /\ "PENDING" \in OrderStatuses
    BY DEF NewOrder, Transactions, OrderStatuses
  <2>2. 0 \in 0..MaxTries /\ 0 \in 0..MaxRestarts
    OBVIOUS
  <2>3. Init => app \in Tables /\ memory \in Tables
    BY <2>1 DEF Init, Tables
  <2>4. Init => {overtaken, late, dropped} \subseteq BOOLEAN
    BY DEF Init
  <2>5. Init => /\ phase \in [Syncs -> Phases] /\ order \in [Syncs -> OrderStatuses]
                /\ batch \in [Syncs -> Batches \cup {None}]
                /\ \A s \in Syncs : phase[s] = "idle" /\ batch[s] = None
    BY <2>1 DEF Init
  <2>6. Init => /\ receipt \in [Events -> {"none", "received", "processed", "failed"}]
                /\ tries \in [Syncs -> 0..MaxTries] /\ restarts \in 0..MaxRestarts
                /\ snapshot = None /\ provider = "PENDING"
    BY <2>2 DEF Init
  <2>7. QED
    BY <2>1, <2>3, <2>4, <2>5, <2>6
<1>2. TypeOK /\ [Next]_vars => TypeOK'
  <2> SUFFICES ASSUME TypeOK, [Next]_vars PROVE TypeOK'
    OBVIOUS
  <2> USE DEF rows, history, Move
  <2>1. CASE ProviderMoves
    BY <2>1 DEF ProviderMoves
  <2>2. ASSUME NEW s \in Syncs, Deliver(s) PROVE TypeOK'
    BY <2>2 DEF Deliver, Begin
  <2>3. ASSUME NEW s \in Syncs, MarkReceived(s) PROVE TypeOK'
    BY <2>3 DEF MarkReceived
  <2>4. ASSUME NEW s \in Syncs, Ask(s) PROVE TypeOK'
    BY <2>4 DEF Ask, Begin
  <2>5. ASSUME NEW s \in Syncs, Answer(s) PROVE TypeOK'
    BY <2>5 DEF Answer
  <2>6. ASSUME NEW s \in Syncs, Apply(s) PROVE TypeOK'
    <3>1. /\ memory.tx \in Transactions /\ memory.credits \in Nat
          /\ order[s] \in OrderStatuses /\ "PENDING" \in OrderStatuses
      BY DEF Tables, OrderStatuses
    <3>2. Updated(memory.tx, order[s]) \in Transactions
      BY <3>1, UpdatedIsTransaction
    <3>3. memory' \in Tables /\ memory'.tx \in Transactions
      BY <2>6, <3>1, <3>2 DEF Apply, Tables
    <3>4. PICK b \in Batches : batch' = [batch EXCEPT ![s] = b]
      <4>1. [tx |-> memory'.tx,
             wallet |-> IF Settles(memory.tx, order[s]) THEN {memory.credits + 1} ELSE {}]
              \in Batches
        BY <3>1, <3>3 DEF Batches
      <4>2. QED
        BY <2>6, <4>1 DEF Apply
    <3>5. /\ phase' = [phase EXCEPT ![s] = "persisting"] /\ order' \in [Syncs -> OrderStatuses]
          /\ late' \in BOOLEAN
      BY <2>6, <3>1 DEF Apply
    <3>6. batch' \in [Syncs -> Batches \cup {None}]
      BY <3>4
    <3>7. \A t \in Syncs : phase'[t] = "persisting" <=> batch'[t] # None
      BY <3>4, <3>5
    <3>8. UNCHANGED <<provider, app, snapshot, receipt, tries, restarts, overtaken, dropped>>
      BY <2>6 DEF Apply
    <3>9. QED
      BY <3>3, <3>5, <3>6, <3>7, <3>8
  <2>7. ASSUME NEW s \in Syncs, Persist(s) PROVE TypeOK'
    BY <2>7 DEF Persist, Tables, Batches, Older
  <2>8. ASSUME NEW s \in Syncs, Finish(s) PROVE TypeOK'
    BY <2>8 DEF Finish
  <2>9. ASSUME NEW s \in Syncs, Fail(s) PROVE TypeOK'
    BY <2>9 DEF Fail
  <2>10. CASE ReadAppRows
    BY <2>10 DEF ReadAppRows
  <2>11. CASE ResetStore
    BY <2>11 DEF ResetStore
  <2>12. CASE Restart
    BY <2>12 DEF Restart, OrderStatuses, Running
  <2>13. CASE UNCHANGED vars
    BY <2>13 DEF vars
  <2>14. QED
    BY <2>1, <2>2, <2>3, <2>4, <2>5, <2>6, <2>7, <2>8, <2>9, <2>10, <2>11, <2>12, <2>13
       DEF Next, Step
<1>3. QED
  BY <1>1, <1>2, PTL DEF Spec

-----------------------------------------------------------------------------
\* A balance holds the deposit once at most, and not at all while the transaction next
\* to it is not settled.
Single(table) == table.credits <= 1 /\ (~table.tx.settled => table.credits = 0)

\* Rows collected with a credit are those of a settled transaction.
SingleBatch(b) == b.wallet \in SUBSET {1} /\ (b.wallet # {} => b.tx.settled)

\* While nothing is overtaken, whatever the store, a reload or AppRow shows is single.
CreditInv ==
  ~overtaken =>
    /\ Single(app) /\ Single(memory)
    /\ snapshot # None => Single(snapshot)
    /\ \A s \in Syncs : batch[s] # None => SingleBatch(batch[s])

LEMMA CreditInvariant == Spec => []CreditInv
<1> USE DEF CreditInv
<1>1. Init => CreditInv
  BY DEF Init, NewOrder, Single
<1>2. TypeOK /\ CreditInv /\ [Next]_vars => CreditInv'
  <2> SUFFICES ASSUME TypeOK, CreditInv, [Next]_vars PROVE CreditInv'
    OBVIOUS
  <2> USE DEF TypeOK, rows, history, Move
  <2>1. CASE ProviderMoves
    BY <2>1 DEF ProviderMoves
  <2>2. ASSUME NEW s \in Syncs, Deliver(s) PROVE CreditInv'
    BY <2>2 DEF Deliver
  <2>3. ASSUME NEW s \in Syncs, MarkReceived(s) PROVE CreditInv'
    BY <2>3 DEF MarkReceived
  <2>4. ASSUME NEW s \in Syncs, Ask(s) PROVE CreditInv'
    BY <2>4 DEF Ask
  <2>5. ASSUME NEW s \in Syncs, Answer(s) PROVE CreditInv'
    BY <2>5 DEF Answer
  <2>6. ASSUME NEW s \in Syncs, Apply(s), ~overtaken PROVE CreditInv'
    <3> DEFINE settles == Settles(memory.tx, order[s])
               touched == [tx |-> memory'.tx,
                           wallet |-> IF settles THEN {memory.credits + 1} ELSE {}]
    <3>1. /\ memory'.tx.settled = (memory.tx.settled \/ settles)
          /\ memory'.credits = IF settles THEN memory.credits + 1 ELSE memory.credits
          /\ batch' = [batch EXCEPT ![s] = touched]
          /\ UNCHANGED <<app, snapshot, overtaken>>
      BY <2>6 DEF Apply, Updated
    <3>2. memory.credits \in Nat /\ memory.tx.settled \in BOOLEAN
      BY DEF Tables, Transactions
    <3>3. settles => memory.credits = 0
      BY <2>6 DEF Settles, Single
    <3> HIDE DEF settles
    <3>4. CASE settles
      <4>1. memory'.credits = 1
        BY <3>1, <3>3, <3>4
      <4>2. memory'.tx.settled
        BY <3>1, <3>4, Zenon
      <4>3. touched.wallet = {memory.credits + 1}
        BY <3>4
      <4>4. touched.wallet = {1}
        BY <3>3, <3>4, <4>3
      <4>5. Single(memory')
        BY <4>1, <4>2 DEF Single
      <4>6. SingleBatch(touched)
        BY <4>2, <4>4 DEF SingleBatch
      <4> HIDE DEF touched
      <4>7. QED
        BY <2>6, <3>1, <4>5, <4>6
    <3>5. CASE ~settles
      <4>1. memory'.credits = memory.credits /\ memory'.tx.settled = memory.tx.settled
        BY <3>1, <3>2, <3>5
      <4>2. Single(memory') /\ SingleBatch(touched)
        BY <2>6, <3>5, <4>1 DEF Single, SingleBatch
      <4> HIDE DEF touched
      <4>3. QED
        BY <2>6, <3>1, <4>2
    <3>6. QED
      BY <3>4, <3>5
  <2>7. ASSUME NEW s \in Syncs, Persist(s), ~overtaken' PROVE CreditInv'
    <3>1. /\ ~overtaken /\ SingleBatch(batch[s]) /\ ~(app.tx.settled /\ ~batch[s].tx.settled)
          /\ batch[s] # None
      BY <2>7 DEF Persist, Older
    <3>2. /\ app'.tx = batch[s].tx
          /\ app'.credits = IF batch[s].wallet = {} THEN app.credits ELSE 1
      BY <2>7, <3>1 DEF Persist, SingleBatch
    <3>3. Single(app')
      BY <3>1, <3>2 DEF Single, SingleBatch, Tables, Transactions
    <3>4. \A t \in Syncs : batch'[t] # None => batch'[t] = batch[t]
      BY <2>7 DEF Persist
    <3>5. QED
      BY <2>7, <3>1, <3>3, <3>4 DEF Persist
  <2>8. ASSUME NEW s \in Syncs, Finish(s) PROVE CreditInv'
    BY <2>8 DEF Finish
  <2>9. ASSUME NEW s \in Syncs, Fail(s) PROVE CreditInv'
    BY <2>9 DEF Fail
  <2>10. CASE ReadAppRows
    BY <2>10 DEF ReadAppRows
  <2>11. CASE ResetStore
    BY <2>11 DEF ResetStore
  <2>12. CASE Restart
    BY <2>12 DEF Restart
  <2>13. CASE UNCHANGED vars
    BY <2>13 DEF vars
  <2>14. ASSUME NEW s \in Syncs, Apply(s), overtaken PROVE CreditInv'
    BY <2>14 DEF Apply
  <2>15. QED
    BY <2>1, <2>2, <2>3, <2>4, <2>5, <2>6, <2>7, <2>8, <2>9, <2>10, <2>11, <2>12, <2>13,
       <2>14 DEF Next, Step
<1>3. QED
  BY <1>1, <1>2, TypeCorrect, PTL DEF Spec

\* However many webhooks, users and reconciliations synchronise a deposit, it is credited
\* once at most, unless a write put an older row of the transaction over a newer one.
THEOREM DepositsAreCreditedOnce == Spec => []CreditedOnce
<1>1. CreditInv => CreditedOnce
  BY DEF CreditInv, CreditedOnce, Single
<1>2. QED
  BY <1>1, CreditInvariant, PTL

-----------------------------------------------------------------------------
\* The credit of a settlement is in AppRow, on its way, or lost.
Accounted == app.credits >= 1 \/ (\E s \in Syncs : Carries(s)) \/ dropped

\* Wherever the transaction is settled, its credit is accounted for.
SettledInv ==
  /\ app.tx.settled \/ memory.tx.settled => Accounted
  /\ snapshot # None /\ snapshot.tx.settled => Accounted
  /\ \A s \in Syncs : batch[s] # None =>
        /\ batch[s].tx.settled => Accounted
        /\ \A c \in batch[s].wallet : c >= 1

LEMMA SettledInvariant == Spec => []SettledInv
<1> USE DEF SettledInv
<1>1. Init => SettledInv
  BY DEF Init, NewOrder
<1>2. TypeOK /\ TypeOK' /\ SettledInv /\ [Next]_vars => SettledInv'
  <2> SUFFICES ASSUME TypeOK, TypeOK', SettledInv, [Next]_vars PROVE SettledInv'
    OBVIOUS
  <2> USE DEF TypeOK, rows, history, Move, Accounted, Carries
  <2>1. CASE ProviderMoves
    BY <2>1 DEF ProviderMoves
  <2>2. ASSUME NEW s \in Syncs, Deliver(s) PROVE SettledInv'
    BY <2>2 DEF Deliver
  <2>3. ASSUME NEW s \in Syncs, MarkReceived(s) PROVE SettledInv'
    BY <2>3 DEF MarkReceived
  <2>4. ASSUME NEW s \in Syncs, Ask(s) PROVE SettledInv'
    BY <2>4 DEF Ask
  <2>5. ASSUME NEW s \in Syncs, Answer(s) PROVE SettledInv'
    BY <2>5 DEF Answer
  <2>6. ASSUME NEW s \in Syncs, Apply(s) PROVE SettledInv'
    <3> DEFINE settles == Settles(memory.tx, order[s])
               touched == [tx |-> memory'.tx,
                           wallet |-> IF settles THEN {memory.credits + 1} ELSE {}]
    <3>1. /\ memory'.tx.settled = (memory.tx.settled \/ settles)
          /\ batch' = [batch EXCEPT ![s] = touched]
          /\ UNCHANGED <<app, snapshot, dropped>> /\ batch[s] = None
      BY <2>6 DEF Apply, Updated
    <3>2. memory.credits \in Nat
      BY DEF Tables
    <3> HIDE DEF settles
    <3>3. \A c \in touched.wallet : c >= 1
      BY <3>2
    <3>4. touched # None
      BY <2>6, <3>1 DEF Apply
    <3>5. Accounted => Accounted'
      BY <3>1
    <3>6. settles => Accounted'
      BY <3>1, <3>4
    <3>7. touched.tx.settled => Accounted'
      BY <3>1, <3>5, <3>6
    <3> HIDE DEF touched, Accounted
    <3>8. QED
      BY <3>1, <3>3, <3>5, <3>6, <3>7
  <2>7. ASSUME NEW s \in Syncs, Persist(s) PROVE SettledInv'
    <3>1. /\ batch[s] # None /\ app'.tx = batch[s].tx
          /\ app'.credits = IF batch[s].wallet = {} THEN app.credits
                            ELSE CHOOSE c \in batch[s].wallet : TRUE
          /\ batch' = [batch EXCEPT ![s] = None]
          /\ UNCHANGED <<memory, snapshot, dropped>>
      BY <2>7 DEF Persist
    <3>2. Carries(s) => app'.credits >= 1
      BY <3>1
    <3>3. ~Carries(s) => app'.credits = app.credits
      BY <3>1
    <3>4. Accounted => Accounted'
      BY <3>1, <3>2, <3>3
    <3>5. \A t \in Syncs : batch'[t] # None => batch'[t] = batch[t]
      BY <3>1
    <3> HIDE DEF Accounted, Carries
    <3>6. QED
      BY <3>1, <3>4, <3>5
  <2>8. ASSUME NEW s \in Syncs, Finish(s) PROVE SettledInv'
    BY <2>8 DEF Finish
  <2>9. ASSUME NEW s \in Syncs, Fail(s) PROVE SettledInv'
    <3>1. /\ batch' = [batch EXCEPT ![s] = None] /\ dropped' = (dropped \/ Carries(s))
          /\ UNCHANGED <<app, memory, snapshot>>
      BY <2>9 DEF Fail
    <3>2. Accounted => Accounted'
      BY <3>1
    <3>3. \A t \in Syncs : batch'[t] # None => batch'[t] = batch[t]
      BY <3>1
    <3> HIDE DEF Accounted, Carries
    <3>4. QED
      BY <3>1, <3>2, <3>3
  <2>10. CASE ReadAppRows
    BY <2>10 DEF ReadAppRows
  <2>11. CASE ResetStore
    BY <2>11 DEF ResetStore
  <2>12. CASE Restart
    BY <2>12 DEF Restart
  <2>13. CASE UNCHANGED vars
    BY <2>13 DEF vars
  <2>14. QED
    BY <2>1, <2>2, <2>3, <2>4, <2>5, <2>6, <2>7, <2>8, <2>9, <2>10, <2>11, <2>12, <2>13
       DEF Next, Step
<1>3. QED
  BY <1>1, <1>2, TypeCorrect, PTL DEF Spec

\* A settlement that AppRow shows has its credit there, or on its way, or it was lost
\* with a write that failed after the store had marked the transaction settled.
THEOREM SettlementsAreCredited == Spec => []SettledIsCredited
<1>1. SettledInv => SettledIsCredited
  BY DEF SettledInv, SettledIsCredited, Accounted
<1>2. QED
  BY <1>1, SettledInvariant, PTL
-----------------------------------------------------------------------------
\* A transaction that names a completed order is completed.
Coherent(tx) == tx.provider_status = "COMPLETED" => tx.status = "completed"

\* The lifecycle state of an order that was completed and settled.
IsReconciled(tx) == Lifecycle(tx) = "reconciled"

\* Every copy of the transaction is coherent.  A handler of a webhook runs only once the
\* order is completed, which is then what it is answered and what it writes; while nothing
\* is overtaken AppRow keeps what such a handler has written.
AppliedInv ==
  /\ Coherent(app.tx) /\ Coherent(memory.tx)
  /\ snapshot # None => Coherent(snapshot.tx)
  /\ \A s \in Syncs :
        /\ batch[s] # None => Coherent(batch[s].tx)
        /\ EventOf[s] # NoEvent =>
              /\ phase[s] \in {"checked", "asking"} => provider = "COMPLETED"
              /\ phase[s] = "answered" => order[s] = "COMPLETED"
              /\ phase[s] = "persisting" => IsReconciled(batch[s].tx)
              /\ phase[s] = "finishing" /\ ~overtaken => IsReconciled(app.tx)
  /\ \A e \in Events : receipt[e] = "processed" /\ ~overtaken => IsReconciled(app.tx)

LifecycleStates == {"pending_provider", "processing", "confirmed", "reconciled", "failed"}

LEMMA LifecycleOfTransaction ==
  ASSUME NEW tx \in Transactions
  PROVE  /\ Lifecycle(tx) \in LifecycleStates
         /\ Lifecycle(tx) = "reconciled" => tx.status = "completed" /\ tx.settled
         /\ tx.settled /\ Coherent(tx) => Lifecycle(tx) # "confirmed"
         /\ Lifecycle(tx) \in {"confirmed", "reconciled"} /\ Coherent(tx) => tx.status = "completed"
BY DEF Lifecycle, LifecycleStates, Transactions, OrderStatuses, Coherent

\* A settled payment is ahead of every other state, a confirmed one of those before it.
LEMMA AheadOnTheWay ==
  /\ \A c \in LifecycleStates \ {"reconciled"} : Ahead(TransactionGraph, c, "reconciled")
  /\ \A c \in LifecycleStates \ {"reconciled", "confirmed"} :
        Ahead(TransactionGraph, c, "confirmed")
<1> DEFINE G == TransactionGraph
<1>1. /\ DOMAIN G = {"initiated", "pending_provider", "processing", "confirmed", "failed",
                     "refunded", "reconciled"}
      /\ "confirmed" \in G["pending_provider"] /\ "confirmed" \in G["processing"]
      /\ "pending_provider" \in G["failed"]
      /\ G["confirmed"] = {"refunded", "reconciled"}
      /\ G["refunded"] = {} /\ G["reconciled"] = {}
  BY DEF TransactionGraph
<1> HIDE DEF G
<1>2. \A c \in LifecycleStates \ {"reconciled"} : CanReach(G, c, "reconciled")
  BY <1>1 DEF CanReach, Known, LifecycleStates
<1>3. \A c \in LifecycleStates \ {"reconciled", "confirmed"} : CanReach(G, c, "confirmed")
  BY <1>1 DEF CanReach, Known, LifecycleStates
<1>4. \A c \in LifecycleStates \ {"reconciled"} : ~CanReach(G, "reconciled", c)
  <2>1. {"reconciled"} \in SUBSET DOMAIN G
    BY <1>1
  <2>2. QED
    BY <1>1, <2>1 DEF CanReach
<1>5. \A c \in LifecycleStates \ {"reconciled", "confirmed"} : ~CanReach(G, "confirmed", c)
  <2>1. {"confirmed", "refunded", "reconciled"} \in SUBSET DOMAIN G
    BY <1>1
  <2>2. QED
    BY <1>1, <2>1 DEF CanReach, LifecycleStates
<1>6. QED
  BY <1>2, <1>3, <1>4, <1>5 DEF Ahead, G

\* Whatever a coherent transaction was, the answer "completed" settles it.
LEMMA CompletedSettles ==
  ASSUME NEW tx \in Transactions, Coherent(tx)
  PROVE  IsReconciled(Updated(tx, "COMPLETED"))
<1> DEFINE L == Lifecycle(tx)
           goal == IF tx.settled THEN "reconciled" ELSE "confirmed"
<1>1. Attempted(tx, "COMPLETED") = goal
  BY DEF Attempted, Lifecycle, Mapped, Transactions
<1>2. /\ L \in LifecycleStates /\ (L = "reconciled" => tx.settled)
      /\ tx.settled => L # "confirmed"
      /\ L = goal => tx.status = "completed"
  BY LifecycleOfTransaction
<1>3. L = goal \/ Ahead(TransactionGraph, L, goal)
  BY <1>2, AheadOnTheWay
<1>4. L \in DOMAIN TransactionGraph /\ goal \in DOMAIN TransactionGraph
  BY <1>2 DEF TransactionGraph, LifecycleStates
<1> HIDE DEF L, goal
<1>5. NextState(tx, "COMPLETED") = goal
  <2>1. NextState(tx, "COMPLETED") = Resolved(TransactionGraph, L, goal)
    BY <1>1, <1>4 DEF NextState, Resolve, L
  <2>2. QED
    BY <1>3, <1>4, <2>1 DEF Resolved, StateAfter, Decision, DecisionFrom, Known, Ahead
<1>6. Updated(tx, "COMPLETED") = [status |-> "completed", provider_status |-> "COMPLETED",
                                  settled |-> TRUE]
  <2>1. StoredStatus(goal) = "completed"
    BY DEF StoredStatus, goal
  <2>2. tx.settled \/ Settles(tx, "COMPLETED")
    BY <1>5 DEF Settles, goal
  <2>3. QED
    BY <1>2, <1>5, <2>1, <2>2 DEF Updated, L
<1>7. QED
  BY <1>6 DEF IsReconciled, Lifecycle

LEMMA UpdatedIsCoherent ==
  ASSUME NEW tx \in Transactions, Coherent(tx), NEW raw \in OrderStatuses
  PROVE  Coherent(Updated(tx, raw))
<1>1. CASE raw = "COMPLETED"
  <2>1. Updated(tx, raw) \in Transactions /\ IsReconciled(Updated(tx, raw))
    BY <1>1, CompletedSettles, UpdatedIsTransaction
  <2>2. QED
    BY <2>1, LifecycleOfTransaction DEF IsReconciled, Coherent
<1>2. CASE raw # "COMPLETED"
  BY <1>2 DEF Updated, Coherent
<1>3. QED
  BY <1>1, <1>2

LEMMA AppliedInvariant == Spec => []AppliedInv
<1> USE DEF AppliedInv
<1>1. Init => AppliedInv
  BY DEF Init, NewOrder, Coherent
<1>2. TypeOK /\ AppliedInv /\ [Next]_vars => AppliedInv'
  <2> SUFFICES ASSUME TypeOK, AppliedInv, [Next]_vars PROVE AppliedInv'
    OBVIOUS
  <2> USE DEF TypeOK, rows, history, Move
  <2>1. CASE ProviderMoves
    BY <2>1 DEF ProviderMoves
  <2>2. ASSUME NEW s \in Syncs, Deliver(s) PROVE AppliedInv'
    BY <2>2 DEF Deliver
  <2>3. ASSUME NEW s \in Syncs, MarkReceived(s) PROVE AppliedInv'
    BY <2>3 DEF MarkReceived
  <2>4. ASSUME NEW s \in Syncs, Ask(s) PROVE AppliedInv'
    BY <2>4 DEF Ask
  <2>5. ASSUME NEW s \in Syncs, Answer(s) PROVE AppliedInv'
    BY <2>5 DEF Answer
  <2>6. ASSUME NEW s \in Syncs, Apply(s) PROVE AppliedInv'
    <3> DEFINE touched == [tx |-> memory'.tx,
                           wallet |-> IF Settles(memory.tx, order[s]) THEN {memory.credits + 1}
                                      ELSE {}]
    <3>1. /\ phase[s] = "answered" /\ memory.tx \in Transactions /\ order[s] \in OrderStatuses
          /\ memory'.tx = Updated(memory.tx, order[s])
          /\ batch' = [batch EXCEPT ![s] = touched]
          /\ phase' = [phase EXCEPT ![s] = "persisting"]
          /\ \A t \in Syncs \ {s} : order'[t] = order[t]
          /\ UNCHANGED <<provider, app, snapshot, receipt, overtaken>>
      BY <2>6 DEF Apply, Tables
    <3>2. Coherent(memory'.tx)
      BY <3>1, UpdatedIsCoherent
    <3>3. EventOf[s] # NoEvent => IsReconciled(memory'.tx)
      BY <3>1, CompletedSettles
    <3>4. touched.tx = memory'.tx
      OBVIOUS
    <3> HIDE DEF touched
    <3>5. QED
      BY <3>1, <3>2, <3>3, <3>4
  <2>7. ASSUME NEW s \in Syncs, Persist(s) PROVE AppliedInv'
    <3>1. /\ phase[s] = "persisting" /\ batch[s] # None /\ batch[s].tx \in Transactions
          /\ app'.tx = batch[s].tx /\ overtaken' = (overtaken \/ Older(batch[s].tx))
          /\ batch' = [batch EXCEPT ![s] = None]
          /\ phase' = [phase EXCEPT ![s] = "finishing"]
          /\ UNCHANGED <<provider, memory, snapshot, receipt, order>>
      BY <2>7 DEF Persist, Batches
    <3>2. ~overtaken' /\ IsReconciled(app.tx) => IsReconciled(app'.tx)
      BY <3>1, LifecycleOfTransaction, AheadOnTheWay DEF Older, IsReconciled
    <3>3. QED
      BY <3>1, <3>2
  <2>8. ASSUME NEW s \in Syncs, Finish(s) PROVE AppliedInv'
    BY <2>8 DEF Finish
  <2>9. ASSUME NEW s \in Syncs, Fail(s) PROVE AppliedInv'
    <3>1. /\ phase' = [phase EXCEPT ![s] = "failed"] /\ batch' = [batch EXCEPT ![s] = None]
          /\ \A e \in Events : receipt'[e] = "processed" => receipt[e] = "processed"
          /\ UNCHANGED <<provider, rows, order, overtaken>>
      BY <2>9 DEF Fail
    <3>2. QED
      BY <3>1
  <2>10. CASE ReadAppRows
    BY <2>10 DEF ReadAppRows
  <2>11. CASE ResetStore
    BY <2>11 DEF ResetStore
  <2>12. CASE Restart
    BY <2>12 DEF Restart, Running
  <2>13. CASE UNCHANGED vars
    BY <2>13 DEF vars
  <2>14. QED
    BY <2>1, <2>2, <2>3, <2>4, <2>5, <2>6, <2>7, <2>8, <2>9, <2>10, <2>11, <2>12, <2>13
       DEF Next, Step
<1>3. QED
  BY <1>1, <1>2, TypeCorrect, PTL DEF Spec

\* A webhook that is processed has taken effect in AppRow, whatever was answered, written
\* or reloaded around it, unless an older row was written over a newer one.
THEOREM ProcessedEventsAreApplied == Spec => []ProcessedIsApplied
<1>1. TypeOK /\ AppliedInv => ProcessedIsApplied
  BY LifecycleOfTransaction DEF TypeOK, Tables, AppliedInv, IsReconciled, ProcessedIsApplied
<1>2. QED
  BY <1>1, AppliedInvariant, TypeCorrect, PTL
=============================================================================
