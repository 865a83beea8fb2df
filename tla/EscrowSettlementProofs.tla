----------------------- MODULE EscrowSettlementProofs -----------------------
(***************************************************************************)
(* Theorems about EscrowSettlement, for any number of calls, whichever     *)
(* side each of them settles, and any number of crashes.                   *)
(***************************************************************************)
EXTENDS EscrowSettlement, FiniteSetTheorems, TLAPS

USE CallsAreWellFormed, NoSnapshotIsNoStatus

\* Statuses, calls and history keep their types.
THEOREM TypeCorrect == Spec => []TypeOK
<1> USE DEF TypeOK, Statuses, Claimable, Settled, Phases
<1>1. Init => TypeOK
  <2>1. Init => funded \in BOOLEAN
    BY Zenon DEF Init
  <2>2. 0 \in 0..MaxCrashes
    OBVIOUS
  <2>3. Init => phase \in [Calls -> Phases]
    BY Zenon DEF Init
  <2>4. QED
    BY <2>1, <2>2, <2>3, Zenon DEF Init
<1>2. TypeOK /\ [Next]_vars => TypeOK'
  <2> SUFFICES ASSUME TypeOK, [Next]_vars PROVE TypeOK'
    OBVIOUS
  <2>1. ASSUME NEW a \in Calls, Start(a) PROVE TypeOK'
    BY <2>1 DEF Start, Move, escrow
  <2>2. ASSUME NEW a \in Calls, Refuse(a) PROVE TypeOK'
    BY <2>2 DEF Refuse, Move, escrow, history
  <2>3. ASSUME NEW a \in Calls, Pay(a) PROVE TypeOK'
    BY <2>3 DEF Pay, Move, escrow
  <2>4. ASSUME NEW a \in Calls, PayFails(a) PROVE TypeOK'
    BY <2>4 DEF PayFails, Move, escrow, history
  <2>5. ASSUME NEW a \in Calls, Sync(a) PROVE TypeOK'
    BY <2>5 DEF Sync, Move, escrow, history
  <2>6. ASSUME NEW a \in Calls, Persist(a) PROVE TypeOK'
    BY <2>6 DEF Persist, Move, escrow, history
  <2>7. ASSUME NEW a \in Calls, WriteFails(a) PROVE TypeOK'
    BY <2>7 DEF WriteFails, Move, escrow, history
  <2>8. CASE ReadAppRows
    BY <2>8 DEF ReadAppRows, escrow, history
  <2>9. CASE ResetStore
    BY <2>9 DEF ResetStore, escrow, history
  <2>10. CASE Crash
    <3>1. phase' \in [Calls -> Phases]
      BY <2>10 DEF Crash
    <3>2. crashes' \in 0..MaxCrashes
      BY <2>10 DEF Crash
    <3>3. QED
      BY <2>10, <3>1, <3>2 DEF Crash, escrow, history
  <2>11. CASE Boot
    BY <2>11 DEF Boot, escrow
  <2>12. CASE UNCHANGED vars
    BY <2>12 DEF vars, escrow, history
  <2>13. QED
    BY <2>1, <2>2, <2>3, <2>4, <2>5, <2>6, <2>7, <2>8, <2>9, <2>10, <2>11, <2>12
       DEF Next, Step
<1>3. QED
  BY <1>1, <1>2, PTL DEF Spec

-----------------------------------------------------------------------------
\* An escrow nobody funded is never released: its rows wait for the money or are
\* refunded, and a refund of nothing pays nothing.
NothingHeld ==
  ~funded =>
    /\ {app, memory} \subseteq {"awaiting_funding", "refunded"}
    /\ snapshot \in {NoSnapshot, "awaiting_funding", "refunded"}
    /\ \A a \in Calls : /\ phase[a] # "paying"
                        /\ phase[a] \in {"syncing", "persisting"} => Target[a] = "refunded"
    /\ paid = {}

\* A call that is past its payment has paid, unless it owed nothing.
PastPayment ==
  \A a \in Calls :
    ~skipped /\ phase[a] \in {"syncing", "persisting"} /\ Payable(Target[a])
      => Target[a] \in paid

\* Only a provider that the escrow names is paid.
NobodyElse ==
  ~provider => /\ "released" \notin paid
               /\ \A a \in Calls : phase[a] = "paying" => Target[a] = "refunded"

\* A guarded payment shows: EscrowCase keeps the status of the side that was paid.
PaymentShows ==
  provider /\ ~unguarded /\ ~rebuilt /\ ~skipped => \A side \in paid : db = side

SettlementInv ==
  /\ NothingHeld
  /\ PastPayment
  /\ NobodyElse
  /\ PaymentShows
  /\ SettledIsPaid

LEMMA SettlementInvariant == Spec => []SettlementInv
<1> USE DEF SettlementInv, NothingHeld, PastPayment, NobodyElse, PaymentShows,
            SettledIsPaid, Payable, TypeOK, Statuses, Claimable, Settled, Phases
<1>1. Init => SettlementInv
  BY DEF Init
<1>2. TypeOK /\ SettlementInv /\ [Next]_vars => SettlementInv'
  <2> SUFFICES ASSUME TypeOK, SettlementInv, [Next]_vars PROVE SettlementInv'
    OBVIOUS
  <2>1. ASSUME NEW a \in Calls, Start(a) PROVE SettlementInv'
    BY <2>1 DEF Start, Move, escrow, Allowed, Successors, Owes
  <2>2. ASSUME NEW a \in Calls, Refuse(a) PROVE SettlementInv'
    BY <2>2 DEF Refuse, Move, escrow, history
  <2>3. ASSUME NEW a \in Calls, Pay(a) PROVE SettlementInv'
    BY <2>3 DEF Pay, Move, escrow, Accepts
  <2>4. ASSUME NEW a \in Calls, PayFails(a) PROVE SettlementInv'
    BY <2>4 DEF PayFails, Move, escrow, history
  <2>5. ASSUME NEW a \in Calls, Sync(a) PROVE SettlementInv'
    BY <2>5 DEF Sync, Move, escrow, history
  <2>6. ASSUME NEW a \in Calls, Persist(a) PROVE SettlementInv'
    BY <2>6 DEF Persist, Move, escrow, history
  <2>7. ASSUME NEW a \in Calls, WriteFails(a) PROVE SettlementInv'
    BY <2>7 DEF WriteFails, Move, escrow, history
  <2>8. CASE ReadAppRows
    BY <2>8 DEF ReadAppRows, escrow, history
  <2>9. CASE ResetStore
    BY <2>9 DEF ResetStore, escrow, history
  <2>10. CASE Crash
    BY <2>10 DEF Crash, escrow, history, Running
  <2>11. CASE Boot
    BY <2>11 DEF Boot, escrow
  <2>12. CASE UNCHANGED vars
    BY <2>12 DEF vars, escrow, history
  <2>13. QED
    BY <2>1, <2>2, <2>3, <2>4, <2>5, <2>6, <2>7, <2>8, <2>9, <2>10, <2>11, <2>12
       DEF Next, Step
<1>3. QED
  BY <1>1, <1>2, TypeCorrect, PTL DEF Spec

\* The guard of the payment is enough where nothing overwrote EscrowCase unpaid: no
\* interleaving of calls, reloads, failures and crashes pays both sides.
THEOREM OneSideIsPaid == Spec => []OneSidePaid
<1>1. TypeOK /\ SettlementInv => OneSidePaid
  <2> SUFFICES ASSUME TypeOK, SettlementInv, ~unguarded, ~rebuilt, ~skipped
               PROVE  Cardinality(paid) <= 1
    BY DEF OneSidePaid
  <2>1. PICK side : paid \subseteq {side}
    BY DEF SettlementInv, PaymentShows, NobodyElse, TypeOK, Settled
  <2>2. paid = {} \/ paid = {side}
    BY <2>1
  <2>3. Cardinality({}) = 0 /\ Cardinality({side}) = 1
    BY FS_EmptySet, FS_Singleton
  <2>4. QED
    BY <2>2, <2>3
<1>2. QED
  BY <1>1, TypeCorrect, SettlementInvariant, PTL

\* A recorded settlement has paid its side, unless a call found in the store a status
\* that an earlier one had put there without paying.
THEOREM SettlementsArePaid == Spec => []SettledIsPaid
BY SettlementInvariant, PTL DEF SettlementInv
=============================================================================
