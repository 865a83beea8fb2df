------------------------- MODULE WalletLedgerProofs -------------------------
(***************************************************************************)
(* Theorems about WalletLedger, for any requests, keys, wallets and cases, *)
(* any amounts and any opening balances.                                   *)
(***************************************************************************)
EXTENDS WalletLedger, TLAPS

USE RequestsAreWellFormed, WalletsAreWellFormed

\* The signed amount is an integer, and a funded request never overdraws.
LEMMA DeltaFacts ==
  ASSUME NEW r \in Requests, NEW bal \in Nat, NEW avail \in Nat
  PROVE  /\ Delta(r) \in Int
         /\ Funded(r, bal, avail) => bal + Delta(r) \in Nat /\ avail + Delta(r) \in Nat
<1>1. AmountOf[r] \in Nat /\ KindOf[r] \in Kinds
  OBVIOUS
<1>2. CASE KindOf[r] \in Credits
  BY <1>1, <1>2 DEF Delta
<1>3. CASE KindOf[r] \notin Credits
  <2>1. KindOf[r] \in Debits
    BY <1>1, <1>3 DEF Kinds
  <2>2. QED
    BY <1>1, <1>3, <2>1 DEF Delta, Funded
<1>4. QED
  BY <1>2, <1>3

\* What a transaction read of its wallet pays for its request.
SeenPays ==
  \A r \in Requests : phase[r] = "read" => Funded(r, seen[r].balance, seen[r].available)

TypeInv == TypeOK /\ SeenPays

LEMMA TypeInvariant == Spec => []TypeInv
<1> USE DEF TypeInv, TypeOK, SeenPays, SeenWallets, Phases
<1>1. Init => TypeInv
  BY DEF Init, Nothing
<1>2. TypeInv /\ [Next]_vars => TypeInv'
  <2> SUFFICES ASSUME TypeInv, [Next]_vars PROVE TypeInv'
    OBVIOUS
  <2>1. ASSUME NEW r \in Requests, Call(r) PROVE TypeInv'
    BY <2>1 DEF Call, Funded
  <2>2. ASSUME NEW r \in Requests, Reserve(r) PROVE TypeInv'
    BY <2>2 DEF Reserve, Funded
  <2>3. ASSUME NEW r \in Requests, ReturnEarlier(r) PROVE TypeInv'
    BY <2>3 DEF ReturnEarlier, Funded
  <2>4. ASSUME NEW r \in Requests, ReadWallet(r) PROVE TypeInv'
    BY <2>4 DEF ReadWallet, Funded
  <2>5. ASSUME NEW r \in Requests, RefuseFunds(r) PROVE TypeInv'
    BY <2>5 DEF RefuseFunds, Funded
  <2>6. ASSUME NEW r \in Requests, Commit(r) PROVE TypeInv'
    <3>1. /\ WalletOf[r] \in Wallets /\ seen[r] \in SeenWallets
          /\ Funded(r, seen[r].balance, seen[r].available)
      BY <2>6 DEF Commit
    <3>2. /\ seen[r].balance + Delta(r) \in Nat /\ seen[r].available + Delta(r) \in Nat
          /\ Delta(r) \in Int
      BY <3>1, DeltaFacts
    <3>3. balance' \in [Wallets -> Nat] /\ available' \in [Wallets -> Nat]
      BY <2>6, <3>1, <3>2 DEF Commit
    <3>4. recorded' \in [Wallets -> Int]
      BY <2>6, <3>1, <3>2 DEF Commit
    <3>5. stamp' \in [Wallets -> Nat] /\ collided' \in [Wallets -> BOOLEAN]
      BY <2>6, <3>1 DEF Commit, Instants
    <3>6. status' \in [Cases -> CaseStatuses]
      <4>1. CaseMoves(r) => Settles(KindOf[r]) \in CaseStatuses
        BY DEF CaseMoves, Claimable, Settles, CaseStatuses, EscrowStatuses, PayoutStatuses
      <4>2. QED
        BY <2>6, <4>1 DEF Commit
    <3>7. /\ operation' \in [Keys -> Requests \cup {NoRequest}] /\ entries' \in SUBSET Requests
          /\ phase' \in [Requests -> Phases] /\ seen' \in [Requests -> SeenWallets]
          /\ answer' \in [Requests -> Requests \cup {NoRequest}]
      BY <2>6 DEF Commit
    <3>8. SeenPays'
      BY <2>6 DEF Commit, Funded
    <3>9. QED
      BY <3>3, <3>4, <3>5, <3>6, <3>7, <3>8
  <2>7. ASSUME NEW r \in Requests, LockConflict(r) PROVE TypeInv'
    BY <2>7 DEF LockConflict, Funded
  <2>8. ASSUME NEW r \in Requests, CaseConflict(r) PROVE TypeInv'
    BY <2>8 DEF CaseConflict, Funded
  <2>9. ASSUME NEW r \in Requests, Rollback(r) PROVE TypeInv'
    BY <2>9 DEF Rollback, Funded, InTransaction
  <2>10. ASSUME NEW r \in Requests, Retry(r) PROVE TypeInv'
    BY <2>10 DEF Retry, Funded
  <2>11. CASE UNCHANGED vars
    BY <2>11 DEF vars
  <2> HIDE DEF TypeInv
  <2>12. QED
    BY <2>1, <2>2, <2>3, <2>4, <2>5, <2>6, <2>7, <2>8, <2>9, <2>10, <2>11 DEF Next, Step
<1>3. QED
  BY <1>1, <1>2, PTL DEF Spec

\* Every column and every call's local state keep their types; in particular no
\* command, however interleaved, takes a balance below zero.
THEOREM TypeCorrect == Spec => []TypeOK
BY TypeInvariant, PTL DEF TypeInv

-----------------------------------------------------------------------------
\* A transaction that still finds the updatedAt it read also finds the balance it
\* read, unless two writes of the wallet shared a millisecond.
Snapshots ==
  \A r \in Requests : phase[r] = "read" =>
    LET w == WalletOf[r] IN
    /\ seen[r].stamp <= stamp[w]
    /\ seen[r].stamp = stamp[w] /\ ~collided[w] => seen[r].balance = balance[w]

LedgerInv == Snapshots /\ LedgerExplainsBalance

LEMMA LedgerInvariant == Spec => []LedgerInv
<1> USE DEF LedgerInv, Snapshots, LedgerExplainsBalance, TypeOK, SeenWallets, Phases
<1>1. Init => LedgerInv
  BY DEF Init
<1>2. TypeOK /\ LedgerInv /\ [Next]_vars => LedgerInv'
  <2> SUFFICES ASSUME TypeOK, LedgerInv, [Next]_vars PROVE LedgerInv'
    OBVIOUS
  <2>1. ASSUME NEW r \in Requests, Call(r) PROVE LedgerInv'
    BY <2>1 DEF Call
  <2>2. ASSUME NEW r \in Requests, Reserve(r) PROVE LedgerInv'
    BY <2>2 DEF Reserve
  <2>3. ASSUME NEW r \in Requests, ReturnEarlier(r) PROVE LedgerInv'
    BY <2>3 DEF ReturnEarlier
  <2>4. ASSUME NEW r \in Requests, ReadWallet(r) PROVE LedgerInv'
    BY <2>4, DeltaFacts DEF ReadWallet
  <2>5. ASSUME NEW r \in Requests, RefuseFunds(r) PROVE LedgerInv'
    BY <2>5 DEF RefuseFunds
  <2>6. ASSUME NEW r \in Requests, Commit(r) PROVE LedgerInv'
    <3> DEFINE w == WalletOf[r]
    <3>1. w \in Wallets /\ seen[r].stamp = stamp[w] /\ Delta(r) \in Int
      BY <2>6, DeltaFacts DEF Commit, Unchanged
    <3>2. PICK instant \in Instants(w) :
            /\ stamp' = [stamp EXCEPT ![w] = instant]
            /\ collided' = [collided EXCEPT ![w] = @ \/ instant = stamp[w]]
      BY <2>6 DEF Commit
    <3>3. instant \in Nat /\ (instant = stamp[w] \/ instant = stamp[w] + 1)
      BY <3>1, <3>2 DEF Instants
    <3>4. ~collided'[w] => instant = stamp[w] + 1 /\ ~collided[w]
      BY <3>1, <3>2, <3>3
    <3>5. LedgerExplainsBalance'
      <4>1. ~collided'[w] => balance'[w] = Opening[w] + recorded'[w]
        BY <2>6, <3>1, <3>4 DEF Commit
      <4>2. \A v \in Wallets \ {w} : /\ balance'[v] = balance[v] /\ recorded'[v] = recorded[v]
                                     /\ collided'[v] = collided[v]
        BY <2>6, <3>1, <3>2 DEF Commit
      <4>3. QED
        BY <4>1, <4>2
    <3>6. Snapshots'
      <4>1. SUFFICES ASSUME NEW q \in Requests, phase'[q] = "read"
                     PROVE  LET v == WalletOf[q] IN
                            /\ seen'[q].stamp <= stamp'[v]
                            /\ seen'[q].stamp = stamp'[v] /\ ~collided'[v]
                                 => seen'[q].balance = balance'[v]
        OBVIOUS
      <4>2. phase[q] = "read" /\ seen'[q] = seen[q] /\ WalletOf[q] \in Wallets
        BY <2>6, <4>1 DEF Commit
      <4>3. CASE WalletOf[q] = w
        BY <4>2, <4>3, <3>1, <3>2, <3>3, <3>4
      <4>4. CASE WalletOf[q] # w
        <5>1. /\ stamp'[WalletOf[q]] = stamp[WalletOf[q]] /\ collided'[WalletOf[q]] = collided[WalletOf[q]]
              /\ balance'[WalletOf[q]] = balance[WalletOf[q]]
          BY <2>6, <4>2, <4>4, <3>1, <3>2 DEF Commit
        <5>2. QED
          BY <4>2, <5>1
      <4>5. QED
        BY <4>3, <4>4
    <3>7. QED
      BY <3>5, <3>6
  <2>7. ASSUME NEW r \in Requests, LockConflict(r) PROVE LedgerInv'
    BY <2>7 DEF LockConflict
  <2>8. ASSUME NEW r \in Requests, CaseConflict(r) PROVE LedgerInv'
    BY <2>8 DEF CaseConflict
  <2>9. ASSUME NEW r \in Requests, Rollback(r) PROVE LedgerInv'
    BY <2>9 DEF Rollback, InTransaction
  <2>10. ASSUME NEW r \in Requests, Retry(r) PROVE LedgerInv'
    BY <2>10 DEF Retry
  <2>11. CASE UNCHANGED vars
    BY <2>11 DEF vars
  <2> HIDE DEF LedgerInv
  <2>12. QED
    BY <2>1, <2>2, <2>3, <2>4, <2>5, <2>6, <2>7, <2>8, <2>9, <2>10, <2>11 DEF Next, Step
<1>3. QED
  BY <1>1, <1>2, TypeCorrect, PTL DEF Spec

\* The comparison of updatedAt in updateWalletWithLock loses no update: a wallet
\* holds its opening balance plus its ledger entries, whatever transactions
\* interleave on it.
THEOREM LedgerIsExact == Spec => []LedgerExplainsBalance
BY LedgerInvariant, PTL DEF LedgerInv

-----------------------------------------------------------------------------
\* A key is held by one open transaction at most, and only while no operation of
\* that key is completed; a completed operation has its entry and its own key.
KeysInv ==
  /\ \A r, q \in Requests :
        InTransaction(r) /\ InTransaction(q) /\ KeyOf[r] = KeyOf[q] => r = q
  /\ \A r \in Requests : InTransaction(r) => operation[KeyOf[r]] = NoRequest
  /\ \A k \in Keys : operation[k] # NoRequest =>
        operation[k] \in entries /\ KeyOf[operation[k]] = k
  /\ AppliedOncePerKey
  /\ AnswersAgree

LEMMA KeysInvariant == Spec => []KeysInv
<1> USE DEF KeysInv, AppliedOncePerKey, AnswersAgree, InTransaction, TypeOK, Phases
<1>1. Init => KeysInv
  BY DEF Init
<1>2. TypeOK /\ KeysInv /\ [Next]_vars => KeysInv'
  <2> SUFFICES ASSUME TypeOK, KeysInv, [Next]_vars PROVE KeysInv'
    OBVIOUS
  <2>1. ASSUME NEW r \in Requests, Call(r) PROVE KeysInv'
    BY <2>1 DEF Call
  <2>2. ASSUME NEW r \in Requests, Reserve(r) PROVE KeysInv'
    BY <2>2 DEF Reserve, KeyHeldByAnother
  <2>3. ASSUME NEW r \in Requests, ReturnEarlier(r) PROVE KeysInv'
    BY <2>3 DEF ReturnEarlier
  <2>4. ASSUME NEW r \in Requests, ReadWallet(r) PROVE KeysInv'
    BY <2>4 DEF ReadWallet
  <2>5. ASSUME NEW r \in Requests, RefuseFunds(r) PROVE KeysInv'
    BY <2>5 DEF RefuseFunds
  <2>6. ASSUME NEW r \in Requests, Commit(r) PROVE KeysInv'
    BY <2>6 DEF Commit
  <2>7. ASSUME NEW r \in Requests, LockConflict(r) PROVE KeysInv'
    BY <2>7 DEF LockConflict
  <2>8. ASSUME NEW r \in Requests, CaseConflict(r) PROVE KeysInv'
    BY <2>8 DEF CaseConflict
  <2>9. ASSUME NEW r \in Requests, Rollback(r) PROVE KeysInv'
    BY <2>9 DEF Rollback
  <2>10. ASSUME NEW r \in Requests, Retry(r) PROVE KeysInv'
    BY <2>10 DEF Retry
  <2>11. CASE UNCHANGED vars
    BY <2>11 DEF vars
  <2> HIDE DEF KeysInv
  <2>12. QED
    BY <2>1, <2>2, <2>3, <2>4, <2>5, <2>6, <2>7, <2>8, <2>9, <2>10, <2>11 DEF Next, Step
<1>3. QED
  BY <1>1, <1>2, TypeCorrect, PTL DEF Spec

\* An idempotency key takes effect at most once, whatever calls carry it.
THEOREM KeysApplyOnce == Spec => []AppliedOncePerKey
BY KeysInvariant, PTL DEF KeysInv

\* Every answered call of a key reports the one operation that took effect.
THEOREM RepliesAgree == Spec => []AnswersAgree
BY KeysInvariant, PTL DEF KeysInv

-----------------------------------------------------------------------------
\* The status guards of the three state transitions: a commit leaves every settled
\* case as it is, so a release, a refund or a payout stays what it was.
THEOREM SettlementsStay == Spec => SettlementIsFinal
<1> DEFINE Final == \A c \in Cases : status[c] \in {"released", "refunded", "paid"}
                                        => status'[c] = status[c]
<1>1. TypeOK /\ [Next]_vars => Final
  <2> SUFFICES ASSUME TypeOK, [Next]_vars PROVE Final
    OBVIOUS
  <2>1. ASSUME NEW r \in Requests, Call(r) PROVE Final
    BY <2>1 DEF Call
  <2>2. ASSUME NEW r \in Requests, Reserve(r) PROVE Final
    BY <2>2 DEF Reserve
  <2>3. ASSUME NEW r \in Requests, ReturnEarlier(r) PROVE Final
    BY <2>3 DEF ReturnEarlier
  <2>4. ASSUME NEW r \in Requests, ReadWallet(r) PROVE Final
    BY <2>4 DEF ReadWallet
  <2>5. ASSUME NEW r \in Requests, RefuseFunds(r) PROVE Final
    BY <2>5 DEF RefuseFunds
  <2>6. ASSUME NEW r \in Requests, Commit(r) PROVE Final
    BY <2>6 DEF Commit, CaseMoves, Claimable, TypeOK
  <2>7. ASSUME NEW r \in Requests, LockConflict(r) PROVE Final
    BY <2>7 DEF LockConflict
  <2>8. ASSUME NEW r \in Requests, CaseConflict(r) PROVE Final
    BY <2>8 DEF CaseConflict
  <2>9. ASSUME NEW r \in Requests, Rollback(r) PROVE Final
    BY <2>9 DEF Rollback
  <2>10. ASSUME NEW r \in Requests, Retry(r) PROVE Final
    BY <2>10 DEF Retry
  <2>11. CASE UNCHANGED vars
    BY <2>11 DEF vars
  <2> HIDE DEF Final
  <2>12. QED
    BY <2>1, <2>2, <2>3, <2>4, <2>5, <2>6, <2>7, <2>8, <2>9, <2>10, <2>11 DEF Next, Step
<1>2. QED
  BY <1>1, TypeCorrect, PTL DEF Spec, SettlementIsFinal

\* The case of a paid release or refund has the status that payment gave it.
PaidCases ==
  /\ \A r \in entries :
        /\ CaseOf[r] # NoCase
        /\ CaseStart[CaseOf[r]] # "missing"
        /\ KindOf[r] \in {"escrow_release", "refund"}
        => status[CaseOf[r]] = Settles(KindOf[r])
  /\ \A c \in Cases : CaseStart[c] # "missing" => status[c] # "missing"

\* markEscrowReleased and markEscrowRefunded let one of the two payments through.
THEOREM OneSideIsPaid == Spec => []OneSidePaid
<1> USE DEF PaidCases, TypeOK
<1>1. Init => PaidCases
  BY DEF Init
<1>2. TypeOK /\ PaidCases /\ [Next]_vars => PaidCases'
  <2> SUFFICES ASSUME TypeOK, PaidCases, [Next]_vars PROVE PaidCases'
    OBVIOUS
  <2>1. ASSUME NEW r \in Requests, Call(r) PROVE PaidCases'
    BY <2>1 DEF Call
  <2>2. ASSUME NEW r \in Requests, Reserve(r) PROVE PaidCases'
    BY <2>2 DEF Reserve
  <2>3. ASSUME NEW r \in Requests, ReturnEarlier(r) PROVE PaidCases'
    BY <2>3 DEF ReturnEarlier
  <2>4. ASSUME NEW r \in Requests, ReadWallet(r) PROVE PaidCases'
    BY <2>4 DEF ReadWallet
  <2>5. ASSUME NEW r \in Requests, RefuseFunds(r) PROVE PaidCases'
    BY <2>5 DEF RefuseFunds
  <2>6. ASSUME NEW r \in Requests, Commit(r) PROVE PaidCases'
    <3>1. \A c \in Cases : status[c] # "missing" => status'[c] # "missing"
      BY <2>6 DEF Commit, CaseMoves, Claimable, Settles
    <3>2. \A c \in Cases : status[c] \in {"released", "refunded"} => status'[c] = status[c]
      BY <2>6 DEF Commit, CaseMoves, Claimable
    <3>3. ASSUME CaseOf[r] # NoCase, CaseStart[CaseOf[r]] # "missing",
                 KindOf[r] \in {"escrow_release", "refund"}
          PROVE  status'[CaseOf[r]] = Settles(KindOf[r])
      <4>1. CaseOf[r] \in Cases /\ status[CaseOf[r]] # "missing"
        BY <3>3
      <4>2. CASE CaseMoves(r)
        BY <2>6, <4>1, <4>2 DEF Commit
      <4>3. CASE ~CaseMoves(r)
        <5>1. CaseUntouched(r) /\ status' = status
          BY <2>6, <4>3 DEF Commit
        <5>2. QED
          BY <5>1, <4>1, <3>3 DEF CaseUntouched
      <4>4. QED
        BY <4>2, <4>3
    <3>4. ASSUME NEW q \in entries, CaseOf[q] # NoCase, CaseStart[CaseOf[q]] # "missing",
                 KindOf[q] \in {"escrow_release", "refund"}
          PROVE  status'[CaseOf[q]] = Settles(KindOf[q])
      <4>1. status[CaseOf[q]] = Settles(KindOf[q]) /\ CaseOf[q] \in Cases
        BY <3>4
      <4>2. Settles(KindOf[q]) \in {"released", "refunded"}
        BY <3>4 DEF Settles
      <4>3. QED
        BY <4>1, <4>2, <3>2
    <3>5. entries' = entries \cup {r}
      BY <2>6 DEF Commit
    <3>6. QED
      BY <3>1, <3>3, <3>4, <3>5
  <2>7. ASSUME NEW r \in Requests, LockConflict(r) PROVE PaidCases'
    BY <2>7 DEF LockConflict
  <2>8. ASSUME NEW r \in Requests, CaseConflict(r) PROVE PaidCases'
    BY <2>8 DEF CaseConflict
  <2>9. ASSUME NEW r \in Requests, Rollback(r) PROVE PaidCases'
    BY <2>9 DEF Rollback
  <2>10. ASSUME NEW r \in Requests, Retry(r) PROVE PaidCases'
    BY <2>10 DEF Retry
  <2>11. CASE UNCHANGED vars
    BY <2>11 DEF vars
  <2> HIDE DEF PaidCases
  <2>12. QED
    BY <2>1, <2>2, <2>3, <2>4, <2>5, <2>6, <2>7, <2>8, <2>9, <2>10, <2>11 DEF Next, Step
<1>3. PaidCases => OneSidePaid
  BY DEF OneSidePaid, Settles
<1>4. QED
  BY <1>1, <1>2, <1>3, TypeCorrect, PTL DEF Spec

-----------------------------------------------------------------------------
\* When no two writes of a wallet share a millisecond, none is ever marked so.
NeverCollided == InstantsDistinct => \A w \in Wallets : ~collided[w]

LEMMA CollisionsNeedOneInstant == Spec => []NeverCollided
<1>1. Init => NeverCollided
  BY DEF Init, NeverCollided
<1>2. TypeOK /\ NeverCollided /\ [Next]_vars => NeverCollided'
  <2> SUFFICES ASSUME TypeOK, NeverCollided, [Next]_vars PROVE NeverCollided'
    OBVIOUS
  <2> USE DEF NeverCollided, TypeOK
  <2>1. ASSUME NEW r \in Requests, Call(r) PROVE NeverCollided'
    BY <2>1 DEF Call
  <2>2. ASSUME NEW r \in Requests, Reserve(r) PROVE NeverCollided'
    BY <2>2 DEF Reserve
  <2>3. ASSUME NEW r \in Requests, ReturnEarlier(r) PROVE NeverCollided'
    BY <2>3 DEF ReturnEarlier
  <2>4. ASSUME NEW r \in Requests, ReadWallet(r) PROVE NeverCollided'
    BY <2>4 DEF ReadWallet
  <2>5. ASSUME NEW r \in Requests, RefuseFunds(r) PROVE NeverCollided'
    BY <2>5 DEF RefuseFunds
  <2>6. ASSUME NEW r \in Requests, Commit(r) PROVE NeverCollided'
    BY <2>6 DEF Commit, Instants
  <2>7. ASSUME NEW r \in Requests, LockConflict(r) PROVE NeverCollided'
    BY <2>7 DEF LockConflict
  <2>8. ASSUME NEW r \in Requests, CaseConflict(r) PROVE NeverCollided'
    BY <2>8 DEF CaseConflict
  <2>9. ASSUME NEW r \in Requests, Rollback(r) PROVE NeverCollided'
    BY <2>9 DEF Rollback
  <2>10. ASSUME NEW r \in Requests, Retry(r) PROVE NeverCollided'
    BY <2>10 DEF Retry
  <2>11. CASE UNCHANGED vars
    BY <2>11 DEF vars
  <2> HIDE DEF NeverCollided
  <2>12. QED
    BY <2>1, <2>2, <2>3, <2>4, <2>5, <2>6, <2>7, <2>8, <2>9, <2>10, <2>11 DEF Next, Step
<1>3. QED
  BY <1>1, <1>2, TypeCorrect, PTL DEF Spec

\* The interleaved transactions implement the one-step commands of LedgerContract:
\* a commit is the contract's Apply of its key, every other step stutters.
THEOREM CommandsAreAtomic ==
  ASSUME InstantsDistinct
  PROVE  Spec => KeepsContract
<1> DEFINE Strong == TypeInv /\ LedgerInv /\ KeysInv /\ NeverCollided
<1>1. Init => Contract!Init
  BY DEF Init, Contract!Init
<1>2. Strong /\ [Next]_vars => [Contract!Next]_(Contract!vars)
  <2> SUFFICES ASSUME Strong, [Next]_vars PROVE [Contract!Next]_(Contract!vars)
    OBVIOUS
  <2>1. ASSUME NEW r \in Requests, Commit(r) PROVE Contract!Next
    <3> DEFINE k == KeyOf[r]
               w == WalletOf[r]
               applied == {j \in Keys : operation[j] # NoRequest}
    <3>1. k \in Keys /\ w \in Wallets /\ r # NoRequest /\ phase[r] = "read"
      BY <2>1 DEF Commit
    <3>2. k \notin applied
      BY <3>1 DEF KeysInv, InTransaction
    <3>3. seen[r].balance = balance[w]
      BY <2>1, <3>1 DEF Commit, Unchanged, LedgerInv, Snapshots, NeverCollided
    <3>4. /\ balance[w] + Delta(r) \in Nat
          /\ balance' = [balance EXCEPT ![w] = balance[w] + Delta(r)]
      <4>1. balance[w] \in Nat /\ seen[r].available \in Nat
        BY <3>1 DEF TypeInv, TypeOK, SeenWallets
      <4>2. Funded(r, balance[w], seen[r].available)
        BY <3>1, <3>3 DEF TypeInv, SeenPays
      <4>3. QED
        BY <2>1, <3>3, <4>1, <4>2, DeltaFacts DEF Commit
    <3>5. operation' = [operation EXCEPT ![k] = r]
      BY <2>1 DEF Commit
    <3>6. {j \in Keys : operation'[j] # NoRequest} = applied \cup {k}
      BY <3>1, <3>5 DEF TypeInv, TypeOK
    <3> DEFINE Moves == [j \in Keys |-> {<<WalletOf[q], Delta(q)>> :
                                            q \in {p \in Requests : KeyOf[p] = j}}]
               move == <<w, Delta(r)>>
    <3>7. move \in Moves[k]
      BY <3>1
    <3>8. balance[move[1]] + move[2] >= 0
      BY <3>4
    <3>9. balance' = [balance EXCEPT ![move[1]] = @ + move[2]]
      BY <3>4
    <3>10. Contract!Apply(k)
      BY <3>2, <3>6, <3>7, <3>8, <3>9 DEF Contract!Apply
    <3>11. QED
      BY <3>1, <3>10 DEF Contract!Next
  <2>2. ASSUME NEW r \in Requests,
               \/ Call(r) \/ Reserve(r) \/ ReturnEarlier(r) \/ ReadWallet(r) \/ RefuseFunds(r)
               \/ LockConflict(r) \/ CaseConflict(r) \/ Rollback(r) \/ Retry(r)
        PROVE  UNCHANGED <<balance, operation>>
    BY <2>2 DEF Call, Reserve, ReturnEarlier, ReadWallet, RefuseFunds, LockConflict,
                CaseConflict, Rollback, Retry
  <2>3. UNCHANGED <<balance, operation>> => UNCHANGED Contract!vars
    BY DEF Contract!vars
  <2>4. UNCHANGED vars => UNCHANGED <<balance, operation>>
    BY DEF vars
  <2>5. QED
    BY <2>1, <2>2, <2>3, <2>4 DEF Next, Step
<1>3. QED
  BY <1>1, <1>2, TypeInvariant, LedgerInvariant, KeysInvariant, CollisionsNeedOneInstant, PTL
     DEF Spec, KeepsContract, Contract!Spec
=============================================================================
