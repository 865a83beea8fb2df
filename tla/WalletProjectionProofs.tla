----------------------- MODULE WalletProjectionProofs -----------------------
(***************************************************************************)
(* Theorems about WalletProjection, for any number of commands, calls and  *)
(* crashes.                                                                *)
(***************************************************************************)
EXTENDS WalletProjection, TLAPS

USE BoundsAreNatural

\* Rows, calls and history keep their types.
THEOREM TypeCorrect == Spec => []TypeOK
<1> USE DEF TypeOK, Rows, Phases
<1>1. Init => TypeOK
  <2>1. 0 \in 0..MaxCalls /\ 0 \in 0..MaxCrashes
    OBVIOUS
  <2>2. Init => app \in Rows /\ memory \in Rows
    BY DEF Init, Empty
  <2>3. Init => calls \in [Commands -> 0..MaxCalls] /\ crashes \in 0..MaxCrashes
    BY <2>1, Zenon DEF Init
  <2>4. QED
    BY <2>2, <2>3, Zenon DEF Init
<1>2. TypeOK /\ [Next]_vars => TypeOK'
  <2> SUFFICES ASSUME TypeOK, [Next]_vars PROVE TypeOK'
    OBVIOUS
  <2> USE DEF stored, history
  <2>1. ASSUME NEW c \in Commands, Call(c) PROVE TypeOK'
    BY <2>1 DEF Call
  <2>2. ASSUME NEW c \in Commands, RunOperation(c) PROVE TypeOK'
    BY <2>2 DEF RunOperation
  <2>3. ASSUME NEW c \in Commands, OperationFails(c) PROVE TypeOK'
    BY <2>3 DEF OperationFails
  <2>4. ASSUME NEW c \in Commands, ProjectOperation(c) PROVE TypeOK'
    BY <2>4 DEF ProjectOperation
  <2>5. ASSUME NEW c \in Commands, PersistRows(c) PROVE TypeOK'
    BY <2>5 DEF PersistRows
  <2>6. ASSUME NEW c \in Commands, PersistFails(c) PROVE TypeOK'
    BY <2>6 DEF PersistFails
  <2>7. CASE ReadAppRows
    BY <2>7 DEF ReadAppRows
  <2>8. CASE ResetStore
    BY <2>8 DEF ResetStore
  <2>9. CASE Crash
    <3>1. crashes' \in 0..MaxCrashes
      BY <2>9 DEF Crash
    <3>2. phase' \in [Commands -> Phases]
      BY <2>9 DEF Crash
    <3>3. QED
      BY <2>9, <3>1, <3>2 DEF Crash, Empty
  <2>10. CASE Boot
    BY <2>10 DEF Boot
  <2>11. CASE UNCHANGED vars
    BY <2>11 DEF vars
  <2>12. QED
    BY <2>1, <2>2, <2>3, <2>4, <2>5, <2>6, <2>7, <2>8, <2>9, <2>10, <2>11 DEF Next, Step
<1>3. QED
  BY <1>1, <1>2, PTL DEF Spec

-----------------------------------------------------------------------------
\* A command that is past its first transaction has its entry in the ledger; one that
\* is answered has its transaction in AppRow as well.
Recorded ==
  \A c \in Commands :
    /\ phase[c] \in {"committed", "projected", "answered"} => c \in ledger
    /\ phase[c] = "answered" => c \in app.txns

LEMMA RecordedInvariant == Spec => []Recorded
<1> USE DEF Recorded, TypeOK, Rows, Phases
<1>1. Init => Recorded
  BY DEF Init
<1>2. TypeOK /\ Recorded /\ [Next]_vars => Recorded'
  <2> SUFFICES ASSUME TypeOK, Recorded, [Next]_vars PROVE Recorded'
    OBVIOUS
  <2> USE DEF stored, history
  <2>1. ASSUME NEW c \in Commands, Call(c) PROVE Recorded'
    BY <2>1 DEF Call
  <2>2. ASSUME NEW c \in Commands, RunOperation(c) PROVE Recorded'
    BY <2>2 DEF RunOperation
  <2>3. ASSUME NEW c \in Commands, OperationFails(c) PROVE Recorded'
    BY <2>3 DEF OperationFails
  <2>4. ASSUME NEW c \in Commands, ProjectOperation(c) PROVE Recorded'
    BY <2>4 DEF ProjectOperation
  <2>5. ASSUME NEW c \in Commands, PersistRows(c) PROVE Recorded'
    BY <2>5 DEF PersistRows
  <2>6. ASSUME NEW c \in Commands, PersistFails(c) PROVE Recorded'
    BY <2>6 DEF PersistFails
  <2>7. CASE ReadAppRows \/ ResetStore \/ Boot
    BY <2>7 DEF ReadAppRows, ResetStore, Boot
  <2>8. CASE Crash
    BY <2>8 DEF Crash
  <2>9. CASE UNCHANGED vars
    BY <2>9 DEF vars
  <2>10. QED
    BY <2>1, <2>2, <2>3, <2>4, <2>5, <2>6, <2>7, <2>8, <2>9 DEF Next, Step
<1>3. QED
  BY <1>1, <1>2, TypeCorrect, PTL DEF Spec

\* What a client was told is kept, through every reload, crash and rebuild.
THEOREM AnswersAreKept == Spec => []AnsweredIsKept
<1>1. Recorded => AnsweredIsKept
  BY DEF Recorded, AnsweredIsKept
<1>2. QED
  BY <1>1, RecordedInvariant, PTL

-----------------------------------------------------------------------------
\* While nothing disturbs the commands, one of them at a time is between its
\* transactions, it carries the balance of the ledger, and its transaction is all that
\* AppRow lacks.
InStep ==
  /\ wallet = ledger
  /\ \A c, d \in Halfway : c = d
  /\ \A c \in Commands : /\ phase[c] = "committed" => result[c] = ledger
                         /\ phase[c] = "projected" => batch[c] = ledger
                         /\ c \in Halfway => app.txns \cup {c} = ledger
  /\ Halfway = {} => app.wallet = ledger /\ app.txns = ledger

\* A process that is down has no command in flight.
DownIsIdle == ~up => InFlight = {}

StepInv == DownIsIdle /\ (Undisturbed => InStep)

LEMMA StepInvariant == Spec => []StepInv
<1> USE DEF StepInv, DownIsIdle, Undisturbed, InStep, InFlight, Halfway, TypeOK, Rows, Phases
<1>1. Init => StepInv
  BY DEF Init, Empty
<1>2. TypeOK /\ Recorded /\ StepInv /\ [Next]_vars => StepInv'
  <2> SUFFICES ASSUME TypeOK, Recorded, StepInv, [Next]_vars PROVE StepInv'
    OBVIOUS
  <2> USE DEF stored, history
  <2>1. ASSUME NEW c \in Commands, Call(c) PROVE StepInv'
    BY <2>1 DEF Call
  <2>2. ASSUME NEW c \in Commands, RunOperation(c) PROVE StepInv'
    BY <2>2 DEF RunOperation
  <2>3. ASSUME NEW c \in Commands, OperationFails(c) PROVE StepInv'
    BY <2>3 DEF OperationFails
  <2>4. ASSUME NEW c \in Commands, ProjectOperation(c) PROVE StepInv'
    BY <2>4 DEF ProjectOperation
  <2>5. ASSUME NEW c \in Commands, PersistRows(c) PROVE StepInv'
    BY <2>5 DEF PersistRows
  <2>6. ASSUME NEW c \in Commands, PersistFails(c) PROVE StepInv'
    BY <2>6 DEF PersistFails
  <2>7. CASE ReadAppRows
    BY <2>7 DEF ReadAppRows
  <2>8. CASE ResetStore
    BY <2>8 DEF ResetStore
  <2>9. CASE Crash
    BY <2>9 DEF Crash
  <2>10. CASE Boot
    BY <2>10 DEF Boot
  <2>11. CASE UNCHANGED vars
    BY <2>11 DEF vars
  <2>12. QED
    BY <2>1, <2>2, <2>3, <2>4, <2>5, <2>6, <2>7, <2>8, <2>9, <2>10, <2>11 DEF Next, Step
<1>3. QED
  BY <1>1, <1>2, TypeCorrect, RecordedInvariant, PTL DEF Spec

\* Wallet and ledger part in the three ways that LossIsExplained names, and in no other.
THEOREM LossesAreExplained == Spec => []LossIsExplained
<1>1. StepInv => LossIsExplained
  BY DEF StepInv, InStep, LossIsExplained
<1>2. QED
  BY <1>1, StepInvariant, PTL

\* A boot that rebuilds Wallet from AppRow changes nothing unless one of the three
\* happened.
THEOREM AppRowsFollow == Spec => []AppRowFollowsLedger
<1>1. StepInv => AppRowFollowsLedger
  BY DEF StepInv, InStep, AppRowFollowsLedger, InFlight
<1>2. QED
  BY <1>1, StepInvariant, PTL
=============================================================================
