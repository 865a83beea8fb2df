------------------------ MODULE StoreCommandsProofs ------------------------
(***************************************************************************)
(* Theorems about AppStore, for any commands whose sections collect what   *)
(* they change, any rows and any tables of the projection; then about the  *)
(* commands of StoreCommands, which are such commands, for any scenario:   *)
(* the rows they write keep their types, and what each table promises      *)
(* (certificates, enrollments, payouts, refunds, the sums of a project)    *)
(* holds under any order of calls, reloads, failures and restarts.         *)
(***************************************************************************)
EXTENDS StoreCommands, FiniteSetTheorems, WellFoundedInduction, TLAPS

USE AbsentIsNoValue, ProjectedAreRows, NoSnapshotIsNoTable, RestartsAreBounded

\* One command's entry of batch: the rows of one transaction, none while it has none.
BatchOK(c) ==
  /\ DOMAIN batch[c] \in SUBSET Rows
  /\ batch[c] \in [DOMAIN batch[c] -> Values \cup {Absent}]
  /\ phase[c] # "persisting" => batch[c] = NoRows

LEMMA TypeIsStable == StoreTypeOK /\ [Next]_storeVars => StoreTypeOK'
<1> SUFFICES ASSUME StoreTypeOK, [Next]_storeVars PROVE StoreTypeOK'
  OBVIOUS
<1> USE DEF StoreTypeOK, Tables, Phases, Dirty, disturbed
<1>1. ASSUME NEW c \in Calls, Section(c) PROVE StoreTypeOK'
  <2>1. ASSUME NEW written, Changes(written), Collect(c, memory', written)
        PROVE  StoreTypeOK'
    BY <1>1, <2>1 DEF Changes, Collect, Move, InFlight
  <2>2. ASSUME NEW written, Changes(written), Throw(c, memory', written)
        PROVE  StoreTypeOK'
    BY <1>1, <2>2 DEF Section, Ready, Changes, Throw, Move
  <2>3. ASSUME NEW next \in {"answered", "waiting"}, Pass(c, next) PROVE StoreTypeOK'
    BY <1>1, <2>3 DEF Section, Ready, Pass, Move
  <2>4. QED
    BY <1>1, <2>1, <2>2, <2>3 DEF Section
<1>2. ASSUME NEW c \in Calls, Await(c) PROVE StoreTypeOK'
  BY <1>2 DEF Await, Settle, Move
<1>3. ASSUME NEW c \in Calls, Persist(c) PROVE StoreTypeOK'
  BY <1>3 DEF Persist, Leave, Move, NoRows
<1>4. ASSUME NEW c \in Calls, PersistFails(c) PROVE StoreTypeOK'
  BY <1>4 DEF PersistFails, Leave, Move, NoRows
<1>5. CASE ReadAppRows
  BY <1>5 DEF ReadAppRows, InFlight
<1>6. ASSUME NEW table \in unread, ReadProjection(table) PROVE StoreTypeOK'
  BY <1>6 DEF ReadProjection
<1>7. CASE ResetStore
  BY <1>7 DEF ResetStore
<1>8. CASE Restart
  BY <1>8 DEF Restart, NoRows, InFlight
<1>9. CASE UNCHANGED storeVars
  BY <1>9 DEF storeVars
<1>10. QED
  BY <1>1, <1>2, <1>3, <1>4, <1>5, <1>6, <1>7, <1>8, <1>9
     DEF Next, StoreNext, Finish, Reload

\* The store, its copies and what a transaction carries keep their types.
THEOREM TypeCorrect == StoreSpec => []StoreTypeOK
<1>1. Init => StoreTypeOK
  BY DEF Init, StoreInit, StoreTypeOK, Tables, NoRows, Phases, Dirty
<1>2. QED
  BY <1>1, TypeIsStable, PTL DEF StoreSpec

-----------------------------------------------------------------------------
\* The commands in flight that write r were started one after the other, and the last
\* of them carries what the store shows; without any the store shows AppRow's.
Current(r) ==
  IF Pending(r) = {}
  THEN memory[r] = app[r]
  ELSE \E c \in Pending(r) : /\ batch[c][r] = memory[r]
                             /\ Pending(r) \ {c} \subseteq ahead[c]

\* What a reload has read of r is still what AppRow holds, and no command is about to
\* write it, unless the reload knows that it missed a write.
Seen(r) == snapshot # NoSnapshot /\ r \notin missed
              => Pending(r) = {} /\ snapshot[r] = app[r]

AgreeInv == \A r \in Rows \ Dirty : Current(r) /\ Seen(r)

\* A step that leaves r, the transactions that write it and what was read of it alone.
LEMMA Untouched ==
  ASSUME StoreTypeOK, NEW r \in Rows, Current(r), Seen(r),
         app'[r] = app[r], memory'[r] = memory[r], Pending(r)' = Pending(r),
         \A c \in Pending(r) : batch'[c] = batch[c] /\ ahead[c] \cap Pending(r) \subseteq ahead'[c],
         snapshot' # NoSnapshot => /\ snapshot # NoSnapshot /\ snapshot'[r] = snapshot[r]
                                   /\ r \in missed => r \in missed'
  PROVE  Current(r)' /\ Seen(r)'
<1>1. Current(r)'
  <2>1. CASE Pending(r) = {}
    BY <2>1 DEF Current
  <2>2. CASE Pending(r) # {}
    <3>1. PICK c \in Pending(r) : batch[c][r] = memory[r] /\ Pending(r) \ {c} \subseteq ahead[c]
      BY <2>2 DEF Current
    <3>2. batch'[c][r] = memory'[r] /\ Pending(r)' \ {c} \subseteq ahead'[c]
      BY <3>1
    <3>3. QED
      BY <2>2, <3>1, <3>2 DEF Current
  <2>3. QED
    BY <2>1, <2>2
<1>2. Seen(r)'
  BY DEF Seen
<1>3. QED
  BY <1>1, <1>2

LEMMA AgreementIsStable == StoreTypeOK /\ AgreeInv /\ [Next]_storeVars => AgreeInv'
<1> SUFFICES ASSUME StoreTypeOK, AgreeInv, [Next]_storeVars PROVE AgreeInv'
  OBVIOUS
<1> USE DEF AgreeInv
<1>1. ASSUME NEW c \in Calls, Section(c) PROVE AgreeInv'
  <2>0. c \notin InFlight
    BY <1>1 DEF Section, Ready, InFlight
  <2>1. ASSUME NEW written, Changes(written), Collect(c, memory', written),
               NEW r \in Rows, r \notin Dirty'
        PROVE  Current(r)' /\ Seen(r)'
    <3>1. Current(r) /\ Seen(r)
      BY <2>1 DEF Collect, Dirty, disturbed
    <3>2. /\ InFlight' = InFlight \cup {c} /\ ahead'[c] = InFlight
          /\ DOMAIN batch'[c] = written /\ \A q \in written : batch'[c][q] = memory'[q]
          /\ \A d \in InFlight : batch'[d] = batch[d] /\ ahead'[d] = ahead[d]
      BY <2>0, <2>1 DEF Collect, Move, InFlight, StoreTypeOK
    <3>3. CASE r \in written
      <4>1. Pending(r)' = Pending(r) \cup {c}
        BY <2>0, <3>2, <3>3 DEF Pending
      <4>2. Current(r)'
        BY <2>0, <3>2, <3>3, <4>1 DEF Current, Pending
      <4>3. Seen(r)'
        BY <2>1, <3>3 DEF Seen, Collect
      <4>4. QED
        BY <4>2, <4>3
    <3>4. CASE r \notin written
      <4>1. Pending(r)' = Pending(r)
        BY <2>0, <3>2, <3>4 DEF Pending
      <4>2. memory'[r] = memory[r] /\ app' = app /\ snapshot' = snapshot /\ missed \subseteq missed'
        BY <2>1, <3>4 DEF Changes, Collect
      <4>3. QED
        BY <3>1, <3>2, <4>1, <4>2, Untouched DEF Pending
    <3>5. QED
      BY <3>3, <3>4
  <2>2. ASSUME NEW written, Changes(written), Throw(c, memory', written),
               NEW r \in Rows, r \notin Dirty'
        PROVE  Current(r)' /\ Seen(r)'
    <3>1. Current(r) /\ Seen(r) /\ r \notin written
      BY <2>2 DEF Throw, Dirty
    <3>2. Pending(r)' = Pending(r)
      BY <1>1, <2>0, <2>2 DEF Throw, Move, Pending, InFlight, StoreTypeOK
    <3>3. memory'[r] = memory[r]
      BY <2>2, <3>1 DEF Changes
    <3>4. QED
      BY <2>2, <3>1, <3>2, <3>3, Untouched DEF Throw
  <2>3. ASSUME NEW next \in {"answered", "waiting"}, Pass(c, next),
               NEW r \in Rows, r \notin Dirty'
        PROVE  Current(r)' /\ Seen(r)'
    <3>1. Current(r) /\ Seen(r)
      BY <2>3 DEF Pass, Dirty, disturbed
    <3>2. Pending(r)' = Pending(r)
      BY <2>0, <2>3 DEF Pass, Move, Pending, InFlight, StoreTypeOK
    <3>3. QED
      BY <2>3, <3>1, <3>2, Untouched DEF Pass
  <2>4. QED
    BY <1>1, <2>1, <2>2, <2>3 DEF Section
<1>2. ASSUME NEW c \in Calls, Await(c), NEW r \in Rows, r \notin Dirty'
      PROVE  Current(r)' /\ Seen(r)'
  <2>1. PICK next \in {"resuming", "failed"} : Settle(c, next)
    BY <1>2 DEF Await
  <2>2. Current(r) /\ Seen(r)
    BY <1>2, <2>1 DEF Settle, Dirty, disturbed
  <2>3. Pending(r)' = Pending(r)
    BY <2>1 DEF Settle, Move, Pending, InFlight, StoreTypeOK
  <2>4. QED
    BY <2>1, <2>2, <2>3, Untouched DEF Settle
<1>3. ASSUME NEW c \in Calls, Persist(c), NEW r \in Rows, r \notin Dirty'
      PROVE  Current(r)' /\ Seen(r)'
  <2>1. /\ Current(r) /\ Seen(r)
        /\ r \in DOMAIN batch[c] => Pending(r) \cap ahead[c] = {}
    BY <1>3 DEF Persist, Dirty
  <2>2. /\ c \in InFlight /\ InFlight' = InFlight \ {c}
        /\ \A d \in InFlight' : batch'[d] = batch[d] /\ ahead'[d] = ahead[d] \ {c}
    BY <1>3 DEF Persist, Leave, Move, InFlight, StoreTypeOK
  <2>3. Pending(r)' = Pending(r) \ {c}
    BY <2>2 DEF Pending
  <2>4. CASE r \notin DOMAIN batch[c]
    <3>1. app'[r] = app[r] /\ c \notin Pending(r)
      BY <1>3, <2>4 DEF Persist, Pending
    <3>2. QED
      BY <1>3, <2>1, <2>2, <2>3, <3>1, Untouched DEF Persist, Pending
  <2>5. CASE r \in DOMAIN batch[c]
    <3>1. app'[r] = batch[c][r] /\ memory' = memory /\ c \in Pending(r)
      BY <1>3, <2>2, <2>5 DEF Persist, Pending
    <3>2. PICK d \in Pending(r) :
            batch[d][r] = memory[r] /\ Pending(r) \ {d} \subseteq ahead[d]
      BY <2>1, <3>1 DEF Current
    <3>3. Current(r)'
      <4>1. CASE d = c
        BY <2>1, <2>3, <2>5, <3>1, <3>2, <4>1 DEF Current
      <4>2. CASE d # c
        <5>1. d \in Pending(r)' /\ d \in InFlight'
          BY <2>3, <3>2, <4>2 DEF Pending
        <5>2. batch'[d][r] = memory'[r] /\ Pending(r)' \ {d} \subseteq ahead'[d]
          BY <2>2, <2>3, <3>1, <3>2, <5>1
        <5>3. QED
          BY <5>1, <5>2 DEF Current
      <4>3. QED
        BY <4>1, <4>2
    <3>4. Seen(r)'
      BY <1>3, <2>1, <3>1 DEF Seen, Persist
    <3>5. QED
      BY <3>3, <3>4
  <2>6. QED
    BY <2>4, <2>5
<1>4. ASSUME NEW c \in Calls, PersistFails(c), NEW r \in Rows, r \notin Dirty'
      PROVE  Current(r)' /\ Seen(r)'
  <2>1. Current(r) /\ Seen(r) /\ r \notin DOMAIN batch[c]
    BY <1>4 DEF PersistFails, Dirty
  <2>2. /\ InFlight' = InFlight \ {c}
        /\ \A d \in InFlight' : batch'[d] = batch[d] /\ ahead'[d] = ahead[d] \ {c}
    BY <1>4 DEF PersistFails, Leave, Move, InFlight, StoreTypeOK
  <2>3. Pending(r)' = Pending(r) /\ c \notin Pending(r)
    BY <2>1, <2>2 DEF Pending
  <2>4. QED
    BY <1>4, <2>1, <2>2, <2>3, Untouched DEF PersistFails, Pending
<1>5. ASSUME ReadAppRows, NEW r \in Rows, r \notin Dirty'
      PROVE  Current(r)' /\ Seen(r)'
  <2>1. Current(r)
    BY <1>5 DEF ReadAppRows, Dirty, disturbed
  <2>2. Pending(r)' = Pending(r)
    BY <1>5 DEF ReadAppRows, Pending, InFlight
  <2>3. Current(r)'
    BY <1>5, <2>1, <2>2 DEF ReadAppRows, Current
  <2>4. Seen(r)'
    BY <1>5, <2>2 DEF ReadAppRows, Seen, Pending
  <2>5. QED
    BY <2>3, <2>4
<1>6. ASSUME NEW table \in unread, ReadProjection(table), NEW r \in Rows, r \notin Dirty'
      PROVE  Current(r)' /\ Seen(r)'
  <2>1. Current(r) /\ Seen(r) /\ snapshot # NoSnapshot
    BY <1>6 DEF ReadProjection, Dirty, disturbed, StoreTypeOK
  <2>2. Pending(r)' = Pending(r)
    BY <1>6 DEF ReadProjection, Pending, InFlight
  <2>3. Current(r)'
    BY <1>6, <2>1, <2>2 DEF ReadProjection, Current
  <2>4. Seen(r)'
    BY <1>6, <2>1, <2>2 DEF ReadProjection, Seen
  <2>5. QED
    BY <2>3, <2>4
<1>7. ASSUME ResetStore, NEW r \in Rows, r \notin Dirty'
      PROVE  Current(r)' /\ Seen(r)'
  <2>1. Seen(r) /\ r \notin missed
    BY <1>7 DEF ResetStore, Dirty
  <2>2. Pending(r) = {} /\ Pending(r)' = {} /\ memory'[r] = app'[r]
    BY <1>7, <2>1 DEF ResetStore, Seen, Pending, InFlight
  <2>3. QED
    BY <1>7, <2>2 DEF ResetStore, Current, Seen
<1>8. ASSUME Restart, NEW r \in Rows, r \notin Dirty'
      PROVE  Current(r)' /\ Seen(r)'
  <2>1. InFlight' = {} /\ memory' = app'
    BY <1>8 DEF Restart, InFlight
  <2>2. QED
    BY <1>8, <2>1 DEF Restart, Current, Seen, Pending
<1>9. ASSUME UNCHANGED storeVars, NEW r \in Rows, r \notin Dirty'
      PROVE  Current(r)' /\ Seen(r)'
  BY <1>9 DEF storeVars, disturbed, Dirty, Current, Seen, Pending, InFlight
<1>10. QED
  BY <1>1, <1>2, <1>3, <1>4, <1>5, <1>6, <1>7, <1>8, <1>9
     DEF Next, StoreNext, Finish, Reload

\* Of two commands in flight one is ahead of the other, and a reload knows the writes it
\* has missed, of rows in Dirty too.
OrderInv ==
  /\ \A c \in Calls : ahead[c] \subseteq InFlight \ {c}
  /\ \A c, d \in InFlight : c # d => c \in ahead[d] \/ d \in ahead[c]
  /\ \A r \in Rows : Seen(r)

LEMMA OrderIsStable == StoreTypeOK /\ OrderInv /\ [Next]_storeVars => OrderInv'
<1> SUFFICES ASSUME StoreTypeOK, OrderInv, [Next]_storeVars PROVE OrderInv'
  OBVIOUS
<1> USE DEF OrderInv
<1>1. ASSUME NEW c \in Calls, Section(c) PROVE OrderInv'
  <2>0. c \notin InFlight
    BY <1>1 DEF Section, Ready, InFlight
  <2>1. ASSUME NEW written, Changes(written), Collect(c, memory', written) PROVE OrderInv'
    <3>1. /\ InFlight' = InFlight \cup {c}
          /\ \A d \in Calls : ahead'[d] = IF d = c THEN InFlight ELSE ahead[d]
          /\ \A d \in InFlight : batch'[d] = batch[d]
          /\ DOMAIN batch'[c] = written
      BY <2>0, <2>1 DEF Collect, Move, InFlight, StoreTypeOK
    <3>2. /\ \A d \in Calls : ahead'[d] \subseteq InFlight' \ {d}
          /\ \A d, e \in InFlight' : d # e => d \in ahead'[e] \/ e \in ahead'[d]
      BY <2>0, <3>1 DEF InFlight
    <3>3. ASSUME NEW r \in Rows PROVE Seen(r)'
      <4>1. CASE r \in written
        BY <2>1, <4>1 DEF Seen, Collect
      <4>2. CASE r \notin written
        <5>1. Pending(r)' = Pending(r)
          BY <2>0, <3>1, <4>2 DEF Pending
        <5>2. QED
          BY <2>1, <5>1 DEF Seen, Collect
      <4>3. QED
        BY <4>1, <4>2
    <3>4. QED
      BY <3>2, <3>3
  <2>2. ASSUME InFlight' = InFlight, UNCHANGED <<app, snapshot, missed, batch, ahead>>
        PROVE  OrderInv'
    BY <2>2 DEF Seen, Pending
  <2>3. ASSUME NEW written, Throw(c, memory', written) PROVE OrderInv'
    <3>1. InFlight' = InFlight
      BY <1>1, <2>0, <2>3 DEF Throw, Move, InFlight, StoreTypeOK
    <3>2. QED
      BY <2>2, <2>3, <3>1 DEF Throw
  <2>4. ASSUME NEW next \in {"answered", "waiting"}, Pass(c, next) PROVE OrderInv'
    <3>1. InFlight' = InFlight
      BY <2>0, <2>4 DEF Pass, Move, InFlight, StoreTypeOK
    <3>2. QED
      BY <2>2, <2>4, <3>1 DEF Pass
  <2>5. QED
    BY <1>1, <2>1, <2>3, <2>4 DEF Section
<1>2. ASSUME NEW c \in Calls, Await(c) PROVE OrderInv'
  <2>1. PICK next \in {"resuming", "failed"} : Settle(c, next)
    BY <1>2 DEF Await
  <2>2. InFlight' = InFlight /\ \A r \in Rows : Pending(r)' = Pending(r)
    BY <2>1 DEF Settle, Move, Pending, InFlight, StoreTypeOK
  <2>3. QED
    BY <2>1, <2>2 DEF Settle, Seen
<1>3. ASSUME NEW c \in Calls, Finish(c) PROVE OrderInv'
  <2>0. /\ Leave(c) /\ phase[c] = "persisting" /\ snapshot' = snapshot /\ missed' = missed
        /\ \E next \in {"answered", "failed"} : Move(c, next)
    BY <1>3 DEF Finish, Persist, PersistFails
  <2>1. /\ InFlight' = InFlight \ {c} /\ c \in InFlight
        /\ \A d \in Calls : ahead'[d] = IF d = c THEN {} ELSE ahead[d] \ {c}
        /\ \A d \in InFlight' : batch'[d] = batch[d]
        /\ snapshot' = snapshot /\ missed' = missed
    <3>1. InFlight' = InFlight \ {c} /\ c \in InFlight
      BY <2>0 DEF Move, InFlight, StoreTypeOK
    <3>2. \A d \in Calls : ahead'[d] = IF d = c THEN {} ELSE ahead[d] \ {c}
      BY <2>0 DEF Leave
    <3>3. \A d \in Calls \ {c} : batch'[d] = batch[d]
      BY <2>0 DEF Leave, StoreTypeOK
    <3>4. QED
      BY <2>0, <3>1, <3>2, <3>3 DEF InFlight
  <2>2. /\ \A d \in Calls : ahead'[d] \subseteq InFlight' \ {d}
        /\ \A d, e \in InFlight' : d # e => d \in ahead'[e] \/ e \in ahead'[d]
    <3>1. ASSUME NEW d \in Calls PROVE ahead'[d] \subseteq InFlight' \ {d}
      <4>1. ahead[d] \subseteq InFlight \ {d}
        OBVIOUS
      <4>2. CASE d = c
        BY <2>1, <4>2
      <4>3. CASE d # c
        <5>1. ahead'[d] = ahead[d] \ {c}
          BY <2>1, <4>3
        <5>2. QED
          BY <2>1, <4>1, <5>1
      <4>4. QED
        BY <4>2, <4>3
    <3>2. ASSUME NEW d \in InFlight', NEW e \in InFlight', d # e
          PROVE  d \in ahead'[e] \/ e \in ahead'[d]
      <4>1. d \in Calls /\ e \in Calls /\ d # c /\ e # c /\ d \in InFlight /\ e \in InFlight
        BY <2>1, <3>2 DEF InFlight
      <4>2. QED
        BY <2>1, <3>2, <4>1
    <3>3. QED
      BY <3>1, <3>2
  <2>3. ASSUME NEW r \in Rows PROVE Seen(r)'
    <3>1. Pending(r)' = Pending(r) \ {c}
      BY <2>1 DEF Pending
    <3>2. Pending(r) = {} => app'[r] = app[r]
      BY <1>3, <2>1 DEF Finish, Persist, PersistFails, Pending
    <3>3. QED
      BY <2>1, <3>1, <3>2 DEF Seen
  <2>4. QED
    BY <2>2, <2>3
<1>4. CASE ReadAppRows
  <2>1. InFlight' = InFlight /\ \A r \in Rows : Pending(r)' = Pending(r)
    BY <1>4 DEF ReadAppRows, Pending, InFlight
  <2>2. QED
    BY <1>4, <2>1 DEF ReadAppRows, Seen, Pending
<1>5. ASSUME NEW table \in unread, ReadProjection(table) PROVE OrderInv'
  <2>1. snapshot # NoSnapshot
    BY <1>5 DEF StoreTypeOK
  <2>2. InFlight' = InFlight /\ \A r \in Rows : Pending(r)' = Pending(r)
    BY <1>5 DEF ReadProjection, Pending, InFlight
  <2>3. QED
    BY <1>5, <2>1, <2>2 DEF ReadProjection, Seen
<1>6. CASE ResetStore
  <2>1. InFlight' = InFlight
    BY <1>6 DEF ResetStore, InFlight
  <2>2. QED
    BY <1>6, <2>1 DEF ResetStore, Seen
<1>7. CASE Restart
  <2>1. InFlight' = {} /\ snapshot' = NoSnapshot /\ \A c \in Calls : ahead'[c] = {}
    BY <1>7 DEF Restart, InFlight
  <2>2. QED
    BY <2>1 DEF Seen
<1>8. CASE UNCHANGED storeVars
  BY <1>8 DEF storeVars, Seen, Pending, InFlight
<1>9. QED
  BY <1>1, <1>2, <1>3, <1>4, <1>5, <1>6, <1>7, <1>8 DEF Next, StoreNext, Reload

\* The store and AppRow part only as StoreAgrees allows, whatever the commands are,
\* however many of them and of reloads and restarts interleave.
THEOREM StoreAgreement == StoreSpec => []StoreAgrees
<1>1. Init => AgreeInv
  BY DEF Init, StoreInit, AgreeInv, Current, Seen, Pending, InFlight
<1>2. AgreeInv => StoreAgrees
  BY DEF AgreeInv, StoreAgrees, Current
<1>3. QED
  BY <1>1, <1>2, TypeCorrect, AgreementIsStable, PTL DEF StoreSpec
-----------------------------------------------------------------------------

\* Among sets of subsets of a finite set there is a smallest one.
LEMMA SmallestSubset ==
  ASSUME NEW S, IsFiniteSet(S), NEW B \in SUBSET SUBSET S, B # {}
  PROVE  \E s \in B : \A u \in B : u \subseteq s => u = s
<1> DEFINE R == StrictSubsetOrdering(S)
<1>1. IsWellFoundedOn(R, SUBSET S)
  <2>1. IsWellFoundedOn(R, FiniteSubsetsOf(S))
    BY FS_StrictSubsetOrderingWellFounded
  <2>2. FiniteSubsetsOf(S) = SUBSET S
    BY FS_FiniteSubsetsOfFinite
  <2>3. QED
    BY <2>1, <2>2
<1>2. \A u, s \in SUBSET S : u \subseteq s /\ u # s => <<u, s>> \in R
  BY DEF StrictSubsetOrdering
<1> HIDE DEF R
<1>3. PICK s \in B : \A u \in B : ~(<<u, s>> \in R)
  BY <1>1, WFMin, Zenon
<1>4. \A u \in B : u \subseteq s => u = s
  BY <1>2, <1>3
<1>5. QED
  BY <1>3, <1>4

\* What the recursion of a sum says: g gives every subset of S the value of one of its
\* elements and of the others together.
First(s) == CHOOSE x \in s : TRUE
Adds(fun, S, g) ==
  g = [s \in SUBSET S |-> IF s = {} THEN 0 ELSE fun[First(s)] + g[s \ {First(s)}]]

LEMMA SumsAgree ==
  ASSUME NEW fun, NEW S, NEW T, NEW g, NEW h, IsFiniteSet(S), Adds(fun, S, g), Adds(fun, T, h)
  PROVE  \A s \in SUBSET (S \cap T) : g[s] = h[s]
<1> DEFINE B == {s \in SUBSET S : s \subseteq T /\ g[s] # h[s]}
<1>1. SUFFICES ASSUME B # {} PROVE FALSE
  OBVIOUS
<1>2. PICK s \in B : \A u \in B : u \subseteq s => u = s
  <2>1. B \in SUBSET SUBSET S
    OBVIOUS
  <2> HIDE DEF B
  <2>2. QED
    BY <1>1, <2>1, SmallestSubset
<1>3. s # {}
  BY <1>2 DEF Adds
<1>4. First(s) \in s
  BY <1>3 DEF First
<1>5. g[s \ {First(s)}] = h[s \ {First(s)}]
  BY <1>2, <1>4
<1>6. g[s] = fun[First(s)] + g[s \ {First(s)}] /\ h[s] = fun[First(s)] + h[s \ {First(s)}]
  BY <1>2, <1>3 DEF Adds
<1>7. QED
  BY <1>2, <1>5, <1>6

LEMMA SumsExist ==
  ASSUME NEW fun, NEW S, IsFiniteSet(S)
  PROVE  \E g : Adds(fun, S, g)
<1> DEFINE B == {s \in SUBSET S : \A g : ~Adds(fun, s, g)}
           G(s) == CHOOSE g : Adds(fun, s, g)
<1>1. SUFFICES ASSUME B # {} PROVE FALSE
  OBVIOUS
<1>2. PICK s \in B : \A u \in B : u \subseteq s => u = s
  <2>1. B \in SUBSET SUBSET S
    OBVIOUS
  <2> HIDE DEF B
  <2>2. QED
    BY <1>1, <2>1, SmallestSubset
<1>3. \A u \in SUBSET s : u # s => Adds(fun, u, G(u))
  BY <1>2
<1> HIDE DEF G
<1> DEFINE val(u) == IF u = {} THEN 0 ELSE fun[First(u)] + G(u \ {First(u)})[u \ {First(u)}]
           h == [u \in SUBSET s |-> val(u)]
<1>4. ASSUME NEW u \in SUBSET s PROVE h[u] = IF u = {} THEN 0 ELSE fun[First(u)] + h[u \ {First(u)}]
  <2>1. CASE u = {}
    BY <2>1
  <2>2. CASE u # {}
    <3> DEFINE v == u \ {First(u)}
    <3>1. First(u) \in u
      BY <2>2 DEF First
    <3>2. v \in SUBSET s /\ v # s
      BY <3>1
    <3>3. Adds(fun, v, G(v))
      BY <1>3, <3>2
    <3>4. G(v)[v] = val(v)
      <4>1. CASE v = {}
        BY <3>3, <4>1 DEF Adds
      <4>2. CASE v # {}
        <5> DEFINE w == v \ {First(v)}
        <5>1. First(v) \in v
          BY <4>2 DEF First
        <5>2. w \in SUBSET s /\ w # s /\ w \in SUBSET (v \cap w)
          BY <3>2, <5>1
        <5>3. Adds(fun, w, G(w))
          BY <1>3, <5>2
        <5>4. IsFiniteSet(v)
          BY <3>2, FS_Subset
        <5>5. G(v)[w] = G(w)[w]
          <6> HIDE DEF v, w
          <6>1. \A t \in SUBSET (v \cap w) : G(v)[t] = G(w)[t]
            BY <3>3, <5>3, <5>4, SumsAgree
          <6>2. QED
            BY <5>2, <6>1
        <5>6. G(v)[v] = fun[First(v)] + G(v)[w]
          BY <3>3, <4>2 DEF Adds
        <5>7. QED
          BY <4>2, <5>5, <5>6
      <4>3. QED
        BY <4>1, <4>2
    <3>5. h[v] = val(v)
      BY <3>2
    <3>6. QED
      BY <2>2, <3>4, <3>5
  <2>3. QED
    BY <2>1, <2>2
<1>5. Adds(fun, s, h)
  <2>1. h = [u \in SUBSET s |-> h[u]]
    OBVIOUS
  <2> HIDE DEF h
  <2>2. QED
    BY <1>4, <2>1 DEF Adds
<1>6. QED
  BY <1>2, <1>5

LEMMA SumAdds ==
  ASSUME NEW fun, NEW S, IsFiniteSet(S)
  PROVE  \E g : Adds(fun, S, g) /\ SumFunctionOnSet(fun, S) = g[S]
<1> DEFINE it == CHOOSE g : Adds(fun, S, g)
<1>1. SumFunctionOnSet(fun, S) = it[S]
  BY DEF SumFunctionOnSet, FoldFunctionOnSet, MapThenFoldSet, Adds, First
<1>2. Adds(fun, S, it)
  BY SumsExist
<1>3. QED
  BY <1>1, <1>2

\* The recursion of a sum, on every subset of its indices.
LEMMA SumUnfolds ==
  ASSUME NEW fun, NEW S, IsFiniteSet(S)
  PROVE  SumFunctionOnSet(fun, S) =
             IF S = {} THEN 0
             ELSE fun[First(S)] + SumFunctionOnSet(fun, S \ {First(S)})
<1>1. PICK g : Adds(fun, S, g) /\ SumFunctionOnSet(fun, S) = g[S]
  BY SumAdds
<1>2. CASE S = {}
  BY <1>1, <1>2 DEF Adds
<1>3. CASE S # {}
  <2> DEFINE T == S \ {First(S)}
  <2>1. IsFiniteSet(T) /\ T \in SUBSET (T \cap S) /\ T \in SUBSET (S \cap T)
    BY FS_Subset
  <2>2. PICK h : Adds(fun, T, h) /\ SumFunctionOnSet(fun, T) = h[T]
    BY <2>1, SumAdds
  <2>3. g[T] = h[T]
    <3> HIDE DEF T
    <3>1. \A s \in SUBSET (S \cap T) : g[s] = h[s]
      BY <1>1, <2>2, SumsAgree
    <3>2. QED
      BY <2>1, <3>1
  <2>4. g[S] = fun[First(S)] + g[T]
    BY <1>1, <1>3 DEF Adds
  <2>5. QED
    BY <1>1, <1>3, <2>2, <2>3, <2>4
<1>4. QED
  BY <1>2, <1>3

\* A sum of naturals is a natural.
LEMMA SumIsNatural ==
  ASSUME NEW fun, NEW S, IsFiniteSet(S), \A x \in S : fun[x] \in Nat
  PROVE  SumFunctionOnSet(fun, S) \in Nat
<1> DEFINE B == {s \in SUBSET S : SumFunctionOnSet(fun, s) \notin Nat}
<1>1. SUFFICES ASSUME B # {} PROVE FALSE
  OBVIOUS
<1>2. PICK s \in B : \A u \in B : u \subseteq s => u = s
  <2>1. B \in SUBSET SUBSET S
    OBVIOUS
  <2> HIDE DEF B
  <2>2. QED
    BY <1>1, <2>1, SmallestSubset
<1>3. IsFiniteSet(s)
  BY <1>2, FS_Subset
<1>4. s # {}
  <2>1. s = {} => SumFunctionOnSet(fun, s) = 0
    BY <1>3, SumUnfolds
  <2>2. QED
    BY <1>2, <2>1
<1>5. First(s) \in s
  BY <1>4 DEF First
<1>6. SumFunctionOnSet(fun, s \ {First(s)}) \in Nat
  BY <1>2, <1>5
<1>7. SumFunctionOnSet(fun, s) = fun[First(s)] + SumFunctionOnSet(fun, s \ {First(s)})
  BY <1>3, <1>4, SumUnfolds
<1>8. QED
  BY <1>2, <1>5, <1>6, <1>7

\* A sum does not depend on the order.
LEMMA SumOfOneMore ==
  ASSUME NEW fun, NEW S, IsFiniteSet(S), NEW x, x \notin S, fun[x] \in Nat,
         \A y \in S : fun[y] \in Nat
  PROVE  SumFunctionOnSet(fun, S \cup {x}) = fun[x] + SumFunctionOnSet(fun, S)
<1> DEFINE Sum(s) == SumFunctionOnSet(fun, s)
           B == {s \in SUBSET S : \E y \in (S \cup {x}) \ s : Sum(s \cup {y}) # fun[y] + Sum(s)}
<1>1. SUFFICES ASSUME B # {} PROVE FALSE
  OBVIOUS
<1>2. PICK s \in B : \A u \in B : u \subseteq s => u = s
  <2>1. B \in SUBSET SUBSET S
    OBVIOUS
  <2> HIDE DEF B
  <2>2. QED
    BY <1>1, <2>1, SmallestSubset
<1>3. PICK y \in (S \cup {x}) \ s : Sum(s \cup {y}) # fun[y] + Sum(s)
  BY <1>2
<1> DEFINE t == s \cup {y}
           z == First(t)
<1>4. z \in t /\ t # {}
  BY DEF First
<1>5. IsFiniteSet(s) /\ IsFiniteSet(t) /\ IsFiniteSet(s \ {z}) /\ s \in SUBSET S
  BY <1>2, FS_Subset, FS_AddElement
<1>6. Sum(t) = fun[z] + Sum(t \ {z})
  BY <1>4, <1>5, SumUnfolds
<1>7. CASE z = y
  <2>1. t \ {z} = s
    BY <1>3, <1>7
  <2>2. QED
    BY <1>3, <1>6, <1>7, <2>1
<1>8. CASE z # y
  <2> DEFINE u == s \ {z}
  <2>1. z \in s /\ t \ {z} = u \cup {y} /\ s = u \cup {z}
    BY <1>3, <1>4, <1>8
  <2>2. u \notin B /\ u \in SUBSET S
    BY <1>2, <2>1
  <2>3. Sum(u \cup {y}) = fun[y] + Sum(u) /\ Sum(u \cup {z}) = fun[z] + Sum(u)
    BY <1>2, <1>3, <2>1, <2>2
  <2>4. \A q \in u : fun[q] \in Nat
    BY <1>5
  <2>5. Sum(u) \in Nat
    BY <1>5, <2>4, SumIsNatural
  <2>6. fun[y] \in Nat /\ fun[z] \in Nat
    BY <1>3, <1>5, <2>1
  <2> HIDE DEF Sum, u, t, z
  <2>7. Sum(t) = fun[z] + (fun[y] + Sum(u)) /\ Sum(s) = fun[z] + Sum(u)
    BY <1>6, <2>1, <2>3
  <2>8. Sum(t) # fun[y] + Sum(s)
    BY <1>3 DEF t
  <2>9. QED
    BY <2>5, <2>6, <2>7, <2>8
<1>9. QED
  BY <1>7, <1>8

-----------------------------------------------------------------------------
\* The store can hold what the tables do.
ValuesAreGiven == \A r \in Rows : RowValues(r) \subseteq Values

\* The calls are those of a scenario.
CallsAreGiven == \E s \in Scenarios : call = s.calls

LEMMA CallsAreWellFormed ==
  ASSUME CallsAreGiven, NEW c \in Calls
  PROVE  CallIsWellFormed(c, call[c])
BY ScenariosAreWellFormed DEF CallsAreGiven

LEMMA ValuesByTable ==
  \A r \in Rows :
    /\ r[1] = "projects" => RowValues(r) = ProjectValues
    /\ r[1] = "project_funding_rounds" => RowValues(r) = RoundValues
    /\ r[1] = "project_tracking" => RowValues(r) = CardValues
    /\ r[1] = "project_funding_commitments" => RowValues(r) =
           {v \in CommitmentValues : OfSchedule(r, v)}
    /\ r[1] = "course_enrollments" => RowValues(r) = EnrollmentValues
    /\ r[1] = "exams" => RowValues(r) = ExamValues
    /\ r[1] = "submissions" => RowValues(r) = SubmissionValues
    /\ r[1] = "exam_sessions" => RowValues(r) = SessionValues
    /\ r[1] = "certificates" => RowValues(r) = CertificateValues
    /\ r[1] = "payout_requests" => RowValues(r) = PayoutValues
    /\ r[1] = "payment_transactions" => RowValues(r) = TransactionValues
BY DEF RowValues

LEMMA PutHolds ==
  ASSUME ValuesAreGiven, NEW s \in Tables, Holds(s, Rows),
         NEW f, DOMAIN f \in SUBSET Rows, Holds(f, DOMAIN f)
  PROVE  /\ Put(s, f) \in Tables /\ Holds(Put(s, f), Rows)
         /\ \A r \in DOMAIN f : Put(s, f)[r] = f[r]
         /\ \A r \in Rows \ DOMAIN f : Put(s, f)[r] = s[r]
<1>1. \A r \in Rows : Put(s, f)[r] = IF r \in DOMAIN f THEN f[r] ELSE s[r]
  BY DEF Put
<1>2. \A r \in Rows : Put(s, f)[r] \in RowValues(r) \cup {Absent}
  BY <1>1 DEF Holds
<1>3. Put(s, f) \in Tables
  BY <1>2 DEF Put, Tables, ValuesAreGiven
<1>4. QED
  BY <1>1, <1>2, <1>3 DEF Holds

LEMMA RemoveHolds ==
  ASSUME NEW s \in Tables, Holds(s, Rows), NEW gone \in SUBSET Rows
  PROVE  /\ Remove(s, gone) \in Tables /\ Holds(Remove(s, gone), Rows)
         /\ \A r \in gone : Remove(s, gone)[r] = Absent
         /\ \A r \in Rows \ gone : Remove(s, gone)[r] = s[r]
BY DEF Remove, Tables, Holds

\* A section that has changed rows of w only, as their tables allow, and collects them
\* or throws.
Sectioned(c, w) ==
  /\ Changes(w) /\ Holds(memory', Rows)
  /\ \/ Collect(c, memory', w)
     \/ Throw(c, memory', w) /\ w = {r \in Rows : memory'[r] # memory[r]}

LEMMA Found ==
  ASSUME NEW s, NEW t, In(s, t) # {}
  PROVE  Find(s, t) \in In(s, t)
BY DEF Find

LEMMA StoreHolds ==
  ASSUME TypeOK
  PROVE  /\ app \in Tables /\ memory \in Tables
         /\ Holds(app, Rows) /\ Holds(memory, Rows)
BY DEF TypeOK, StoreTypeOK

LEMMA WriteIsSection ==
  ASSUME TypeOK, ValuesAreGiven, NEW c, NEW f, DOMAIN f \in SUBSET Rows, Holds(f, DOMAIN f),
         NEW w, DOMAIN f \subseteq w, w \in SUBSET Rows, Collect(c, Put(memory, f), w)
  PROVE  /\ Sectioned(c, w) /\ Collect(c, memory', w)
         /\ \A r \in DOMAIN f : memory'[r] = f[r]
         /\ \A r \in Rows \ DOMAIN f : memory'[r] = memory[r]
<1>1. memory' = Put(memory, f)
  BY DEF Collect
<1>2. QED
  BY <1>1, StoreHolds, PutHolds DEF Sectioned, Changes

LEMMA DropIsSection ==
  ASSUME TypeOK, NEW c, NEW gone \in SUBSET Rows, Collect(c, Remove(memory, gone), gone)
  PROVE  /\ Sectioned(c, gone) /\ Collect(c, memory', gone)
         /\ \A r \in gone : memory'[r] = Absent
         /\ \A r \in Rows \ gone : memory'[r] = memory[r]
<1>1. memory' = Remove(memory, gone)
  BY DEF Collect
<1>2. QED
  BY <1>1, StoreHolds, RemoveHolds DEF Sectioned, Changes

\* What is paid of a schedule is a natural.
LEMMA PaidIsNatural ==
  ASSUME NEW f \in Fundings, NEW periods \in SUBSET (0..(f.months - 1))
  PROVE  Paid(f, periods) \in Nat
<1>1. \A n \in Nat, d \in Nat \ {0} : Rounded(n, d) \in Nat
  BY DEF Rounded
<1>2. /\ f.amount \in Nat /\ f.months \in 1..60 /\ f.months \in Nat \ {0}
      /\ {ProfitRate, InterestRate} \subseteq Nat
  BY RatesAreNaturals DEF Fundings
<1>3. ProjectedProfit(f) \in Nat /\ ProjectedInterest(f) \in Nat
  <2>1. f.amount * ProfitRate * f.months \in Nat /\ f.amount * InterestRate * f.months \in Nat
    BY <1>2
  <2>2. QED
    BY <1>1, <2>1 DEF ProjectedProfit, ProjectedInterest
<1>4. ASSUME NEW m \in 0..(f.months - 1) PROVE Payment(f, m) \in Nat
  <2>1. MonthlyPrincipal(f) \in Nat
    BY <1>1, <1>2 DEF MonthlyPrincipal
  <2>2. Remaining(f, m) \in Nat
    <3>1. m * MonthlyPrincipal(f) \in Nat
      BY <1>2, <2>1
    <3>2. QED
      BY <1>2, <3>1 DEF Remaining, Less
  <2>3. Profit(f, m) \in Nat
    <3>1. f.months - m \in Nat /\ f.months * (f.months + 1) \in Nat \ {0}
      BY <1>2
    <3>2. 2 * ProjectedProfit(f) * (f.months - m) \in Nat
      BY <1>3, <3>1
    <3>3. QED
      BY <1>1, <3>1, <3>2 DEF Profit
  <2>4. Interest(f) \in Nat
    BY <1>1, <1>2, <1>3 DEF Interest
  <2>5. QED
    BY <2>1, <2>2, <2>3, <2>4 DEF Payment, Principal
<1>5. IsFiniteSet(periods)
  <2>1. f.months - 1 \in Int /\ 0 \in Int
    BY <1>2
  <2>2. IsFiniteSet(0..(f.months - 1))
    BY <2>1, FS_Interval
  <2>3. QED
    BY <2>2, FS_Subset
<1> DEFINE fun == [m \in 0..(f.months - 1) |-> Payment(f, m)]
<1>6. \A m \in periods : fun[m] \in Nat
  BY <1>4
<1> HIDE DEF fun
<1>7. SumFunctionOnSet(fun, periods) \in Nat
  BY <1>5, <1>6, SumIsNatural
<1>8. QED
  BY <1>7 DEF Paid, fun

LEMMA HeldRow ==
  ASSUME TypeOK, NEW r \in Rows, memory[r] # Absent
  PROVE  memory[r] \in RowValues(r)
BY StoreHolds DEF Holds

\* What the commands make of a commitment is one.
LEMMA HeldCommitment ==
  ASSUME TypeOK, NEW r \in Commitments, memory[r] # Absent
  PROVE  LET schedule == 0..(Funding[r].months - 1) IN
         /\ RowValues(r) = {v \in CommitmentValues : OfSchedule(r, v)}
         /\ memory[r] \in CommitmentValues /\ memory[r].periods \subseteq schedule
         /\ Funding[r] \in Fundings /\ schedule \subseteq 0..59
<1> DEFINE schedule == 0..(Funding[r].months - 1)
<1>1. r \in Rows /\ r[1] = "project_funding_commitments"
  BY DEF Commitments, RowsOf
<1>2. RowValues(r) = {v \in CommitmentValues : OfSchedule(r, v)}
  BY <1>1, ValuesByTable
<1>3. memory[r] \in CommitmentValues /\ memory[r].periods \subseteq schedule
  BY <1>1, <1>2, HeldRow DEF OfSchedule
<1>4. Funding[r] \in Fundings /\ Funding[r].months \in 1..60
  BY FundingIsGiven DEF Fundings
<1>5. schedule \subseteq 0..59
  BY <1>4
<1>6. QED
  BY <1>2, <1>3, <1>4, <1>5

LEMMA ReviewedRow ==
  ASSUME TypeOK, NEW r \in Commitments, memory[r] # Absent,
         NEW st \in {"approved_contract_ready", "rejected"}
  PROVE  /\ [memory[r] EXCEPT !.status = st] \in RowValues(r)
         /\ [memory[r] EXCEPT !.status = st].status = st
<1> DEFINE v == [memory[r] EXCEPT !.status = st]
<1>1. memory[r] \in CommitmentValues /\ OfSchedule(r, memory[r])
  BY HeldCommitment, HeldRow DEF Commitments, RowsOf
<1>2. v \in CommitmentValues /\ v.status = st /\ v.periods = memory[r].periods
  BY <1>1 DEF CommitmentValues
<1> HIDE DEF v
<1>3. OfSchedule(r, v)
  BY <1>1, <1>2 DEF OfSchedule
<1>4. QED
  BY <1>2, <1>3, HeldCommitment DEF v

LEMMA ActivatedRow ==
  ASSUME TypeOK, NEW r \in Commitments, memory[r] # Absent
  PROVE  Activated(r) \in RowValues(r) /\ Activated(r).status = "active"
<1>1. memory[r] \in CommitmentValues /\ OfSchedule(r, memory[r])
  BY HeldCommitment, HeldRow DEF Commitments, RowsOf
<1>2. Activated(r) \in CommitmentValues
  BY <1>1 DEF Activated, CommitmentValues
<1>3. Activated(r).periods = memory[r].periods /\ Activated(r).status = "active"
  BY <1>1 DEF Activated, CommitmentValues
<1>4. OfSchedule(r, Activated(r))
  BY <1>1, <1>3 DEF OfSchedule
<1>5. QED
  BY <1>2, <1>3, <1>4, HeldCommitment

LEMMA PaidRow ==
  ASSUME TypeOK, NEW r \in Commitments, memory[r] # Absent,
         NEW m \in 0..(Funding[r].months - 1), NEW st \in {"active", "completed"},
         NEW periods, periods = memory[r].periods \cup {m},
         st = "completed" => periods = 0..(Funding[r].months - 1),
         NEW v, v = [status |-> st, periods |-> periods, repaid |-> Paid(Funding[r], periods)]
  PROVE  v \in RowValues(r)
<1> DEFINE schedule == 0..(Funding[r].months - 1)
<1>1. memory[r].periods \subseteq schedule /\ schedule \subseteq 0..59 /\ Funding[r] \in Fundings
      /\ RowValues(r) = {x \in CommitmentValues : OfSchedule(r, x)}
  BY HeldCommitment
<1>2. periods \in SUBSET schedule
  BY <1>1
<1>3. Paid(Funding[r], periods) \in Nat
  BY <1>1, <1>2, PaidIsNatural
<1> HIDE DEF schedule
<1>4. periods \in SUBSET (0..59)
  BY <1>1, <1>2
<1>5. v \in CommitmentValues
  BY <1>3, <1>4 DEF CommitmentValues
<1>6. OfSchedule(r, v)
  BY <1>2 DEF OfSchedule, schedule
<1>7. QED
  BY <1>1, <1>5, <1>6

\* An amount is added to what a row of these tables has raised.
LEMMA CreditedRows ==
  ASSUME TypeOK, NEW x \in Rows, memory[x] # Absent,
         x[1] \in {"projects", "project_funding_rounds", "project_tracking"}, NEW a \in Nat
  PROVE  /\ Credited(x, a) \in RowValues(x) /\ memory[x].total \in Nat
         /\ Credited(x, a).total = memory[x].total + a
<1>1. memory[x] \in RowValues(x)
  BY HeldRow
<1>2. CASE x[1] = "project_tracking"
  <2>1. memory[x] \in CardValues /\ RowValues(x) = CardValues /\ x \in Cards
    BY <1>1, <1>2, ValuesByTable DEF Cards, RowsOf
  <2>2. Credited(x, a) = [total |-> memory[x].total + a, committed |-> 0]
    BY <2>1 DEF Credited, CardValues
  <2>3. QED
    BY <2>1, <2>2 DEF CardValues
<1>3. CASE x[1] = "projects"
  <2>1. memory[x] \in ProjectValues /\ RowValues(x) = ProjectValues /\ x \notin Cards
    BY <1>1, <1>3, ValuesByTable DEF Cards, RowsOf
  <2>2. Credited(x, a) = [status |-> memory[x].status, total |-> memory[x].total + a]
    BY <2>1 DEF Credited, ProjectValues
  <2>3. QED
    BY <2>1, <2>2 DEF ProjectValues
<1>4. CASE x[1] = "project_funding_rounds"
  <2>1. memory[x] \in RoundValues /\ RowValues(x) = RoundValues /\ x \notin Cards
    BY <1>1, <1>4, ValuesByTable DEF Cards, RowsOf
  <2>2. Credited(x, a) = [total |-> memory[x].total + a]
    BY <2>1 DEF Credited, RoundValues
  <2>3. QED
    BY <2>1, <2>2 DEF RoundValues
<1>5. QED
  BY <1>2, <1>3, <1>4

\* A section of a project command writes rows of the project's tables only.
LEMMA ProjectSections ==
  ASSUME TypeOK, ValuesAreGiven, CallsAreGiven, NEW c \in Calls, ProjectSection(c)
  PROVE  Pass(c, "answered") \/ \E w \in SUBSET ProjectRows : Sectioned(c, w)
<1> DEFINE Done == Pass(c, "answered") \/ \E w \in SUBSET ProjectRows : Sectioned(c, w)
<1>1. CallIsWellFormed(c, call[c])
  BY CallsAreWellFormed
<1>2. memory \in Tables /\ Holds(memory, Rows)
  BY StoreHolds
<1>3. ASSUME NEW f, DOMAIN f \in SUBSET ProjectRows, Holds(f, DOMAIN f), Write(c, f) PROVE Done
  BY <1>3, WriteIsSection DEF ProjectRows, Write
<1>4. ASSUME NEW f, NEW committed \in Nat, f = NewCard(c, committed),
             New("project_tracking", c) \in Rows
      PROVE  DOMAIN f \in SUBSET ProjectRows /\ Holds(f, DOMAIN f)
  <2> DEFINE r == New("project_tracking", c)
             card == [total |-> 0, committed |-> committed]
  <2>1. r \in ProjectRows /\ RowValues(r) = CardValues
    BY <1>4, ValuesByTable DEF New, ProjectRows, ProjectTables
  <2>2. card \in RowValues(r)
    BY <1>4, <2>1 DEF CardValues
  <2>3. f = [x \in {r} |-> card] \/ f = NoRows
    BY <1>4 DEF NewCard
  <2> HIDE DEF r, card
  <2>4. QED
    BY <2>1, <2>2, <2>3 DEF NoRows, Holds
<1>5. Project \in ProjectRows /\ Project[1] = "projects"
  BY OneProjectAndExam DEF Project, ProjectRows, ProjectTables
<1>6. CASE CreateCommitment(c)
  <2> DEFINE r == New("project_funding_commitments", c)
             offer == [status |-> "pending_c2p_validation", periods |-> {}, repaid |-> 0]
             card == NewCard(c, Funding[r].amount)
             f == [x \in {r} \cup DOMAIN card |-> IF x = r THEN offer ELSE card[x]]
  <2>1. r \in Commitments /\ r \in ProjectRows /\ r[1] = "project_funding_commitments"
        /\ New("project_tracking", c) \in Rows
    BY <1>1, <1>6 DEF CallIsWellFormed, CreateCommitment, New, Commitments, RowsOf,
                      ProjectRows, ProjectTables
  <2>2. Funding[r].amount \in Nat
    BY <2>1, FundingIsGiven DEF Fundings
  <2>3. DOMAIN card \in SUBSET ProjectRows /\ Holds(card, DOMAIN card)
    BY <1>4, <2>1, <2>2
  <2>4. offer \in RowValues(r)
    <3>1. offer \in CommitmentValues /\ OfSchedule(r, offer)
      BY DEF CommitmentValues, OfSchedule
    <3>2. QED
      BY <2>1, <3>1, ValuesByTable DEF ProjectRows
  <2>5. DOMAIN f \in SUBSET ProjectRows /\ Holds(f, DOMAIN f)
    BY <2>1, <2>3, <2>4 DEF Holds
  <2>6. Write(c, f) \/ Pass(c, "answered")
    BY <1>6 DEF CreateCommitment, Refused
  <2> HIDE DEF f
  <2>7. QED
    BY <1>3, <2>5, <2>6
<1>7. CASE ReviewCommitment(c)
  <2> DEFINE r == call[c].on
             f == [x \in {r} |-> [memory[x] EXCEPT !.status = call[c].status]]
  <2>1. r \in Commitments /\ r \in ProjectRows /\ r[1] = "project_funding_commitments"
        /\ call[c].status \in {"approved_contract_ready", "rejected"}
    BY <1>1, <1>7 DEF CallIsWellFormed, ReviewCommitment, Commitments, RowsOf,
                      ProjectRows, ProjectTables
  <2>2. CASE memory[r] # Absent
    <3>2. f[r] \in RowValues(r)
      BY <2>1, <2>2, ReviewedRow
    <3>3. DOMAIN f \in SUBSET ProjectRows /\ Holds(f, DOMAIN f)
      BY <2>1, <3>2 DEF Holds
    <3>4. Write(c, f) \/ Pass(c, "answered")
      BY <1>7 DEF ReviewCommitment, Refused
    <3> HIDE DEF f
    <3>5. QED
      BY <1>3, <3>3, <3>4
  <2>3. CASE memory[r] = Absent
    BY <1>7, <2>3 DEF ReviewCommitment, Refused, Is
  <2>4. QED
    BY <2>2, <2>3
<1>8. CASE ActivateCommitment(c)
  <2> DEFINE r == call[c].on
             f == [x \in {r} \cup Totals |->
                      IF x = r THEN Activated(r) ELSE Credited(x, Funding[r].amount)]
             g == [x \in {r} |-> Activated(r)]
  <2>1. r \in Commitments /\ r \in ProjectRows /\ r[1] = "project_funding_commitments"
    BY <1>1, <1>8 DEF CallIsWellFormed, ActivateCommitment, Commitments, RowsOf,
                      ProjectRows, ProjectTables
  <2>2. CASE ~Is(r, "approved_contract_ready")
    BY <1>8, <2>2 DEF ActivateCommitment, Refused
  <2>3. CASE Is(r, "approved_contract_ready")
    <3>1. memory[r] # Absent /\ memory[r].status = "approved_contract_ready"
      BY <2>3 DEF Is
    <3>2. Activated(r) \in RowValues(r) /\ Activated(r) # memory[r]
      BY <2>1, <3>1, ActivatedRow
    <3>3. CASE ProjectIsOpen
      <4>1. Totals \in SUBSET ProjectRows /\ \A x \in Totals : memory[x] # Absent /\
              x[1] \in {"projects", "project_funding_rounds", "project_tracking"}
        BY <1>5, <3>3, Found DEF Totals, ProjectIsOpen, In, RowsOf, ProjectRows, ProjectTables
      <4> DEFINE a == Funding[r].amount
      <4>2. a \in Nat
        BY <2>1, FundingIsGiven DEF Fundings
      <4> HIDE DEF a
      <4>3. ASSUME NEW x \in Totals PROVE Credited(x, a) \in RowValues(x)
        BY <4>1, <4>2, CreditedRows DEF ProjectRows
      <4>4. DOMAIN f \in SUBSET ProjectRows /\ Holds(f, DOMAIN f)
        BY <2>1, <3>2, <4>1, <4>3 DEF Holds, a
      <4>5. Write(c, f)
        BY <1>8, <2>3, <3>3 DEF ActivateCommitment
      <4> HIDE DEF f
      <4>6. QED
        BY <1>3, <4>4, <4>5
    <3>4. CASE ~ProjectIsOpen
      <4>1. Throw(c, Put(memory, g), {r}) /\ memory' = Put(memory, g)
        BY <1>8, <2>3, <3>4 DEF ActivateCommitment, Throw
      <4>2. DOMAIN g = {r} /\ {r} \in SUBSET Rows /\ Holds(g, DOMAIN g) /\ g[r] # memory[r]
        BY <2>1, <3>2 DEF Holds, ProjectRows
      <4> HIDE DEF g
      <4>3. /\ memory' \in Tables /\ Holds(memory', Rows) /\ memory'[r] # memory[r]
            /\ \A x \in Rows \ {r} : memory'[x] = memory[x]
        BY <1>2, <4>1, <4>2, PutHolds
      <4>4. Sectioned(c, {r})
        BY <2>1, <4>1, <4>3 DEF Sectioned, Changes, ProjectRows
      <4>5. QED
        BY <2>1, <4>4
    <3>5. QED
      BY <3>3, <3>4
  <2>4. QED
    BY <2>2, <2>3
<1>9. CASE MarkInstallmentPaid(c)
  <2> DEFINE r == call[c].on
             schedule == 0..(Funding[r].months - 1)
             periods == memory[r].periods \cup {call[c].period}
             status == IF periods = schedule THEN "completed" ELSE "active"
             f == [x \in {r} |-> [status |-> status, periods |-> periods,
                                  repaid |-> Paid(Funding[r], periods)]]
  <2>1. r \in Commitments /\ r \in ProjectRows /\ r[1] = "project_funding_commitments"
    BY <1>1, <1>9 DEF CallIsWellFormed, MarkInstallmentPaid, Commitments, RowsOf,
                      ProjectRows, ProjectTables
  <2>2. CASE ~(Is(r, "active") /\ call[c].period \in schedule \ memory[r].periods)
    BY <1>9, <2>2 DEF MarkInstallmentPaid, Refused
  <2>3. CASE Is(r, "active") /\ call[c].period \in schedule \ memory[r].periods
    <3>4. f[r] \in RowValues(r)
      <4>1. call[c].period \in schedule /\ memory[r] # Absent /\ status \in {"active", "completed"}
        BY <2>3 DEF Is
      <4>2. f[r] = [status |-> status, periods |-> periods, repaid |-> Paid(Funding[r], periods)]
        OBVIOUS
      <4>3. /\ periods = memory[r].periods \cup {call[c].period}
            /\ status = "completed" => periods = schedule
        OBVIOUS
      <4>4. /\ r \in Commitments /\ memory[r] # Absent
            /\ call[c].period \in 0..(Funding[r].months - 1)
            /\ status = "completed" => periods = 0..(Funding[r].months - 1)
        BY <2>1, <4>1, <4>3
      <4> HIDE DEF f, status, periods, schedule, r
      <4>5. QED
        BY <4>1, <4>2, <4>3, <4>4, PaidRow
    <3>5. DOMAIN f \in SUBSET ProjectRows /\ Holds(f, DOMAIN f)
      BY <2>1, <3>4 DEF Holds
    <3>6. Write(c, f)
      BY <1>9, <2>3 DEF MarkInstallmentPaid
    <3> HIDE DEF f
    <3>7. QED
      BY <1>3, <3>5, <3>6
  <2>4. QED
    BY <2>2, <2>3
<1>10. CASE UpdateOwnerProject(c)
  <2> DEFINE f == [r \in {Project} |-> [memory[r] EXCEPT !.status = call[c].status]]
  <2>1. CASE memory[Project] = Absent
    BY <1>10, <2>1 DEF UpdateOwnerProject, Refused
  <2>2. CASE memory[Project] # Absent
    <3>1. memory[Project] \in RowValues(Project) /\ RowValues(Project) = ProjectValues
      BY <1>2, <1>5, <2>2, ValuesByTable DEF Holds, ProjectRows
    <3>2. f[Project] \in RowValues(Project)
      BY <1>1, <1>10, <3>1 DEF CallIsWellFormed, UpdateOwnerProject, ProjectValues
    <3>3. DOMAIN f \in SUBSET ProjectRows /\ Holds(f, DOMAIN f)
      BY <1>5, <3>2 DEF Holds
    <3>4. Write(c, f)
      BY <1>10, <2>2 DEF UpdateOwnerProject
    <3> HIDE DEF f
    <3>5. QED
      BY <1>3, <3>3, <3>4
  <2>3. QED
    BY <2>1, <2>2
<1>11. CASE DeleteOwnerProject(c)
  <2> DEFINE gone == {Project} \cup In(memory, "project_funding_rounds")
                     \cup In(memory, "project_tracking")
  <2>1. gone \in SUBSET ProjectRows /\ gone \in SUBSET Rows
    BY <1>5 DEF In, RowsOf, ProjectRows, ProjectTables
  <2>2. Pass(c, "answered") \/ Collect(c, Remove(memory, gone), gone)
    BY <1>11 DEF DeleteOwnerProject, Refused, Drop
  <2> HIDE DEF gone
  <2>3. QED
    BY <2>1, <2>2, DropIsSection
<1>12. CASE ExpressPartnerInterest(c)
  <2> DEFINE f == NewCard(c, 0)
  <2>1. DOMAIN f \in SUBSET ProjectRows /\ Holds(f, DOMAIN f)
    BY <1>1, <1>4, <1>12 DEF CallIsWellFormed, ExpressPartnerInterest
  <2>2. Write(c, f) \/ Pass(c, "answered")
    BY <1>12 DEF ExpressPartnerInterest, Refused
  <2> HIDE DEF f
  <2>3. QED
    BY <1>3, <2>1, <2>2
<1>13. QED
  BY <1>6, <1>7, <1>8, <1>9, <1>10, <1>11, <1>12 DEF ProjectSection

-----------------------------------------------------------------------------
\* What a section of the learning commands may do to a row of each table.
Instructed(c) == call[c].op \in {"issueCertificate", "revokeCertificate"}
IsFinal(v) == v # Absent /\ v.status \in Final

\* The row was there before, or is the command's own and the first of its table.
Appends(c, t, r) == memory[r] = Absent => r = New(t, c) /\ In(memory, t) = {}

CertificateStep(c, r) ==
  /\ memory'[r] # Absent /\ Appends(c, "certificates", r)
  /\ IF Instructed(c) THEN IsFinal(memory'[r]) ELSE ~IsFinal(memory[r])

EnrollmentStep(c, r) == memory'[r] # Absent /\ Appends(c, "course_enrollments", r)

SubmissionStep(c, r) ==
  IF memory'[r] = Absent THEN memory'[Exam] = Absent
  ELSE memory[Exam] # Absent /\ Appends(c, "submissions", r)

SessionStep(c, r) ==
  /\ call[c].op = "startQuiz" /\ Ready(c) /\ r = New("exam_sessions", c) /\ memory'[r] # Absent
  /\ \A q \in In(memory, "exam_sessions") : memory[q].attempt # memory'[r].attempt

\* What a certificate says of a store.
Computed(s) ==
  [status |-> IF Met(Required(s)) THEN "issued" ELSE "in_progress", seen |-> Required(s)]

\* The certificate is computed from what the section leaves, unless it is final.
Recomputed(c) ==
  Enrolled(memory') =>
    LET k == IF In(memory, "certificates") = {} THEN New("certificates", c)
             ELSE Find(memory, "certificates")
    IN IsFinal(memory[k]) \/ memory'[k] = Computed(memory')

\* What the certificate of a learner rests on: work is handed in by a learner, together
\* with the evaluation and a certificate; so is an enrollment; and a certificate is written
\* as it was computed, or by the instructor.
EarnsWith(c, w) ==
  /\ \A q \in w : q[1] = "submissions" =>
       /\ Exam \in w
       /\ memory'[q] # Absent =>
            Recomputed(c) /\ (Enrolled(memory) \/ In(memory, "submissions") # {})
  /\ \A r \in w : r[1] = "course_enrollments" /\ memory[r] = Absent => Recomputed(c)
  /\ \A k \in w : k[1] = "certificates" =>
       IF Instructed(c)
       THEN memory[k] # Absent
            /\ (call[c].op = "revokeCertificate" => memory'[k].status = "revoked")
       ELSE Enrolled(memory') /\ memory'[k] = Computed(memory')

LearningWrite(c, w) ==
  /\ w \in SUBSET LearningRows /\ Sectioned(c, w) /\ Collect(c, memory', w)
  /\ EarnsWith(c, w)
  /\ \A r \in w : /\ r[1] = "certificates" => CertificateStep(c, r)
                  /\ r[1] = "course_enrollments" => EnrollmentStep(c, r)
                  /\ r[1] = "submissions" => SubmissionStep(c, r)
                  /\ r[1] = "exam_sessions" => SessionStep(c, r)
                  /\ r = Exam => memory[Exam] # Absent

LEMMA RequirementsAreKnown ==
  ASSUME NEW s
  PROVE  Required(s) \in Requirements
<1>1. ExamRequirement(s) \in {"none", "passed", "resubmit", "pending_review", "failed",
                              "not_submitted"}
  BY DEF ExamRequirement
<1>2. QED
  BY <1>1 DEF Required, Requirements

LEMMA CertifiedRows ==
  ASSUME NEW s \in Tables, NEW c \in Calls, New("certificates", c) \in Rows
  PROVE  \A r \in DOMAIN Certified(s, c) :
           /\ r \in Rows /\ r[1] = "certificates"
           /\ Certified(s, c)[r] \in CertificateValues
           /\ s[r] = Absent => r = New("certificates", c) /\ In(s, "certificates") = {}
           /\ ~IsFinal(s[r])
<1> DEFINE old == Find(s, "certificates")
           new == [status |-> IF Met(Required(s)) THEN "issued" ELSE "in_progress",
                   seen |-> Required(s)]
           own == New("certificates", c)
<1>1. new \in CertificateValues
  BY RequirementsAreKnown DEF CertificateValues
<1>2. \/ Certified(s, c) = NoRows
      \/ In(s, "certificates") = {} /\ Certified(s, c) = [r \in {own} |-> new]
      \/ /\ In(s, "certificates") # {} /\ s[old].status \notin Final
         /\ Certified(s, c) = [r \in {old} |-> new]
  BY DEF Certified
<1>3. In(s, "certificates") # {} => old \in Rows /\ old[1] = "certificates" /\ s[old] # Absent
  BY Found DEF In, RowsOf
<1>4. /\ own \in Rows /\ own[1] = "certificates"
      /\ In(s, "certificates") = {} => s[own] = Absent
  BY DEF New, In, RowsOf
<1> HIDE DEF old, new, own
<1>5. QED
  BY <1>1, <1>2, <1>3, <1>4 DEF NoRows, IsFinal, own

LEMMA FoundAlike ==
  ASSUME NEW s1, NEW s2, NEW t, In(s1, t) = In(s2, t)
  PROVE  Find(s1, t) = Find(s2, t)
BY DEF Find

\* What a certificate asks for does not depend on certificates.
LEMMA RequiredAlike ==
  ASSUME Exam \in Rows, NEW s1, NEW s2,
         \A r \in Rows : r[1] # "certificates" => s1[r] = s2[r]
  PROVE  /\ \A t : t # "certificates" => In(s1, t) = In(s2, t)
         /\ In(s1, "course_enrollments") # {} => Required(s1) = Required(s2)
<1>1. ASSUME NEW t, t # "certificates"
      PROVE  In(s1, t) = In(s2, t) /\ \A r \in In(s1, t) : s1[r] = s2[r]
  BY <1>1 DEF In, RowsOf
<1>2. s1[Exam] = s2[Exam]
  BY DEF Exam
<1>3. \A r \in In(s1, "submissions") : s1[r] = s2[r]
  BY <1>1
<1>4. ExamRequirement(s1) = ExamRequirement(s2)
  <2>1. In(s1, "submissions") = In(s2, "submissions")
    BY <1>1
  <2> DEFINE subs == In(s1, "submissions")
             graded(s) == {r \in subs : s[r].status = "graded"}
  <2>2. graded(s1) = graded(s2)
    BY <1>3
  <2>3. /\ (\E r \in graded(s1) : s1[r].grade >= s1[Exam].mark)
             <=> (\E r \in graded(s2) : s2[r].grade >= s2[Exam].mark)
        /\ (\E r \in subs : s1[r].status = "resubmit") <=> (\E r \in subs : s2[r].status = "resubmit")
        /\ (\E r \in subs : s1[r].status = "pending") <=> (\E r \in subs : s2[r].status = "pending")
    BY <1>2, <1>3, <2>2
  <2>4. ExamRequirement(s1) =
          CASE s1[Exam] = Absent -> "none"
            [] s1[Exam] # Absent /\ \E r \in graded(s1) : s1[r].grade >= s1[Exam].mark -> "passed"
            [] OTHER -> IF \E r \in subs : s1[r].status = "resubmit" THEN "resubmit"
                        ELSE IF \E r \in subs : s1[r].status = "pending" THEN "pending_review"
                        ELSE IF graded(s1) # {} THEN "failed" ELSE "not_submitted"
    BY DEF ExamRequirement
  <2>5. ExamRequirement(s2) =
          CASE s2[Exam] = Absent -> "none"
            [] s2[Exam] # Absent /\ \E r \in graded(s2) : s2[r].grade >= s2[Exam].mark -> "passed"
            [] OTHER -> IF \E r \in subs : s2[r].status = "resubmit" THEN "resubmit"
                        ELSE IF \E r \in subs : s2[r].status = "pending" THEN "pending_review"
                        ELSE IF graded(s2) # {} THEN "failed" ELSE "not_submitted"
    BY <2>1 DEF ExamRequirement
  <2> HIDE DEF subs, graded
  <2>6. QED
    BY <1>2, <2>2, <2>3, <2>4, <2>5
<1>5. ASSUME In(s1, "course_enrollments") # {}
      PROVE  s1[Find(s1, "course_enrollments")] = s2[Find(s2, "course_enrollments")]
  <2>1. Find(s1, "course_enrollments") = Find(s2, "course_enrollments")
    BY <1>1, FoundAlike
  <2>2. QED
    BY <1>1, <1>5, <2>1, Found
<1>6. QED
  BY <1>1, <1>4, <1>5 DEF Required

\* The certificate rows to write carry what is computed; if there is nothing to write, the
\* certificate is final, or shows it already.
LEMMA CertifiedComputes ==
  ASSUME NEW s, NEW c, NEW k,
         k = IF In(s, "certificates") = {} THEN New("certificates", c)
             ELSE Find(s, "certificates")
  PROVE  /\ \A r \in DOMAIN Certified(s, c) :
              Certified(s, c)[r] = Computed(s) /\ In(s, "course_enrollments") # {}
         /\ In(s, "course_enrollments") # {} /\ k \notin DOMAIN Certified(s, c)
              => In(s, "certificates") # {} /\ (IsFinal(s[k]) \/ s[k] = Computed(s))
<1>1. CASE In(s, "course_enrollments") = {}
  BY <1>1 DEF Certified, NoRows
<1>2. CASE In(s, "course_enrollments") # {} /\ In(s, "certificates") = {}
  BY <1>2 DEF Certified, Computed
<1>3. CASE In(s, "course_enrollments") # {} /\ In(s, "certificates") # {}
  <2>1. k \in In(s, "certificates")
    BY <1>3, Found
  <2>2. QED
    BY <1>3, <2>1 DEF Certified, Computed, NoRows, IsFinal, In
<1>4. QED
  BY <1>1, <1>2, <1>3

\* A section that writes the rows of f, the certificate they ask for, and the evaluation
\* as it is.
LEMMA CertifiedWrite ==
  ASSUME TypeOK, ValuesAreGiven, NEW c \in Calls, New("certificates", c) \in Rows,
         ~Instructed(c),
         NEW f, DOMAIN f \in SUBSET LearningRows, Holds(f, DOMAIN f),
         \A r \in DOMAIN f : r[1] # "certificates",
         NEW also \in SUBSET In(memory, "exams"),
         WriteCertified(c, f, also)
  PROVE  \E w \in SUBSET LearningRows :
           /\ Sectioned(c, w) /\ Collect(c, memory', w)
           /\ \A r \in DOMAIN f : memory'[r] = f[r]
           /\ \A r \in w : /\ r[1] = "certificates" => CertificateStep(c, r)
                           /\ r[1] \notin {"certificates", "exams"} => r \in DOMAIN f
                           /\ r = Exam => r \in DOMAIN f \/ memory[Exam] # Absent
           /\ \A r \in Rows : r[1] # "certificates" /\ r \notin DOMAIN f
                                => memory'[r] = memory[r]
           /\ also \subseteq w /\ Recomputed(c)
           /\ \A r \in w : r[1] = "certificates" =>
                             Enrolled(memory') /\ memory'[r] = Computed(memory')
<1> DEFINE s == Put(memory, f)
           k == Certified(s, c)
           g == [r \in DOMAIN f \cup DOMAIN k |-> IF r \in DOMAIN k THEN k[r] ELSE f[r]]
           w == DOMAIN f \cup DOMAIN k \cup also
<1>1. memory \in Tables /\ Holds(memory, Rows) /\ DOMAIN f \in SUBSET Rows
  BY StoreHolds DEF LearningRows
<1>2. /\ s \in Tables /\ Holds(s, Rows)
      /\ \A r \in DOMAIN f : s[r] = f[r]
      /\ \A r \in Rows \ DOMAIN f : s[r] = memory[r]
  BY <1>1, PutHolds
<1>3. \A r \in DOMAIN k :
        /\ r \in Rows /\ r[1] = "certificates"
        /\ k[r] \in CertificateValues
        /\ s[r] = Absent => r = New("certificates", c) /\ In(s, "certificates") = {}
        /\ ~IsFinal(s[r])
  BY <1>2, CertifiedRows
<1>4. \A r \in DOMAIN k : /\ r \notin DOMAIN f /\ s[r] = memory[r] /\ r \in LearningRows
                          /\ RowValues(r) = CertificateValues
  BY <1>2, <1>3, ValuesByTable DEF LearningRows, LearningTables
<1>5. In(s, "certificates") = In(memory, "certificates")
  BY <1>2 DEF In, RowsOf
<1>6. Collect(c, Put(s, k), w)
  BY DEF WriteCertified
<1>7. Put(s, k) = Put(memory, g)
  <2>1. \A r \in Rows : Put(s, k)[r] = Put(memory, g)[r]
    BY <1>2, <1>3, <1>4 DEF Put
  <2>2. Put(s, k) = [r \in Rows |-> Put(s, k)[r]] /\ Put(memory, g) = [r \in Rows |-> Put(memory, g)[r]]
    BY DEF Put
  <2> HIDE DEF s, k, g
  <2>3. QED
    BY <2>1, <2>2
<1>8. DOMAIN g \in SUBSET Rows /\ Holds(g, DOMAIN g) /\ DOMAIN g \subseteq w
  BY <1>1, <1>3, <1>4 DEF Holds
<1>9. w \in SUBSET LearningRows /\ w \in SUBSET Rows /\ also \in SUBSET LearningRows
  BY <1>3, <1>4 DEF In, RowsOf, LearningRows, LearningTables
<1>10. \A r \in also : r[1] = "exams" /\ memory[r] # Absent
  BY DEF In, RowsOf
<1>11. /\ \A r \in DOMAIN g : g[r] = IF r \in DOMAIN k THEN k[r] ELSE f[r]
       /\ DOMAIN g = DOMAIN f \cup DOMAIN k
  OBVIOUS
<1>12. w = DOMAIN f \cup DOMAIN k \cup also
  OBVIOUS
<1> HIDE DEF s, k, g, w
<1>13. /\ Sectioned(c, w) /\ Collect(c, memory', w)
       /\ \A r \in DOMAIN g : memory'[r] = g[r]
       /\ \A r \in Rows \ DOMAIN g : memory'[r] = memory[r]
  <2>1. Collect(c, Put(memory, g), w)
    BY <1>6, <1>7
  <2>2. QED
    BY <2>1, <1>8, <1>9, WriteIsSection
<1>14. \A r \in DOMAIN f : memory'[r] = f[r]
  BY <1>4, <1>11, <1>13
<1>15. \A r \in Rows : r[1] # "certificates" /\ r \notin DOMAIN f => memory'[r] = memory[r]
  BY <1>3, <1>11, <1>13
<1>16. ASSUME NEW r \in w, r[1] = "certificates" PROVE CertificateStep(c, r)
  <2>1. r \in DOMAIN k
    BY <1>10, <1>12, <1>16
  <2>2. memory'[r] = k[r] /\ memory'[r] # Absent
    BY <2>1, <1>1, <1>3, <1>4, <1>11, <1>13, AbsentIsNoValue DEF ValuesAreGiven
  <2>3. QED
    BY <2>1, <2>2, <1>3, <1>4, <1>5 DEF CertificateStep, Appends
<1>17. ASSUME NEW r \in w
       PROVE  /\ r[1] \notin {"certificates", "exams"} => r \in DOMAIN f
              /\ r = Exam => r \in DOMAIN f \/ memory[Exam] # Absent
  <2>1. CASE r \in DOMAIN k
    BY <1>3, <2>1 DEF Exam
  <2>2. CASE r \in also
    BY <1>10, <2>2
  <2>3. CASE r \in DOMAIN f
    BY <2>3
  <2>4. QED
    BY <1>12, <2>1, <2>2, <2>3
<1>18. also \subseteq w
  BY <1>12
<1> DEFINE own == IF In(s, "certificates") = {} THEN New("certificates", c)
                  ELSE Find(s, "certificates")
<1>19. /\ \A r \in DOMAIN k : k[r] = Computed(s) /\ In(s, "course_enrollments") # {}
       /\ In(s, "course_enrollments") # {} /\ own \notin DOMAIN k
            => In(s, "certificates") # {} /\ (IsFinal(s[own]) \/ s[own] = Computed(s))
  BY CertifiedComputes DEF k
<1>20. /\ In(memory', "course_enrollments") = In(s, "course_enrollments")
       /\ In(s, "course_enrollments") # {} => Computed(memory') = Computed(s)
  <2>1. \A r \in Rows : r[1] # "certificates" => s[r] = memory'[r]
    BY <1>1, <1>2, <1>14, <1>15
  <2>2. QED
    BY <2>1, OneProjectAndExam, RequiredAlike DEF Computed
<1>21. \A r \in DOMAIN k : memory'[r] = k[r]
  BY <1>11, <1>13
<1>22. ASSUME NEW r \in w, r[1] = "certificates"
       PROVE  Enrolled(memory') /\ memory'[r] = Computed(memory')
  <2>1. r \in DOMAIN k
    BY <1>10, <1>12, <1>22
  <2>2. QED
    BY <2>1, <1>19, <1>20, <1>21 DEF Enrolled
<1>23. ASSUME Enrolled(memory')
       PROVE  IsFinal(memory[own]) \/ memory'[own] = Computed(memory')
  <2>1. CASE own \in DOMAIN k
    BY <2>1, <1>19, <1>20, <1>21
  <2>2. CASE own \notin DOMAIN k
    <3>1. own \in Rows /\ own[1] = "certificates" /\ (IsFinal(s[own]) \/ s[own] = Computed(s))
      BY <1>19, <1>20, <1>23, <2>2, Found DEF Enrolled, In, RowsOf
    <3>2. s[own] = memory[own] /\ memory'[own] = memory[own]
      BY <1>2, <1>11, <1>13, <2>2, <3>1
    <3>3. QED
      BY <1>19, <1>20, <1>23, <3>1, <3>2 DEF Enrolled
  <2>3. QED
    BY <2>1, <2>2
<1>24. own = IF In(memory, "certificates") = {} THEN New("certificates", c)
             ELSE Find(memory, "certificates")
  BY <1>5, FoundAlike
<1> HIDE DEF own
<1>25. Recomputed(c)
  BY <1>23, <1>24 DEF Recomputed
<1>26. QED
  BY <1>9, <1>13, <1>14, <1>15, <1>16, <1>17, <1>18, <1>22, <1>25

\* The same for the rows of f that are patched, or appended when their table is empty.
LEMMA CertifiedSection ==
  ASSUME TypeOK, ValuesAreGiven, NEW c \in Calls, New("certificates", c) \in Rows,
         ~Instructed(c), NEW also \in SUBSET In(memory, "exams"),
         NEW f, DOMAIN f \in SUBSET LearningRows,
         \A r \in DOMAIN f :
             /\ f[r] \in RowValues(r)
             /\ r[1] \in {"course_enrollments", "exams", "submissions"}
             /\ r[1] = "course_enrollments" => Appends(c, "course_enrollments", r)
             /\ r[1] = "submissions" =>
                  /\ Appends(c, "submissions", r) /\ memory[Exam] # Absent
                  /\ Exam \in also
                  /\ Enrolled(memory) \/ In(memory, "submissions") # {}
             /\ r = Exam => memory[Exam] # Absent,
         WriteCertified(c, f, also)
  PROVE  \E w : LearningWrite(c, w)
<1>1. Holds(f, DOMAIN f) /\ \A r \in DOMAIN f : f[r] # Absent /\ r[1] # "certificates"
  BY AbsentIsNoValue DEF Holds, ValuesAreGiven, LearningRows
<1>2. PICK w \in SUBSET LearningRows :
           /\ Sectioned(c, w) /\ Collect(c, memory', w)
           /\ \A r \in DOMAIN f : memory'[r] = f[r]
           /\ \A r \in w : /\ r[1] = "certificates" => CertificateStep(c, r)
                           /\ r[1] \notin {"certificates", "exams"} => r \in DOMAIN f
                           /\ r = Exam => r \in DOMAIN f \/ memory[Exam] # Absent
           /\ also \subseteq w /\ Recomputed(c)
           /\ \A r \in w : r[1] = "certificates" =>
                             Enrolled(memory') /\ memory'[r] = Computed(memory')
  BY <1>1, CertifiedWrite
<1>3. ASSUME NEW r \in w
      PROVE  /\ r[1] = "certificates" => CertificateStep(c, r)
             /\ r[1] = "course_enrollments" => EnrollmentStep(c, r)
             /\ r[1] = "submissions" => SubmissionStep(c, r)
             /\ r[1] = "exam_sessions" => SessionStep(c, r)
             /\ r = Exam => memory[Exam] # Absent
  <2>1. r[1] = "certificates" => CertificateStep(c, r)
    BY <1>2
  <2>2. r[1] = "course_enrollments" => EnrollmentStep(c, r)
    BY <1>1, <1>2 DEF EnrollmentStep
  <2>3. r[1] = "submissions" => SubmissionStep(c, r)
    BY <1>1, <1>2 DEF SubmissionStep
  <2>4. r[1] # "exam_sessions"
    BY <1>2
  <2>5. r = Exam => memory[Exam] # Absent
    BY <1>2
  <2>6. QED
    BY <2>1, <2>2, <2>3, <2>4, <2>5
<1>4. EarnsWith(c, w)
  <2>1. \A q \in w : q[1] = "submissions" =>
          Exam \in w /\ Recomputed(c) /\ (Enrolled(memory) \/ In(memory, "submissions") # {})
    BY <1>2
  <2>2. QED
    BY <1>2, <2>1 DEF EarnsWith
<1>5. QED
  BY <1>2, <1>3, <1>4 DEF LearningWrite

\* A section of a learning command does to the learner's rows what LearningWrite allows.
LEMMA LearningSections ==
  ASSUME TypeOK, ValuesAreGiven, CallsAreGiven, NEW c \in Calls, LearningSection(c)
  PROVE  Pass(c, "answered") \/ \E w : LearningWrite(c, w)
<1> DEFINE Done == Pass(c, "answered") \/ \E w : LearningWrite(c, w)
<1>1. CallIsWellFormed(c, call[c]) /\ New("certificates", c) \in Rows
  BY CallsAreWellFormed DEF CallIsWellFormed
<1>2. /\ Exam \in Rows /\ Exam[1] = "exams" /\ Exam \in LearningRows
      /\ RowValues(Exam) = ExamValues
  BY OneProjectAndExam, ValuesByTable DEF Exam, LearningRows, LearningTables
<1>3. /\ DerivedExam \in SUBSET In(memory, "exams")
      /\ memory[Exam] # Absent => Exam \in DerivedExam
  BY <1>2 DEF DerivedExam, In, RowsOf
<1>4. memory[Exam] # Absent => memory[Exam] \in ExamValues
  BY <1>2, HeldRow
<1>5. In(memory, "submissions") # {} =>
        /\ Submission \in Rows /\ Submission[1] = "submissions" /\ memory[Submission] # Absent
        /\ Submission \in LearningRows /\ RowValues(Submission) = SubmissionValues
        /\ memory[Submission] \in SubmissionValues
  BY Found, HeldRow, ValuesByTable DEF Submission, In, RowsOf, LearningRows, LearningTables
<1>6. CASE UpdateCourseProgress(c)
  <2>1. CASE In(memory, "course_enrollments") = {}
    BY <1>6, <2>1 DEF UpdateCourseProgress, NotFound
  <2>2. CASE In(memory, "course_enrollments") # {}
    <3> DEFINE r == Find(memory, "course_enrollments")
               f == [x \in {r} |-> [memory[r] EXCEPT !.progress = call[c].progress]]
    <3>1. /\ r \in Rows /\ r[1] = "course_enrollments" /\ memory[r] # Absent
          /\ r \in LearningRows /\ RowValues(r) = EnrollmentValues
      BY <2>2, Found, ValuesByTable DEF In, RowsOf, LearningRows, LearningTables
    <3>2. f[r] \in RowValues(r)
      <4>1. memory[r] \in EnrollmentValues
        BY <3>1, HeldRow
      <4>2. call[c].progress \in 0..100
        BY <1>1, <1>6 DEF CallIsWellFormed, UpdateCourseProgress
      <4>3. [memory[r] EXCEPT !.progress = call[c].progress] \in EnrollmentValues
        BY <4>1, <4>2 DEF EnrollmentValues
      <4>4. QED
        BY <3>1, <4>3
    <3>3. WriteCertified(c, f, {}) /\ ~Instructed(c)
      BY <1>6, <2>2 DEF UpdateCourseProgress, Instructed
    <3>4. DOMAIN f = {r} /\ r # Exam /\ Appends(c, "course_enrollments", r)
      BY <1>2, <3>1 DEF Appends
    <3> HIDE DEF f, r
    <3>5. QED
      BY <1>1, <3>1, <3>2, <3>3, <3>4, CertifiedSection
  <2>3. QED
    BY <2>1, <2>2
<1>7. CASE SubmitExam(c)
  <2> DEFINE subs == In(memory, "submissions")
             own == New("submissions", c)
             old == Find(memory, "submissions")
             open == /\ memory[Exam] # Absent /\ memory[Exam].status = "ongoing"
                     /\ In(memory, "course_enrollments") # {}
                     /\ (subs = {} \/ CanRetry(memory[old]))
             r == IF subs = {} THEN own ELSE old
             n == IF subs = {} THEN 1 ELSE memory[old].attempt + 1
             f == [x \in {r} |-> Handed(c, n)]
  <2>1. CASE ~open
    BY <1>7, <2>1 DEF SubmitExam, NotFound
  <2>2. CASE open
    <3>1. /\ r \in Rows /\ r[1] = "submissions" /\ r \in LearningRows /\ r # Exam
          /\ RowValues(r) = SubmissionValues /\ Appends(c, "submissions", r)
      <4>1. own \in Rows /\ own[1] = "submissions"
        BY <1>1, <1>7 DEF CallIsWellFormed, SubmitExam, New
      <4>2. QED
        BY <1>2, <1>5, <4>1, ValuesByTable DEF Submission, Appends, LearningRows, LearningTables
    <3>2. n \in Nat
      BY <1>5 DEF SubmissionValues, Submission
    <3>3. Handed(c, n) \in SubmissionValues
      BY <1>1, <1>4, <1>7, <2>2, <3>2 DEF CallIsWellFormed, SubmitExam, Handed, SubmissionValues
    <3>4. WriteCertified(c, f, DerivedExam) /\ ~Instructed(c)
      <4>1. WriteCertified(c, IF subs = {} THEN [x \in {own} |-> Handed(c, 1)]
                              ELSE [x \in {old} |-> Handed(c, memory[old].attempt + 1)],
                           DerivedExam)
        BY <1>7, <2>2 DEF SubmitExam
      <4>2. f = IF subs = {} THEN [x \in {own} |-> Handed(c, 1)]
                ELSE [x \in {old} |-> Handed(c, memory[old].attempt + 1)]
        OBVIOUS
      <4>3. QED
        BY <1>7, <4>1, <4>2 DEF SubmitExam, Instructed
    <3>5. DOMAIN f = {r} /\ f[r] \in RowValues(r)
      BY <3>1, <3>3
    <3>6. memory[Exam] # Absent /\ Enrolled(memory)
      BY <2>2 DEF Enrolled
    <3> HIDE DEF f, r
    <3>7. QED
      BY <1>1, <1>3, <3>1, <3>4, <3>5, <3>6, CertifiedSection
  <2>3. QED
    BY <2>1, <2>2
<1>8. ASSUME NEW v \in SubmissionValues, ~Instructed(c), Correct(c, v) \/ NotFound(c) PROVE Done
  <2>1. CASE In(memory, "submissions") # {} /\ memory[Exam] # Absent
    <3> DEFINE f == [r \in {Submission} |-> v]
    <3>1. CASE NotFound(c)
      BY <3>1 DEF NotFound
    <3>2. CASE Correct(c, v)
      <4>1. WriteCertified(c, f, DerivedExam)
        BY <2>1, <3>2 DEF Correct
      <4>2. DOMAIN f = {Submission} /\ f[Submission] \in RowValues(Submission)
        BY <1>5, <1>8, <2>1
      <4>3. Appends(c, "submissions", Submission) /\ Submission # Exam
        BY <1>2, <1>5, <2>1 DEF Appends
      <4> HIDE DEF f
      <4>4. QED
        BY <1>1, <1>3, <1>5, <1>8, <2>1, <4>1, <4>2, <4>3, CertifiedSection
    <3>3. QED
      BY <1>8, <3>1, <3>2
  <2>2. CASE ~(In(memory, "submissions") # {} /\ memory[Exam] # Absent)
    BY <1>8, <2>2 DEF Correct, NotFound
  <2>3. QED
    BY <2>1, <2>2
<1>9. ASSUME In(memory, "submissions") = {}, NEW v, Correct(c, v) PROVE Done
  BY <1>9 DEF Correct, NotFound
<1>10. CASE GradeSubmission(c)
  <2> DEFINE v == [memory[Submission] EXCEPT !.status = "graded", !.grade = call[c].grade]
  <2>1. Correct(c, v) /\ ~Instructed(c)
    BY <1>10 DEF GradeSubmission, Instructed
  <2>2. CASE In(memory, "submissions") # {}
    <3>1. v \in SubmissionValues
      BY <1>1, <1>5, <1>10, <2>2 DEF CallIsWellFormed, GradeSubmission, SubmissionValues
    <3> HIDE DEF v
    <3>2. QED
      BY <1>8, <2>1, <3>1
  <2>3. QED
    BY <1>9, <2>1, <2>2
<1>11. CASE RequestResubmission(c)
  <2> DEFINE v == [memory[Submission] EXCEPT !.status = "resubmit"]
  <2>1. Correct(c, v) /\ ~Instructed(c)
    BY <1>11 DEF RequestResubmission, Instructed
  <2>2. CASE In(memory, "submissions") # {}
    <3>1. v \in SubmissionValues
      BY <1>5, <2>2 DEF SubmissionValues
    <3> HIDE DEF v
    <3>2. QED
      BY <1>8, <2>1, <3>1
  <2>3. QED
    BY <1>9, <2>1, <2>2
<1>12. CASE StartQuiz(c)
  <2> DEFINE attempt == IF In(memory, "submissions") = {} THEN 1
                        ELSE memory[Find(memory, "submissions")].attempt + 1
             r == New("exam_sessions", c)
             f == [x \in {r} |-> [attempt |-> attempt]]
             taken == \E q \in In(memory, "exam_sessions") : memory[q].attempt = attempt
  <2>1. Pass(c, "answered") \/ (Collect(c, Put(memory, f), {r}) /\ ~taken)
    BY <1>12 DEF StartQuiz, NotFound
  <2>2. attempt \in Nat
    BY <1>5 DEF Submission, SubmissionValues
  <2>3. /\ r \in Rows /\ r[1] = "exam_sessions" /\ r \in LearningRows /\ r # Exam
        /\ RowValues(r) = SessionValues
    BY <1>1, <1>2, <1>12, ValuesByTable
       DEF CallIsWellFormed, StartQuiz, New, LearningRows, LearningTables
  <2>4. f[r] \in RowValues(r) /\ f[r].attempt = attempt /\ f[r] # Absent
    BY <2>2, <2>3, AbsentIsNoValue DEF SessionValues, ValuesAreGiven
  <2>5. DOMAIN f = {r} /\ Holds(f, DOMAIN f)
    BY <2>3, <2>4 DEF Holds
  <2>6. call[c].op = "startQuiz" /\ Ready(c)
    BY <1>12 DEF StartQuiz
  <2> HIDE DEF f, attempt, r
  <2>7. ASSUME Collect(c, Put(memory, f), {r}), ~taken PROVE LearningWrite(c, {r})
    <3>1. Sectioned(c, {r}) /\ Collect(c, memory', {r}) /\ memory'[r] = f[r]
      BY <2>3, <2>5, <2>7, WriteIsSection
    <3>2. SessionStep(c, r)
      BY <2>4, <2>6, <2>7, <3>1 DEF SessionStep, r
    <3>3. EarnsWith(c, {r})
      BY <2>3 DEF EarnsWith
    <3>4. QED
      BY <2>3, <3>1, <3>2, <3>3 DEF LearningWrite
  <2>8. QED
    BY <2>1, <2>7
<1>13. CASE UpdateExam(c)
  <2>1. CASE memory[Exam] = Absent
    BY <1>13, <2>1 DEF UpdateExam, NotFound
  <2>2. CASE memory[Exam] # Absent
    <3> DEFINE f == [r \in {Exam} |-> [memory[r] EXCEPT !.mark = call[c].mark]]
    <3>1. DOMAIN f = {Exam} /\ f[Exam] \in RowValues(Exam)
      BY <1>1, <1>2, <1>4, <1>13, <2>2 DEF CallIsWellFormed, UpdateExam, ExamValues
    <3>2. WriteCertified(c, f, {}) /\ ~Instructed(c)
      BY <1>13, <2>2 DEF UpdateExam, Instructed
    <3> HIDE DEF f
    <3>3. QED
      BY <1>1, <1>2, <2>2, <3>1, <3>2, CertifiedSection
  <2>3. QED
    BY <2>1, <2>2
<1>14. CASE ChangeStatus(c)
  <2> DEFINE f == [r \in {Exam} |-> [memory[r] EXCEPT !.status = call[c].status]]
  <2>1. CASE NotFound(c)
    BY <2>1 DEF NotFound
  <2>2. CASE ~NotFound(c)
    <3>1. /\ memory[Exam] # Absent /\ call[c].status \in Transitions[memory[Exam].status]
          /\ Collect(c, Put(memory, f), {Exam})
      BY <1>14, <2>2 DEF ChangeStatus
    <3>2. call[c].status \in ExamStatuses
      BY <1>4, <3>1 DEF ExamValues, ExamStatuses, Transitions
    <3>3. f[Exam] \in RowValues(Exam)
      BY <1>2, <1>4, <3>1, <3>2 DEF ExamValues
    <3>4. DOMAIN f = {Exam} /\ Holds(f, DOMAIN f)
      BY <3>3 DEF Holds
    <3> HIDE DEF f
    <3>5. Sectioned(c, {Exam}) /\ Collect(c, memory', {Exam})
      BY <1>2, <3>1, <3>4, WriteIsSection
    <3>6. EarnsWith(c, {Exam})
      BY <1>2 DEF EarnsWith
    <3>7. LearningWrite(c, {Exam})
      BY <1>2, <3>1, <3>5, <3>6 DEF LearningWrite
    <3>8. QED
      BY <3>7
  <2>3. QED
    BY <2>1, <2>2
<1>15. CASE DeleteExam(c)
  <2> DEFINE gone == {Exam} \cup In(memory, "submissions")
  <2>1. CASE memory[Exam] = Absent
    BY <1>15, <2>1 DEF DeleteExam, NotFound
  <2>2. CASE memory[Exam] # Absent
    <3>1. Collect(c, Remove(memory, gone), gone)
      BY <1>15, <2>2 DEF DeleteExam
    <3>2. /\ gone \in SUBSET Rows /\ gone \in SUBSET LearningRows
          /\ \A r \in gone : r[1] \in {"exams", "submissions"}
      BY <1>2 DEF In, RowsOf, LearningRows, LearningTables
    <3>3. Exam \in gone
      OBVIOUS
    <3> HIDE DEF gone
    <3>4. Sectioned(c, gone) /\ Collect(c, memory', gone) /\ \A r \in gone : memory'[r] = Absent
      BY <3>1, <3>2, DropIsSection
    <3>5. \A r \in gone : SubmissionStep(c, r)
      BY <3>3, <3>4 DEF SubmissionStep
    <3>6. EarnsWith(c, gone)
      BY <3>2, <3>3, <3>4 DEF EarnsWith
    <3>7. LearningWrite(c, gone)
      BY <2>2, <3>2, <3>4, <3>5, <3>6 DEF LearningWrite
    <3>8. QED
      BY <3>7
  <2>3. QED
    BY <2>1, <2>2
<1>16. CASE GetCertificates(c)
  <2>1. Pass(c, "answered") \/ WriteCertified(c, NoRows, {})
    BY <1>16 DEF GetCertificates
  <2>2. DOMAIN NoRows = {} /\ ~Instructed(c)
    BY <1>16 DEF NoRows, GetCertificates, Instructed
  <2>3. QED
    BY <1>1, <2>1, <2>2, CertifiedSection
<1>17. ASSUME NEW status \in Final, Instructed(c), Decide(c, status),
              call[c].op = "revokeCertificate" => status = "revoked"
       PROVE  Done
  <2>1. CASE In(memory, "certificates") = {}
    BY <1>17, <2>1 DEF Decide, NotFound
  <2>2. CASE In(memory, "certificates") # {}
    <3> DEFINE r == Find(memory, "certificates")
               f == [x \in {r} |-> [memory[r] EXCEPT !.status = status]]
    <3>1. /\ r \in Rows /\ r[1] = "certificates" /\ memory[r] # Absent /\ r # Exam
          /\ r \in LearningRows /\ RowValues(r) = CertificateValues
      BY <1>2, <2>2, Found, ValuesByTable DEF In, RowsOf, LearningRows, LearningTables
    <3>2. memory[r] \in CertificateValues
      BY <3>1, HeldRow
    <3>3. f[r] \in RowValues(r) /\ f[r].status \in Final /\ f[r] # Absent
          /\ f[r].status = status
      BY <1>17, <3>1, <3>2, AbsentIsNoValue DEF CertificateValues, Final, ValuesAreGiven
    <3>4. [memory EXCEPT ![r].status = status] = Put(memory, f)
      BY <3>1, StoreHolds DEF Put, Tables
    <3>5. Collect(c, Put(memory, f), {r})
      BY <1>17, <2>2, <3>4 DEF Decide
    <3>6. DOMAIN f = {r} /\ Holds(f, DOMAIN f)
      BY <3>3 DEF Holds
    <3> HIDE DEF f, r
    <3>7. Sectioned(c, {r}) /\ Collect(c, memory', {r}) /\ memory'[r] = f[r]
      BY <3>1, <3>5, <3>6, WriteIsSection
    <3>8. CertificateStep(c, r)
      BY <1>17, <3>1, <3>3, <3>7 DEF CertificateStep, Appends, IsFinal
    <3>9. EarnsWith(c, {r})
      BY <1>17, <3>1, <3>3, <3>7 DEF EarnsWith
    <3>10. LearningWrite(c, {r})
      BY <3>1, <3>7, <3>8, <3>9 DEF LearningWrite
    <3>11. QED
      BY <3>10
  <2>3. QED
    BY <2>1, <2>2
<1>18. CASE IssueCertificate(c)
  BY <1>17, <1>18 DEF IssueCertificate, Instructed, Final
<1>19. CASE RevokeCertificate(c)
  BY <1>17, <1>19 DEF RevokeCertificate, Instructed, Final
<1>20. QED
  BY <1>6, <1>7, <1>10, <1>11, <1>12, <1>13, <1>14, <1>15, <1>16, <1>18, <1>19
     DEF LearningSection

\* What a purchase does: it answers an enrolled learner, goes on with what it has found,
\* or writes an enrollment.
PurchaseStep(c) ==
  \/ /\ Pass(c, "answered") /\ UNCHANGED found
     /\ call[c].op = "purchaseCourse" => Enrolled(memory)
  \/ /\ Pass(c, "waiting") /\ call[c].op = "purchaseCourse" /\ Ready(c)
     /\ found' = [found EXCEPT ![c] = IF Enrolled(memory) THEN Enrollment(memory) ELSE NoRow]
  \/ Await(c) /\ UNCHANGED found
  \/ /\ \E w : LearningWrite(c, w)
     /\ UNCHANGED found
     /\ call[c].op = "purchaseCourse" =>
          (phase[c] = "resuming" /\ found[c] # NoRow) \/ Enrolled(memory')

LEMMA EnrollmentSections ==
  ASSUME TypeOK, ValuesAreGiven, NEW c \in Calls, CallIsWellFormed(c, call[c]),
         NEW payment \in Payments, CreateEnrollment(c, payment), ~Instructed(c)
  PROVE  \/ Pass(c, "answered") /\ Enrolled(memory)
         \/ (\E w : LearningWrite(c, w)) /\ Enrolled(memory')
<1>1. CASE Enrolled(memory)
  BY <1>1 DEF CreateEnrollment
<1>2. CASE ~Enrolled(memory)
  <2> DEFINE r == New("course_enrollments", c)
             f == [x \in {r} |-> [progress |-> 0, payment |-> payment]]
  <2>1. WriteCertified(c, f, {})
    BY <1>2 DEF CreateEnrollment
  <2>2. /\ r \in Rows /\ r[1] = "course_enrollments" /\ r \in LearningRows /\ r # Exam
        /\ RowValues(r) = EnrollmentValues /\ New("certificates", c) \in Rows
        /\ Appends(c, "course_enrollments", r)
    BY <1>2, ValuesByTable DEF CallIsWellFormed, New, Exam, LearningRows, LearningTables,
                               Appends, Enrolled
  <2>3. DOMAIN f = {r} /\ f[r] \in RowValues(r) /\ f[r] # Absent
    <3>1. [progress |-> 0, payment |-> payment] \in EnrollmentValues
      BY DEF EnrollmentValues
    <3>2. QED
      BY <2>2, <3>1, AbsentIsNoValue DEF ValuesAreGiven
  <2> HIDE DEF f, r
  <2>4. \E w : LearningWrite(c, w)
    BY <2>1, <2>2, <2>3, CertifiedSection
  <2>5. memory'[r] = f[r]
    <3>1. Holds(f, DOMAIN f) /\ DOMAIN f \in SUBSET LearningRows
          /\ \A x \in DOMAIN f : x[1] # "certificates"
      BY <2>2, <2>3 DEF Holds
    <3>2. PICK w \in SUBSET LearningRows :
            Collect(c, memory', w) /\ \A x \in DOMAIN f : memory'[x] = f[x]
      BY <2>1, <2>2, <3>1, CertifiedWrite
    <3>3. QED
      BY <2>3, <3>2
  <2>6. Enrolled(memory')
    BY <2>2, <2>3, <2>5 DEF Enrolled, In, RowsOf
  <2>7. QED
    BY <2>4, <2>6
<1>3. QED
  BY <1>1, <1>2

LEMMA PaymentOfEnrollment ==
  ASSUME TypeOK, ValuesAreGiven, NEW c \in Calls, NEW r, NEW payment \in Payments,
         PayEnrollment(c, r, payment)
  PROVE  \E w : LearningWrite(c, w)
<1> DEFINE f == [x \in {r} \cap In(memory, "course_enrollments") |->
                  [memory[x] EXCEPT !.payment = payment]]
<1>1. Collect(c, Put(memory, f), DOMAIN f)
  BY DEF PayEnrollment
<1>2. \A x \in DOMAIN f : /\ x \in Rows /\ x[1] = "course_enrollments" /\ memory[x] # Absent
                          /\ x \in LearningRows /\ x # Exam /\ RowValues(x) = EnrollmentValues
  BY ValuesByTable DEF In, RowsOf, Exam, LearningRows, LearningTables
<1>3. \A x \in DOMAIN f : f[x] \in RowValues(x) /\ f[x] # Absent
  <2> SUFFICES ASSUME NEW x \in DOMAIN f PROVE f[x] \in RowValues(x) /\ f[x] # Absent
    OBVIOUS
  <2>1. memory[x] \in EnrollmentValues
    BY <1>2, HeldRow
  <2>2. [memory[x] EXCEPT !.payment = payment] \in EnrollmentValues
    BY <2>1 DEF EnrollmentValues
  <2>3. QED
    BY <1>2, <2>2, AbsentIsNoValue DEF ValuesAreGiven
<1> DEFINE w == DOMAIN f
<1>4. w \in SUBSET Rows /\ Holds(f, w) /\ w \in SUBSET LearningRows
  BY <1>2, <1>3 DEF Holds
<1>5. w = DOMAIN f
  OBVIOUS
<1> HIDE DEF f, w
<1>6. /\ Sectioned(c, w) /\ Collect(c, memory', w)
      /\ \A x \in DOMAIN f : memory'[x] = f[x]
  BY <1>1, <1>4, <1>5, WriteIsSection
<1>7. \A x \in w : EnrollmentStep(c, x)
  BY <1>2, <1>3, <1>5, <1>6 DEF EnrollmentStep, Appends
<1>8. EarnsWith(c, w)
  BY <1>2, <1>5 DEF EarnsWith
<1>9. LearningWrite(c, w)
  BY <1>2, <1>4, <1>5, <1>6, <1>7, <1>8 DEF LearningWrite
<1>10. QED
  BY <1>9

LEMMA PurchaseSections ==
  ASSUME TypeOK, ValuesAreGiven, CallsAreGiven, NEW c \in Calls, PurchaseSection(c)
  PROVE  PurchaseStep(c)
<1>1. CallIsWellFormed(c, call[c]) /\ {"none", "wallet", "external"} \subseteq Payments
  BY CallsAreWellFormed DEF Payments
<1>2. CASE Purchase(c)
  BY <1>2 DEF Purchase, PurchaseStep, IsPaid
<1>3. CASE Charge(c) \/ ChargeFails(c)
  BY <1>3 DEF Charge, ChargeFails, PurchaseStep, Await, purchaseVars
<1>4. CASE PurchaseGoesOn(c)
  <2>1. ~Instructed(c) /\ UNCHANGED found /\ phase[c] = "resuming"
    BY <1>4 DEF PurchaseGoesOn, Instructed, purchaseVars
  <2>2. CASE found[c] # NoRow
    <3>1. PayEnrollment(c, found[c], "wallet")
      BY <1>4, <2>2 DEF PurchaseGoesOn
    <3>2. QED
      BY <1>1, <2>1, <2>2, <3>1, PaymentOfEnrollment DEF PurchaseStep
  <2>3. CASE found[c] = NoRow
    <3>1. CreateEnrollment(c, "wallet")
      BY <1>4, <2>3 DEF PurchaseGoesOn
    <3>2. \/ Pass(c, "answered") /\ Enrolled(memory)
          \/ (\E w : LearningWrite(c, w)) /\ Enrolled(memory')
      BY <1>1, <2>1, <3>1, EnrollmentSections
    <3>3. QED
      BY <2>1, <3>2 DEF PurchaseStep
  <2>4. QED
    BY <2>2, <2>3
<1>5. CASE PurchaseWithExternalPayment(c)
  <2>1. ~Instructed(c) /\ call[c].op # "purchaseCourse" /\ UNCHANGED found
    BY <1>5 DEF PurchaseWithExternalPayment, Instructed, purchaseVars
  <2>2. \/ Pass(c, "answered") \/ PayEnrollment(c, Enrollment(memory), "external")
        \/ CreateEnrollment(c, "external")
    BY <1>5 DEF PurchaseWithExternalPayment
  <2>3. Pass(c, "answered") \/ \E w : LearningWrite(c, w)
    BY <1>1, <2>1, <2>2, EnrollmentSections, PaymentOfEnrollment
  <2>4. QED
    BY <2>1, <2>3 DEF PurchaseStep
<1>6. CASE EnrollLearner(c)
  <2>1. ~Instructed(c) /\ call[c].op # "purchaseCourse" /\ UNCHANGED found
    BY <1>6 DEF EnrollLearner, Instructed, purchaseVars
  <2>2. CreateEnrollment(c, "none")
    BY <1>6 DEF EnrollLearner
  <2>3. Pass(c, "answered") \/ \E w : LearningWrite(c, w)
    BY <1>1, <2>1, <2>2, EnrollmentSections
  <2>4. QED
    BY <2>1, <2>3 DEF PurchaseStep
<1>7. QED
  BY <1>2, <1>3, <1>4, <1>5, <1>6 DEF PurchaseSection

\* A section that writes one row, and the one before it failed to.
LEMMA OneRowWritten ==
  ASSUME TypeOK, ValuesAreGiven, NEW c, NEW r \in Rows, NEW v \in RowValues(r),
         NEW f, f = [x \in {r} |-> v]
  PROVE  /\ Collect(c, Put(memory, f), {r}) =>
              Sectioned(c, {r}) /\ Collect(c, memory', {r}) /\ memory'[r] = v
         /\ Throw(c, Put(memory, f), {r}) /\ v # memory[r] =>
              Sectioned(c, {r}) /\ Throw(c, memory', {r}) /\ memory'[r] = v
<1>1. DOMAIN f = {r} /\ {r} \in SUBSET Rows /\ Holds(f, DOMAIN f) /\ f[r] = v
  BY DEF Holds
<1>2. /\ Put(memory, f) \in Tables /\ Holds(Put(memory, f), Rows)
      /\ Put(memory, f)[r] = v
      /\ \A x \in Rows \ {r} : Put(memory, f)[x] = memory[x]
  BY <1>1, StoreHolds, PutHolds
<1>3. CASE Collect(c, Put(memory, f), {r})
  <2>1. memory' = Put(memory, f)
    BY <1>3 DEF Collect
  <2>2. v = memory[r] \/ v # memory[r]
    OBVIOUS
  <2>3. ~Throw(c, Put(memory, f), {r}) \/ Throw(c, memory', {r})
    BY <2>1
  <2>4. Sectioned(c, {r})
    BY <1>2, <1>3, <2>1 DEF Sectioned, Changes
  <2>5. QED
    BY <1>2, <1>3, <2>1, <2>3, <2>4
<1>4. CASE Throw(c, Put(memory, f), {r}) /\ v # memory[r]
  <2>1. memory' = Put(memory, f)
    BY <1>4 DEF Throw
  <2>2. {r} = {x \in Rows : memory'[x] # memory[x]}
    BY <1>2, <1>4, <2>1
  <2>3. Sectioned(c, {r})
    BY <1>2, <1>4, <2>1, <2>2 DEF Sectioned, Changes
  <2>4. QED
    BY <1>2, <1>4, <2>1, <2>3
<1>5. QED
  BY <1>3, <1>4

\* A payout request is appended as pending, or moves along its graph.
PayoutWrite(c) ==
  LET r == call[c].on IN
  /\ r \in PayoutRows /\ Sectioned(c, {r}) /\ Ready(c)
  /\ memory'[r] \in PayoutValues
  /\ \/ /\ call[c].op = "createPayoutRequest"
        /\ memory[r] = Absent /\ memory'[r].status = "pending" /\ Collect(c, memory', {r})
        /\ UNCHANGED paymentVars
     \/ /\ call[c].op = "adminUpdatePayoutStatus"
        /\ memory[r] # Absent /\ memory'[r].status = call[c].status
        /\ MayTransition(PayoutGraph, memory[r].status, memory'[r].status)
        /\ \/ Collect(c, memory', {r}) /\ paying' = [paying EXCEPT ![c] = Owes(c)]
           \/ Throw(c, memory', {r}) /\ UNCHANGED paying
        /\ UNCHANGED <<paidOut, credited, beside>>

RefundWrite(c) ==
  LET r == call[c].refund IN
  /\ call[c].op = "adminRefundTransaction" /\ phase[c] = "resuming" /\ paying[c]
  /\ r \in TransactionRows /\ Sectioned(c, {r}) /\ Collect(c, memory', {r})
  /\ memory'[r] = [type |-> "refund", of |-> call[c].on]
  /\ paying' = [paying EXCEPT ![c] = FALSE]
  /\ UNCHANGED <<paidOut, credited, beside>>

LEMMA PaymentSections ==
  ASSUME TypeOK, ValuesAreGiven, CallsAreGiven, NEW c \in Calls, PaymentSection(c)
  PROVE  \/ PayoutWrite(c)
         \/ RefundWrite(c)
         \/ Ready(c) /\ Pass(c, "answered") /\ UNCHANGED paymentVars
         \/ CompletePayout(c) \/ CompletePayoutFails(c)
         \/ Refund(c) \/ Credit(c) \/ CreditFails(c)
<1>1. CallIsWellFormed(c, call[c])
  BY CallsAreWellFormed
<1>2. CASE CreatePayoutRequest(c)
  <2> DEFINE r == call[c].on
             v == [status |-> "pending"]
             f == [x \in {r} |-> v]
  <2>1. r \in PayoutRows /\ r \in Rows /\ RowValues(r) = PayoutValues
    BY <1>1, <1>2, ValuesByTable DEF CallIsWellFormed, CreatePayoutRequest, PayoutRows, RowsOf
  <2>2. CASE Pass(c, "answered")
    BY <1>2, <2>2 DEF CreatePayoutRequest, paymentVars
  <2>3. CASE ~Pass(c, "answered")
    <3>1. Collect(c, Put(memory, f), {r}) /\ memory[r] = Absent
      BY <1>2, <2>3 DEF CreatePayoutRequest
    <3>2. v \in RowValues(r) /\ v.status = "pending" /\ f = [x \in {r} |-> v]
      BY <2>1 DEF PayoutValues, PayoutGraph
    <3> HIDE DEF f, v
    <3>3. Sectioned(c, {r}) /\ Collect(c, memory', {r}) /\ memory'[r] = v
      BY <2>1, <3>1, <3>2, OneRowWritten
    <3>4. PayoutWrite(c)
      BY <1>2, <2>1, <3>1, <3>2, <3>3 DEF PayoutWrite, CreatePayoutRequest
    <3>5. QED
      BY <3>4
  <2>4. QED
    BY <2>2, <2>3
<1>3. CASE UpdatePayoutStatus(c)
  <2> DEFINE r == call[c].on
             v == [status |-> call[c].status]
             f == [x \in {r} |-> v]
  <2>1. r \in PayoutRows /\ r \in Rows /\ RowValues(r) = PayoutValues
    BY <1>1, <1>3, ValuesByTable DEF CallIsWellFormed, UpdatePayoutStatus, PayoutRows, RowsOf
  <2> DEFINE moves == /\ memory[r] # Absent
                      /\ MayTransition(PayoutGraph, memory[r].status, call[c].status)
  <2>2. CASE ~moves
    BY <1>3, <2>2 DEF UpdatePayoutStatus, paymentVars
  <2>3. CASE moves
    <3>1. /\ memory[r] # Absent /\ MayTransition(PayoutGraph, memory[r].status, call[c].status)
          /\ \/ Collect(c, Put(memory, f), {r}) /\ paying' = [paying EXCEPT ![c] = Owes(c)]
             \/ Owes(c) /\ Throw(c, Put(memory, f), {r}) /\ UNCHANGED paying
      BY <1>3, <2>3 DEF UpdatePayoutStatus
    <3>2. v \in RowValues(r) /\ v.status = call[c].status
      BY <2>1, <3>1 DEF PayoutValues, MayTransition, Known
    <3>3. Owes(c) => v # memory[r]
      BY <3>2 DEF Owes
    <3> HIDE DEF v
    <3>4. /\ Collect(c, Put(memory, f), {r}) =>
               Sectioned(c, {r}) /\ Collect(c, memory', {r}) /\ memory'[r] = v
          /\ Throw(c, Put(memory, f), {r}) /\ v # memory[r] =>
               Sectioned(c, {r}) /\ Throw(c, memory', {r}) /\ memory'[r] = v
      BY <2>1, <3>2, OneRowWritten
    <3>5. UNCHANGED <<paidOut, credited, beside>> /\ Ready(c)
          /\ call[c].op = "adminUpdatePayoutStatus"
      BY <1>3 DEF UpdatePayoutStatus
    <3> HIDE DEF f
    <3>6. PayoutWrite(c)
      BY <2>1, <3>1, <3>2, <3>3, <3>4, <3>5 DEF PayoutWrite
    <3>7. QED
      BY <3>6
  <2>4. QED
    BY <2>2, <2>3
<1>4. CASE RecordRefund(c)
  <2> DEFINE r == call[c].refund
             v == [type |-> "refund", of |-> call[c].on]
             f == [x \in {r} |-> v]
  <2>1. /\ r \in TransactionRows /\ r \in Rows /\ RowValues(r) = TransactionValues
        /\ call[c].on \in TransactionRows
    BY <1>1, <1>4, ValuesByTable DEF CallIsWellFormed, RecordRefund, TransactionRows, RowsOf
  <2>2. v \in RowValues(r)
    BY <2>1 DEF TransactionValues
  <2>3. Collect(c, Put(memory, f), {r}) /\ f = [x \in {r} |-> v]
    BY <1>4 DEF RecordRefund
  <2>4. v = [type |-> "refund", of |-> call[c].on]
    OBVIOUS
  <2> HIDE DEF f, v
  <2>5. Sectioned(c, {r}) /\ Collect(c, memory', {r}) /\ memory'[r] = v
    BY <2>1, <2>2, <2>3, OneRowWritten
  <2>6. RefundWrite(c)
    BY <1>4, <2>1, <2>4, <2>5 DEF RefundWrite, RecordRefund
  <2>7. QED
    BY <2>6
<1>5. QED
  BY <1>2, <1>3, <1>4 DEF PaymentSection

LEMMA SectionedIsSection ==
  ASSUME TypeOK, NEW c \in Calls, Ready(c) \/ phase[c] = "resuming", NEW w, Sectioned(c, w)
  PROVE  Section(c)
<1>1. CASE Collect(c, memory', w)
  <2>1. DOMAIN batch = Calls
    BY DEF TypeOK, StoreTypeOK
  <2>2. DOMAIN batch'[c] = w
    BY <1>1, <2>1 DEF Collect
  <2>3. QED
    BY <1>1, <2>2 DEF Section, Sectioned
<1>2. CASE Throw(c, memory', w) /\ w = {r \in Rows : memory'[r] # memory[r]}
  BY <1>2 DEF Section, Sectioned
<1>3. QED
  BY <1>1, <1>2 DEF Sectioned

\* The tables that the commands of one part write.
OtherRows == ProjectRows \cup PayoutRows \cup TransactionRows

\* What a section of c does to the store: it changes rows of the learner as LearningWrite
\* allows or rows of the other tables, or it changes nothing.
SectionOf(c) ==
  /\ Ready(c) \/ phase[c] = "resuming"
  /\ \/ \E w : Sectioned(c, w) /\ (LearningWrite(c, w) \/ w \in SUBSET OtherRows)
     \/ \E next \in {"answered", "waiting"} : Pass(c, next)

LEMMA SectionsByKind ==
  ASSUME TypeOK, ValuesAreGiven, CallsAreGiven, NEW c \in Calls
  PROVE  /\ ProjectSection(c) => SectionOf(c)
         /\ LearningSection(c) => SectionOf(c)
         /\ PurchaseSection(c) => SectionOf(c) \/ Await(c)
         /\ PaymentSection(c) => SectionOf(c) \/ Await(c) \/ Finish(c) \/ UNCHANGED storeVars
<1>1. ASSUME ProjectSection(c) PROVE SectionOf(c)
  <2>1. Ready(c)
    BY <1>1 DEF ProjectSection, CreateCommitment, ReviewCommitment, ActivateCommitment,
                MarkInstallmentPaid, UpdateOwnerProject, DeleteOwnerProject,
                ExpressPartnerInterest
  <2>2. Pass(c, "answered") \/ \E w \in SUBSET ProjectRows : Sectioned(c, w)
    BY <1>1, ProjectSections
  <2>3. QED
    BY <2>1, <2>2 DEF SectionOf, OtherRows
<1>2. ASSUME LearningSection(c) PROVE SectionOf(c)
  <2>1. Ready(c)
    BY <1>2 DEF LearningSection, UpdateCourseProgress, SubmitExam, GradeSubmission,
                RequestResubmission, StartQuiz, UpdateExam, ChangeStatus, DeleteExam,
                GetCertificates, IssueCertificate, RevokeCertificate
  <2>2. Pass(c, "answered") \/ \E w : LearningWrite(c, w)
    BY <1>2, LearningSections
  <2>3. QED
    BY <2>1, <2>2 DEF SectionOf, LearningWrite
<1>3. ASSUME PurchaseSection(c) PROVE SectionOf(c) \/ Await(c)
  <2>1. Await(c) \/ Ready(c) \/ phase[c] = "resuming"
    BY <1>3 DEF PurchaseSection, Purchase, Charge, ChargeFails, PurchaseGoesOn, Await,
                PurchaseWithExternalPayment, EnrollLearner
  <2>2. PurchaseStep(c)
    BY <1>3, PurchaseSections
  <2>3. QED
    BY <2>1, <2>2 DEF SectionOf, PurchaseStep, LearningWrite
<1>4. ASSUME PaymentSection(c)
      PROVE  SectionOf(c) \/ Await(c) \/ Finish(c) \/ UNCHANGED storeVars
  <2>1. CASE PayoutWrite(c)
    BY <2>1 DEF PayoutWrite, SectionOf, OtherRows
  <2>2. CASE RefundWrite(c)
    BY <2>2 DEF RefundWrite, SectionOf, OtherRows
  <2>3. CASE (Ready(c) /\ Pass(c, "answered")) \/ Refund(c)
    BY <2>3 DEF Refund, SectionOf
  <2>4. CASE CompletePayout(c) \/ CompletePayoutFails(c)
    BY <2>4 DEF CompletePayout, CompletePayoutFails, Finish
  <2>5. CASE Credit(c) \/ CreditFails(c)
    BY <2>5 DEF Credit, CreditFails, Await
  <2>6. QED
    BY <1>4, <2>1, <2>2, <2>3, <2>4, <2>5, PaymentSections
<1>5. QED
  BY <1>1, <1>2, <1>3, <1>4

LEMMA StepsByKind ==
  ASSUME TypeOK, ValuesAreGiven, CallsAreGiven, [CommandsNext]_vars
  PROVE  \/ \E c \in Calls : SectionOf(c) \/ Await(c) \/ Finish(c)
         \/ Reload \/ Restart
         \/ UNCHANGED storeVars
BY SectionsByKind DEF CommandsNext, vars

\* Every step of the commands is a step that the store's specification allows.
LEMMA StepsAreStoreSteps ==
  ASSUME TypeOK, ValuesAreGiven, CallsAreGiven, [CommandsNext]_vars
  PROVE  [Next]_storeVars
<1>1. ASSUME NEW c \in Calls, SectionOf(c) PROVE Section(c)
  BY <1>1, SectionedIsSection DEF SectionOf, Section
<1>2. QED
  BY <1>1, StepsByKind DEF Next, StoreNext

LEMMA StoreTypeIsKept ==
  ASSUME TypeOK, ValuesAreGiven, CallsAreGiven, [CommandsNext]_vars
  PROVE  StoreTypeOK'
BY StepsAreStoreSteps, TypeIsStable DEF TypeOK

RowsHold ==
  /\ Holds(app, Rows) /\ Holds(memory, Rows)
  /\ snapshot # NoSnapshot => Holds(snapshot, Rows)
  /\ \A c \in Calls : Holds(batch[c], DOMAIN batch[c])

LEMMA RowsHoldStill ==
  ASSUME TypeOK, ValuesAreGiven, CallsAreGiven, [CommandsNext]_vars
  PROVE  RowsHold'
<1>1. RowsHold /\ StoreTypeOK
  BY DEF TypeOK, RowsHold
<1>2. ASSUME NEW c \in Calls, NEW w, Sectioned(c, w) PROVE RowsHold'
  <2>1. w \in SUBSET Rows /\ Holds(memory', Rows) /\ app' = app /\ snapshot' = snapshot
    BY <1>2 DEF Sectioned, Changes, Collect, Throw
  <2>2. CASE Collect(c, memory', w)
    <3>1. \A d \in Calls : batch'[d] = IF d = c THEN [r \in w |-> memory'[r]] ELSE batch[d]
      BY <1>1, <2>2 DEF Collect, StoreTypeOK
    <3>2. \A d \in Calls : Holds(batch'[d], DOMAIN batch'[d])
      <4> SUFFICES ASSUME NEW d \in Calls PROVE Holds(batch'[d], DOMAIN batch'[d])
        OBVIOUS
      <4>1. CASE d = c
        <5>1. DOMAIN batch'[d] = w /\ \A r \in w : batch'[d][r] = memory'[r]
          BY <3>1, <4>1
        <5>2. QED
          BY <2>1, <5>1 DEF Holds
      <4>2. CASE d # c
        <5>1. batch'[d] = batch[d]
          BY <3>1, <4>2
        <5>2. QED
          BY <1>1, <5>1 DEF RowsHold
      <4>3. QED
        BY <4>1, <4>2
    <3>3. QED
      BY <1>1, <2>1, <3>2 DEF RowsHold
  <2>3. CASE Throw(c, memory', w)
    BY <1>1, <2>1, <2>3 DEF RowsHold, Throw
  <2>4. QED
    BY <1>2, <2>2, <2>3 DEF Sectioned
<1>3. ASSUME NEW c \in Calls, (\E next \in {"answered", "waiting"} : Pass(c, next)) \/ Await(c)
      PROVE  RowsHold'
  BY <1>1, <1>3 DEF RowsHold, Pass, Await, Settle
<1>4. ASSUME NEW c \in Calls, Leave(c) PROVE \A d \in Calls : Holds(batch'[d], DOMAIN batch'[d])
  <2>1. \A d \in Calls : batch'[d] = IF d = c THEN NoRows ELSE batch[d]
    BY <1>1, <1>4 DEF Leave, StoreTypeOK
  <2>2. QED
    BY <1>1, <2>1 DEF RowsHold, Holds, NoRows
<1>5. ASSUME NEW c \in Calls, Finish(c) PROVE RowsHold'
  <2>1. CASE Persist(c)
    <3>1. \A r \in Rows : app'[r] = IF r \in DOMAIN batch[c] THEN batch[c][r] ELSE app[r]
      BY <2>1 DEF Persist
    <3>2. Holds(app', Rows)
      BY <1>1, <3>1 DEF RowsHold, Holds
    <3>3. QED
      BY <1>1, <1>4, <2>1, <3>2 DEF Persist, RowsHold
  <2>2. CASE PersistFails(c)
    BY <1>1, <1>4, <2>2 DEF PersistFails, RowsHold
  <2>3. QED
    BY <1>5, <2>1, <2>2 DEF Finish
<1>6. CASE ReadAppRows
  BY <1>1, <1>6 DEF ReadAppRows, RowsHold
<1>7. ASSUME NEW table \in unread, ReadProjection(table) PROVE RowsHold'
  <2>1. snapshot # NoSnapshot
    BY <1>1, <1>7 DEF StoreTypeOK
  <2>2. \A r \in Rows : snapshot'[r] = IF r \in table THEN app[r] ELSE snapshot[r]
    BY <1>7 DEF ReadProjection
  <2>3. Holds(snapshot', Rows)
    BY <1>1, <2>1, <2>2 DEF RowsHold, Holds
  <2>4. QED
    BY <1>1, <1>7, <2>3 DEF ReadProjection, RowsHold
<1>8. CASE ResetStore
  BY <1>1, <1>8 DEF ResetStore, RowsHold
<1>9. CASE Restart
  <2>1. \A d \in Calls : batch'[d] = NoRows
    BY <1>9 DEF Restart
  <2>2. \A d \in Calls : Holds(batch'[d], DOMAIN batch'[d])
    BY <2>1 DEF Holds, NoRows
  <2>3. QED
    BY <1>1, <1>9, <2>2 DEF Restart, RowsHold
<1>10. CASE UNCHANGED storeVars
  BY <1>1, <1>10 DEF storeVars, RowsHold
<1>11. QED
  BY <1>2, <1>3, <1>5, <1>6, <1>7, <1>8, <1>9, <1>10, StepsByKind DEF SectionOf, Reload

LEMMA TypesAreKept ==
  ASSUME TypeOK, ValuesAreGiven, CallsAreGiven, [CommandsNext]_vars
  PROVE  TypeOK'
<1> DEFINE Rest == /\ found \in [Calls -> EnrollmentRows \cup {NoRow}]
                   /\ charged \in BOOLEAN
                   /\ paying \in [Calls -> BOOLEAN]
                   /\ paidOut \in SUBSET PayoutRows /\ credited \in SUBSET Calls
                   /\ beside \in [Calls -> SUBSET Calls]
<1>1. Rest
  BY DEF TypeOK
<1>2. ASSUME NEW c \in Calls, PurchaseSection(c), UNCHANGED paymentVars PROVE Rest'
  <2>1. Enrolled(memory) => Enrollment(memory) \in EnrollmentRows
    BY Found DEF Enrolled, Enrollment, EnrollmentRows, In
  <2>2. UNCHANGED charged \/ charged' = TRUE
    BY <1>2 DEF PurchaseSection, Purchase, Charge, ChargeFails, PurchaseGoesOn,
                PurchaseWithExternalPayment, EnrollLearner, purchaseVars
  <2>3. found' \in [Calls -> EnrollmentRows \cup {NoRow}]
    BY <1>1, <1>2, <2>1, PurchaseSections DEF PurchaseStep
  <2>4. QED
    BY <1>1, <1>2, <2>2, <2>3 DEF paymentVars
<1>3. ASSUME NEW c \in Calls, PaymentSection(c), UNCHANGED purchaseVars PROVE Rest'
  <2>1. UNCHANGED <<found, charged>>
    BY <1>3 DEF purchaseVars
  <2>2. CASE PayoutWrite(c)
    <3>1. Owes(c) \in BOOLEAN
      BY DEF Owes
    <3>2. QED
      BY <1>1, <2>1, <2>2, <3>1 DEF PayoutWrite, paymentVars
  <2>3. CASE RefundWrite(c)
    BY <1>1, <2>1, <2>3 DEF RefundWrite
  <2>4. CASE CreatePayoutRequest(c) \/ UpdatePayoutStatus(c)
    <3>1. UNCHANGED <<paidOut, credited, beside>>
      BY <2>4 DEF CreatePayoutRequest, UpdatePayoutStatus, paymentVars
    <3>2. paying' \in [Calls -> BOOLEAN]
      BY <1>1, <2>4 DEF CreatePayoutRequest, UpdatePayoutStatus, paymentVars, Owes
    <3>3. QED
      BY <1>1, <2>1, <3>1, <3>2
  <2>5. CASE CompletePayout(c) \/ CompletePayoutFails(c)
    <3>1. call[c].on \in PayoutRows
      BY <2>5, CallsAreWellFormed DEF CompletePayout, CompletePayoutFails, CallIsWellFormed
    <3>2. QED
      BY <1>1, <2>1, <2>5, <3>1 DEF CompletePayout, CompletePayoutFails
  <2>6. CASE Refund(c)
    <3>1. Running \in SUBSET Calls
      BY DEF Running
    <3>2. QED
      BY <1>1, <2>1, <2>6, <3>1 DEF Refund
  <2>7. CASE Credit(c) \/ CreditFails(c)
    BY <1>1, <2>1, <2>7 DEF Credit, CreditFails, paymentVars
  <2>8. CASE RecordRefund(c)
    BY <1>1, <2>1, <2>8 DEF RecordRefund
  <2>9. QED
    BY <1>3, <2>4, <2>5, <2>6, <2>7, <2>8 DEF PaymentSection
<1>4. Rest'
  BY <1>1, <1>2, <1>3 DEF CommandsNext, vars, purchaseVars, paymentVars
<1>5. earned' \in SUBSET {"lessons", "exam", "decided"}
  BY DEF TypeOK, CommandsNext, Observe, Shown, vars
<1>6. QED
  BY <1>4, <1>5, StoreTypeIsKept, RowsHoldStill DEF TypeOK, RowsHold

\* The rows hold what their tables do, in AppRow, in the store, in what a reload reads
\* and in the transactions, and so do the histories.
THEOREM CommandsTypeCorrect ==
  ASSUME ValuesAreGiven
  PROVE  Spec => [](TypeOK /\ CallsAreGiven)
<1>1. CommandsInit => TypeOK /\ CallsAreGiven
  <2> SUFFICES ASSUME CommandsInit PROVE TypeOK /\ CallsAreGiven
    OBVIOUS
  <2>1. PICK s \in Scenarios : app = s.rows /\ call = s.calls
    BY DEF CommandsInit
  <2>2. app \in Tables /\ Holds(app, Rows)
    BY <2>1, ScenariosAreWellFormed
  <2>3. StoreTypeOK
    BY <2>2 DEF CommandsInit, StoreInit, StoreTypeOK, Tables, NoRows, Phases, Dirty
  <2>4. RowsHold
    BY <2>2 DEF CommandsInit, StoreInit, RowsHold, Holds, NoRows
  <2>5. earned \in SUBSET {"lessons", "exam", "decided"}
    BY DEF CommandsInit, Shown
  <2>6. CallsAreGiven
    BY <2>1 DEF CallsAreGiven
  <2>7. QED
    BY <2>3, <2>4, <2>5, <2>6 DEF TypeOK, RowsHold, CommandsInit
<1>2. TypeOK /\ CallsAreGiven /\ [CommandsNext]_vars => (TypeOK /\ CallsAreGiven)'
  <2>1. CallsAreGiven /\ [CommandsNext]_vars => CallsAreGiven'
    BY DEF CallsAreGiven, CommandsNext, vars
  <2>2. QED
    BY <2>1, TypesAreKept
<1>3. QED
  BY <1>1, <1>2, PTL DEF Spec

\* The commands implement AppStore: each of their sections collects every row it
\* changes, with the value the store has then.
THEOREM CommandsCollect ==
  ASSUME ValuesAreGiven
  PROVE  Spec => CollectsWhatItChanges
<1>1. CommandsInit => Init
  BY ScenariosAreWellFormed DEF CommandsInit, Init
<1>2. TypeOK /\ CallsAreGiven /\ [CommandsNext]_vars => [Next]_storeVars
  BY StepsAreStoreSteps
<1>3. QED
  BY <1>1, <1>2, CommandsTypeCorrect, PTL DEF Spec, StoreSpec, CollectsWhatItChanges

\* Hence AppRow and the store part only for the reasons of StoreAgrees.
THEOREM CommandsAgree ==
  ASSUME ValuesAreGiven
  PROVE  Spec => []StoreAgrees
BY CommandsCollect, StoreAgreement, PTL DEF CollectsWhatItChanges


-----------------------------------------------------------------------------
\* What the proofs below start from.
StoreInv == TypeOK /\ CallsAreGiven /\ AgreeInv /\ OrderInv

LEMMA StoreInvariant == ASSUME ValuesAreGiven PROVE Spec => []StoreInv
<1>1. CommandsInit => AgreeInv /\ OrderInv
  BY DEF CommandsInit, StoreInit, AgreeInv, OrderInv, Current, Seen, Pending, InFlight
<1>2. /\ TypeOK /\ CallsAreGiven /\ AgreeInv /\ OrderInv /\ [CommandsNext]_vars
      => AgreeInv' /\ OrderInv'
  BY StepsAreStoreSteps, AgreementIsStable, OrderIsStable DEF TypeOK
<1>3. QED
  BY <1>1, <1>2, CommandsTypeCorrect, PTL DEF Spec, StoreInv

\* A step as a row sees it that is in no history: nothing changes it, a section writes
\* it, or a transaction commits it.
Kept(r) ==
  /\ app'[r] = app[r] /\ memory'[r] = memory[r] /\ Pending(r)' = Pending(r)
  /\ \A d \in Pending(r) : batch'[d][r] = batch[d][r] /\ ahead'[d] \subseteq ahead[d]

Written(c, r) ==
  /\ c \notin Pending(r) /\ Pending(r)' = Pending(r) \cup {c}
  /\ app'[r] = app[r] /\ batch'[c][r] = memory'[r] /\ c \notin ahead'[c]
  /\ \A d \in Pending(r) : batch'[d][r] = batch[d][r] /\ ahead'[d] = ahead[d] /\ c \notin ahead[d]

Committed(c, r) ==
  /\ c \in Pending(r) /\ Pending(r)' = Pending(r) \ {c} /\ Pending(r) \cap ahead[c] = {}
  /\ app'[r] = batch[c][r] /\ memory'[r] = memory[r]
  /\ \A d \in Pending(r)' : /\ c \in ahead[d]
                            /\ batch'[d][r] = batch[d][r] /\ ahead'[d] \subseteq ahead[d]

LEMMA SectionRows ==
  ASSUME StoreInv, NEW c \in Calls, Ready(c) \/ phase[c] = "resuming",
         NEW w, Sectioned(c, w), NEW r \in Rows \ Dirty'
  PROVE  IF r \in w THEN Written(c, r) ELSE Kept(r)
<1>1. StoreTypeOK /\ OrderInv /\ c \notin InFlight /\ w \in SUBSET Rows
  BY DEF StoreInv, TypeOK, InFlight, Ready, Sectioned, Changes
<1>2. CASE Collect(c, memory', w)
  <2>1. /\ InFlight' = InFlight \cup {c}
        /\ DOMAIN batch'[c] = w /\ \A q \in w : batch'[c][q] = memory'[q]
        /\ \A d \in InFlight : batch'[d] = batch[d] /\ ahead'[d] = ahead[d] /\ c \notin ahead[d]
        /\ app' = app /\ c \notin ahead'[c]
    BY <1>1, <1>2 DEF Collect, Move, InFlight, StoreTypeOK, OrderInv
  <2>2. Pending(r)' = IF r \in w THEN Pending(r) \cup {c} ELSE Pending(r)
    BY <1>1, <2>1 DEF Pending
  <2>3. r \notin w => memory'[r] = memory[r]
    BY DEF Sectioned, Changes
  <2>4. CASE r \in w
    BY <1>1, <2>1, <2>2, <2>4 DEF Written, Pending
  <2>5. CASE r \notin w
    BY <1>1, <2>1, <2>2, <2>3, <2>5 DEF Kept, Pending
  <2>6. QED
    BY <2>4, <2>5
<1>3. CASE Throw(c, memory', w)
  <2>1. r \notin w /\ memory'[r] = memory[r]
    BY <1>3 DEF Throw, Dirty, Sectioned, Changes
  <2>2. InFlight' = InFlight /\ app' = app /\ batch' = batch /\ ahead' = ahead
    BY <1>1, <1>3 DEF Throw, Move, InFlight, StoreTypeOK
  <2>3. QED
    BY <2>1, <2>2 DEF Kept, Pending
<1>4. QED
  BY <1>2, <1>3 DEF Sectioned

LEMMA FinishRows ==
  ASSUME StoreInv, NEW c \in Calls, Finish(c), NEW r \in Rows \ Dirty'
  PROVE  IF c \in Pending(r) THEN Committed(c, r) ELSE Kept(r)
<1>1. StoreTypeOK /\ OrderInv
  BY DEF StoreInv, TypeOK
<1>2. /\ Leave(c) /\ phase[c] = "persisting" /\ memory' = memory
      /\ \E next \in {"answered", "failed"} : Move(c, next)
  BY DEF Finish, Persist, PersistFails
<1>3. /\ InFlight' = InFlight \ {c} /\ c \in InFlight
      /\ \A d \in InFlight' : batch'[d] = batch[d] /\ ahead'[d] = ahead[d] \ {c}
  BY <1>1, <1>2 DEF Leave, Move, InFlight, StoreTypeOK
<1>4. Pending(r)' = Pending(r) \ {c}
  BY <1>3 DEF Pending
<1>5. CASE c \in Pending(r)
  <2>1. Persist(c) /\ r \in DOMAIN batch[c]
    BY <1>5 DEF Finish, PersistFails, Dirty, Pending
  <2>2. app'[r] = batch[c][r] /\ Pending(r) \cap ahead[c] = {}
    BY <2>1 DEF Persist, Dirty
  <2>3. \A d \in Pending(r)' : d \in InFlight /\ d # c /\ c \in ahead[d]
    BY <1>1, <1>3, <1>4, <2>2 DEF OrderInv, Pending
  <2>4. QED
    BY <1>2, <1>3, <1>4, <1>5, <2>2, <2>3 DEF Committed, Pending
<1>6. CASE c \notin Pending(r)
  <2>1. app'[r] = app[r]
    BY <1>3, <1>6 DEF Finish, Persist, PersistFails, Pending
  <2>2. QED
    BY <1>2, <1>3, <1>4, <1>6, <2>1 DEF Kept, Pending
<1>7. QED
  BY <1>5, <1>6

\* A section that writes nothing, and what is no step of a command.
Silent ==
  \/ \E c \in Calls : /\ Ready(c) \/ phase[c] = "resuming"
                      /\ \E next \in {"answered", "waiting"} : Pass(c, next)
  \/ \E c \in Calls : Await(c)
  \/ Reload \/ Restart \/ UNCHANGED storeVars

LEMMA SilentRows ==
  ASSUME StoreInv, Silent, NEW r \in Rows \ Dirty'
  PROVE  Kept(r)
<1>1. StoreTypeOK /\ (r \notin Dirty => Current(r) /\ Seen(r))
  BY DEF StoreInv, TypeOK, AgreeInv
<1>2. ASSUME NEW c \in Calls, Ready(c) \/ phase[c] = "resuming",
             NEW next \in {"answered", "waiting"}, Pass(c, next)
      PROVE  Kept(r)
  <2>1. InFlight' = InFlight
    BY <1>1, <1>2 DEF Ready, Pass, Move, InFlight, StoreTypeOK
  <2>2. QED
    BY <1>2, <2>1 DEF Pass, Kept, Pending
<1>3. ASSUME NEW c \in Calls, Await(c) PROVE Kept(r)
  <2>1. InFlight' = InFlight /\ UNCHANGED <<app, memory, batch, ahead>>
    BY <1>1, <1>3 DEF Await, Settle, Move, InFlight, StoreTypeOK
  <2>2. QED
    BY <2>1 DEF Kept, Pending
<1>4. CASE ReadAppRows \/ (\E table \in unread : ReadProjection(table)) \/ UNCHANGED storeVars
  BY <1>4 DEF ReadAppRows, ReadProjection, storeVars, Kept, Pending, InFlight
<1>5. CASE ResetStore
  <2>1. r \notin Dirty /\ r \notin missed
    BY <1>5 DEF ResetStore, Dirty
  <2>2. Pending(r) = {} /\ memory'[r] = app[r] /\ memory[r] = app[r]
    BY <1>1, <1>5, <2>1 DEF ResetStore, Seen, Current
  <2>3. Pending(r)' = Pending(r)
    BY <1>5 DEF ResetStore, Pending, InFlight
  <2>4. QED
    BY <1>5, <2>2, <2>3 DEF ResetStore, Kept
<1>6. CASE Restart
  <2>1. r \notin Dirty /\ Pending(r) = {}
    BY <1>6 DEF Restart, Dirty, Pending
  <2>2. memory[r] = app[r] /\ memory'[r] = app[r] /\ app' = app /\ Pending(r)' = {}
    BY <1>1, <1>6, <2>1 DEF Restart, Current, Pending, InFlight
  <2>3. QED
    BY <2>1, <2>2 DEF Kept
<1>7. QED
  BY <1>2, <1>3, <1>4, <1>5, <1>6 DEF Silent, Reload

\* The steps of the commands by what they do to rows.
LEMMA StepsOfRows ==
  ASSUME StoreInv, ValuesAreGiven, [CommandsNext]_vars
  PROVE  \/ \E c \in Calls : /\ Ready(c) \/ phase[c] = "resuming"
                             /\ \E w : /\ Sectioned(c, w)
                                       /\ LearningWrite(c, w) \/ w \in SUBSET OtherRows
         \/ \E c \in Calls : Finish(c)
         \/ Silent
<1>1. TypeOK /\ CallsAreGiven
  BY DEF StoreInv
<1>2. QED
  BY <1>1, StepsByKind DEF SectionOf, Silent

\* No history forgets a row, no call is made anew, and what is asked for stays.
LEMMA NothingIsForgotten ==
  ASSUME StoreInv, ValuesAreGiven, [CommandsNext]_vars
  PROVE  /\ Dirty \subseteq Dirty' /\ stale \subseteq stale' /\ call' = call
         /\ \A c \in Calls : Ready(c)' => Ready(c)
<1>1. StoreTypeOK /\ TypeOK /\ CallsAreGiven
  BY DEF StoreInv, TypeOK
<1>2. call' = call
  BY DEF CommandsNext, vars
<1>3. ASSUME NEW c \in Calls, NEW w, Sectioned(c, w)
      PROVE  Dirty \subseteq Dirty' /\ stale \subseteq stale' /\ \A d \in Calls : Ready(d)' => Ready(d)
  BY <1>1, <1>3 DEF Sectioned, Collect, Throw, Move, Dirty, disturbed, Ready, StoreTypeOK
<1>4. ASSUME NEW c \in Calls, Finish(c)
      PROVE  Dirty \subseteq Dirty' /\ stale \subseteq stale' /\ \A d \in Calls : Ready(d)' => Ready(d)
  BY <1>1, <1>4 DEF Finish, Persist, PersistFails, Move, Dirty, Ready, StoreTypeOK
<1>5. ASSUME Silent
      PROVE  Dirty \subseteq Dirty' /\ stale \subseteq stale' /\ \A d \in Calls : Ready(d)' => Ready(d)
  <2>1. ASSUME NEW c \in Calls, (\E next \in {"answered", "waiting"} : Pass(c, next)) \/ Await(c)
        PROVE  UNCHANGED disturbed /\ \A d \in Calls : Ready(d)' => Ready(d)
    BY <1>1, <2>1 DEF Pass, Await, Settle, Move, Ready, StoreTypeOK
  <2>2. CASE Reload
    BY <2>2 DEF Reload, ReadAppRows, ReadProjection, ResetStore, Dirty, disturbed, Ready
  <2>3. CASE Restart
    <3>1. Dirty \subseteq Dirty' /\ stale \subseteq stale'
      BY <2>3 DEF Restart, Dirty
    <3>2. \A d \in Calls : Ready(d)' => Ready(d)
      BY <2>3 DEF Restart, Ready
    <3>3. QED
      BY <3>1, <3>2
  <2>4. CASE UNCHANGED storeVars
    BY <2>4 DEF storeVars, Dirty, disturbed, Ready
  <2>5. QED
    BY <1>5, <2>1, <2>2, <2>3, <2>4 DEF Silent, Dirty, disturbed
<1>6. QED
  BY <1>2, <1>3, <1>4, <1>5, StepsOfRows

-----------------------------------------------------------------------------
\* A certificate that is not final in the store is not final in AppRow either, nor in a
\* transaction; and what a command writes that is no instructor's own was not final
\* before it.
FinalInv ==
  \A r \in RowsOf("certificates") \ Dirty :
    /\ ~IsFinal(memory[r]) =>
         ~IsFinal(app[r]) /\ \A c \in Pending(r) : ~IsFinal(batch[c][r])
    /\ \A c \in Pending(r) : ~Instructed(c) =>
         ~IsFinal(app[r]) /\ \A d \in Pending(r) \cap ahead[c] : ~IsFinal(batch[d][r])

LEMMA FinalIsStable ==
  ASSUME StoreInv, ValuesAreGiven, FinalInv, [CommandsNext]_vars
  PROVE  FinalInv'
<1> SUFFICES ASSUME NEW r \in RowsOf("certificates") \ Dirty'
             PROVE  /\ ~IsFinal(memory'[r]) =>
                         ~IsFinal(app'[r]) /\ \A c \in Pending(r)' : ~IsFinal(batch'[c][r])
                    /\ \A c \in Pending(r)' : ~Instructed(c) =>
                         /\ ~IsFinal(app'[r])
                         /\ \A d \in Pending(r)' \cap ahead'[c] : ~IsFinal(batch'[d][r])
  BY NothingIsForgotten DEF FinalInv, Instructed, RowsOf
<1>1. /\ r \in Rows \ Dirty' /\ r[1] = "certificates" /\ r \notin Dirty
      /\ ~IsFinal(memory[r]) =>
           ~IsFinal(app[r]) /\ \A c \in Pending(r) : ~IsFinal(batch[c][r])
      /\ \A c \in Pending(r) : ~Instructed(c) =>
           ~IsFinal(app[r]) /\ \A d \in Pending(r) \cap ahead[c] : ~IsFinal(batch[d][r])
  BY NothingIsForgotten DEF FinalInv, RowsOf
<1>2. CASE Kept(r)
  BY <1>1, <1>2 DEF Kept
<1>3. ASSUME NEW c, Written(c, r), CertificateStep(c, r)
      PROVE  /\ ~IsFinal(memory'[r]) =>
                  ~IsFinal(app'[r]) /\ \A d \in Pending(r)' : ~IsFinal(batch'[d][r])
             /\ \A d \in Pending(r)' : ~Instructed(d) =>
                  /\ ~IsFinal(app'[r])
                  /\ \A e \in Pending(r)' \cap ahead'[d] : ~IsFinal(batch'[e][r])
  <2>1. ASSUME NEW d \in Pending(r)', d # c
        PROVE  /\ d \in Pending(r) /\ batch'[d][r] = batch[d][r]
               /\ ahead'[d] = ahead[d] /\ c \notin ahead[d]
    BY <1>3, <2>1 DEF Written
  <2>2. /\ app'[r] = app[r] /\ batch'[c][r] = memory'[r]
        /\ ~Instructed(c) => ~IsFinal(memory[r])
        /\ Instructed(c) => IsFinal(memory'[r])
    BY <1>3 DEF Written, CertificateStep
  <2>3. ASSUME ~IsFinal(memory'[r])
        PROVE  ~IsFinal(app'[r]) /\ \A d \in Pending(r)' : ~IsFinal(batch'[d][r])
    BY <1>1, <2>1, <2>2, <2>3
  <2>4. ASSUME NEW d \in Pending(r)', ~Instructed(d)
        PROVE  /\ ~IsFinal(app'[r])
               /\ \A e \in Pending(r)' \cap ahead'[d] : ~IsFinal(batch'[e][r])
    <3>1. CASE d = c
      <4>1. c \notin ahead'[c]
        BY <1>3 DEF Written
      <4>2. QED
        BY <1>1, <2>1, <2>2, <2>4, <3>1, <4>1
    <3>2. CASE d # c
      <4>1. \A e \in Pending(r)' \cap ahead'[d] :
              e \in Pending(r) \cap ahead[d] /\ batch'[e][r] = batch[e][r]
        BY <2>1, <3>2
      <4>2. QED
        BY <1>1, <2>1, <2>2, <2>4, <3>2, <4>1
    <3>3. QED
      BY <3>1, <3>2
  <2>5. QED
    BY <2>3, <2>4
<1>4. ASSUME NEW c, Committed(c, r)
      PROVE  /\ ~IsFinal(memory'[r]) =>
                  ~IsFinal(app'[r]) /\ \A d \in Pending(r)' : ~IsFinal(batch'[d][r])
             /\ \A d \in Pending(r)' : ~Instructed(d) =>
                  /\ ~IsFinal(app'[r])
                  /\ \A e \in Pending(r)' \cap ahead'[d] : ~IsFinal(batch'[e][r])
  BY <1>1, <1>4 DEF Committed
<1>5. ASSUME NEW c \in Calls, Ready(c) \/ phase[c] = "resuming",
             NEW w, Sectioned(c, w), LearningWrite(c, w) \/ w \in SUBSET OtherRows
      PROVE  Kept(r) \/ (Written(c, r) /\ CertificateStep(c, r))
  <2>1. r \in w => CertificateStep(c, r)
    BY <1>1, <1>5 DEF LearningWrite, OtherRows, ProjectRows, ProjectTables, PayoutRows,
                      TransactionRows, RowsOf
  <2>2. QED
    BY <1>1, <1>5, <2>1, SectionRows
<1>6. QED
  BY <1>1, <1>2, <1>3, <1>4, <1>5, StepsOfRows, FinishRows, SilentRows

\* A certificate that was delivered or revoked stays so, unless an instructor decides.
THEOREM FinalCertificates ==
  ASSUME ValuesAreGiven
  PROVE  Spec => FinalCertificatesStay
<1>1. CommandsInit => FinalInv
  BY DEF CommandsInit, StoreInit, FinalInv, Pending, InFlight
<1> DEFINE Stays == \A c \in Calls, r \in RowsOf("certificates") :
                       /\ phase[c] = "persisting" /\ r \in DOMAIN batch[c]
                       /\ call[c].op \notin {"issueCertificate", "revokeCertificate"}
                       /\ app[r] # Absent /\ app[r].status \in Final
                       => app'[r] = app[r] \/ r \in Dirty'
<1>2. StoreInv /\ FinalInv /\ [CommandsNext]_vars => [Stays]_storeVars
  <2> SUFFICES ASSUME StoreInv, FinalInv, [CommandsNext]_vars, NEW c \in Calls,
                      NEW r \in RowsOf("certificates"),
                      phase[c] = "persisting", r \in DOMAIN batch[c], ~Instructed(c),
                      IsFinal(app[r])
               PROVE  r \in Dirty'
    BY DEF Instructed, IsFinal
  <2>1. c \in Pending(r)
    BY DEF Pending, InFlight
  <2>2. QED
    BY <2>1, NothingIsForgotten DEF FinalInv
<1>3. StoreInv /\ FinalInv /\ [CommandsNext]_vars => FinalInv'
  BY FinalIsStable
<1>4. QED
  BY <1>1, <1>2, <1>3, StoreInvariant, PTL DEF Spec, FinalCertificatesStay

-----------------------------------------------------------------------------
\* What the store, AppRow and the transactions in flight hold of a row.
Copies(r) == {memory[r], app[r]} \cup {batch[c][r] : c \in Pending(r)}
Traced(r) == \E v \in Copies(r) : v # Absent

LEMMA CopiesOfSection ==
  ASSUME StoreInv, NEW c \in Calls, Ready(c) \/ phase[c] = "resuming",
         NEW w, Sectioned(c, w), NEW r \in Rows
  PROVE  /\ stale' = stale
         /\ r \in w => Copies(r)' \subseteq Copies(r) \cup {memory'[r]}
         /\ r \notin w => memory'[r] = memory[r] /\ Copies(r)' \subseteq Copies(r)
<1>1. StoreTypeOK /\ c \notin InFlight /\ (r \notin w => memory'[r] = memory[r])
  BY DEF StoreInv, TypeOK, InFlight, Ready, Sectioned, Changes
<1>2. CASE Collect(c, memory', w)
  <2>1. /\ InFlight' = InFlight \cup {c}
        /\ DOMAIN batch'[c] = w /\ \A q \in w : batch'[c][q] = memory'[q]
        /\ \A d \in InFlight : batch'[d] = batch[d]
        /\ app' = app /\ stale' = stale
    BY <1>1, <1>2 DEF Collect, Move, InFlight, StoreTypeOK, disturbed
  <2>2. Pending(r)' = IF r \in w THEN Pending(r) \cup {c} ELSE Pending(r)
    BY <1>1, <2>1 DEF Pending
  <2>3. \A d \in Pending(r) : batch'[d][r] = batch[d][r]
    BY <2>1 DEF Pending
  <2>4. r \in w => batch'[c][r] = memory'[r]
    BY <2>1
  <2>5. QED
    BY <1>1, <2>1, <2>2, <2>3, <2>4 DEF Copies
<1>3. CASE Throw(c, memory', w)
  <2>1. InFlight' = InFlight /\ app' = app /\ batch' = batch /\ stale' = stale
    BY <1>1, <1>3 DEF Throw, Move, InFlight, StoreTypeOK
  <2>2. Pending(r)' = Pending(r)
    BY <2>1 DEF Pending
  <2>3. QED
    BY <1>1, <2>1, <2>2 DEF Copies
<1>4. QED
  BY <1>2, <1>3 DEF Sectioned

LEMMA CopiesOfFinish ==
  ASSUME StoreInv, NEW c \in Calls, Finish(c), NEW r \in Rows
  PROVE  memory' = memory /\ stale' = stale /\ Copies(r)' \subseteq Copies(r)
<1>1. StoreTypeOK
  BY DEF StoreInv, TypeOK
<1>2. /\ Leave(c) /\ phase[c] = "persisting" /\ memory' = memory /\ stale' = stale
      /\ \E next \in {"answered", "failed"} : Move(c, next)
  BY DEF Finish, Persist, PersistFails
<1>3. /\ InFlight' = InFlight \ {c} /\ c \in InFlight
      /\ \A d \in InFlight' : batch'[d] = batch[d]
  BY <1>1, <1>2 DEF Leave, Move, InFlight, StoreTypeOK
<1>4. Pending(r)' = Pending(r) \ {c} /\ \A d \in Pending(r)' : batch'[d][r] = batch[d][r]
  BY <1>3 DEF Pending
<1>5. app'[r] = app[r] \/ (c \in Pending(r) /\ app'[r] = batch[c][r])
  BY <1>3 DEF Finish, Persist, PersistFails, Pending
<1>6. QED
  BY <1>2, <1>4, <1>5 DEF Copies

\* A reload or a restart leaves one value of the rows it has not put back.
LEMMA CopiesOfSilent ==
  ASSUME StoreInv, Silent
  PROVE  /\ \A r \in Rows \ stale' : Copies(r)' \subseteq Copies(r)
         /\ memory' = memory \/ \A r \in Rows \ stale' : \A v \in Copies(r)' : v = memory'[r]
<1>1. StoreTypeOK /\ OrderInv
  BY DEF StoreInv, TypeOK
<1>2. ASSUME memory' = memory, app' = app, \A r \in Rows : Pending(r)' = Pending(r), batch' = batch
      PROVE  memory' = memory /\ \A r \in Rows \ stale' : Copies(r)' \subseteq Copies(r)
  BY <1>2 DEF Copies
<1>3. ASSUME NEW c \in Calls, Ready(c) \/ phase[c] = "resuming",
             NEW next \in {"answered", "waiting"}, Pass(c, next)
      PROVE  memory' = memory /\ \A r \in Rows \ stale' : Copies(r)' \subseteq Copies(r)
  <2>1. InFlight' = InFlight
    BY <1>1, <1>3 DEF Ready, Pass, Move, InFlight, StoreTypeOK
  <2>2. QED
    BY <1>2, <1>3, <2>1 DEF Pass, Pending
<1>4. ASSUME NEW c \in Calls, Await(c)
      PROVE  memory' = memory /\ \A r \in Rows \ stale' : Copies(r)' \subseteq Copies(r)
  <2>1. InFlight' = InFlight /\ UNCHANGED <<app, memory, batch>>
    BY <1>1, <1>4 DEF Await, Settle, Move, InFlight, StoreTypeOK
  <2>2. QED
    BY <1>2, <2>1 DEF Pending
<1>5. CASE ReadAppRows \/ (\E table \in unread : ReadProjection(table)) \/ UNCHANGED storeVars
  <2>1. UNCHANGED <<app, memory, batch, phase>>
    BY <1>5 DEF ReadAppRows, ReadProjection, storeVars
  <2>2. QED
    BY <1>2, <2>1 DEF Pending, InFlight
<1>6. ASSUME ResetStore \/ Restart, NEW r \in Rows \ stale'
      PROVE  Copies(r)' = {memory'[r]} /\ Copies(r)' \subseteq Copies(r)
  <2>1. Pending(r)' = {} /\ memory'[r] = app[r] /\ app'[r] = app[r]
    <3>1. CASE ResetStore
      <4>1. r \notin missed /\ memory' = snapshot /\ snapshot # NoSnapshot /\ app' = app
        BY <1>6, <3>1 DEF ResetStore
      <4>2. Pending(r) = {} /\ snapshot[r] = app[r]
        BY <1>1, <4>1 DEF OrderInv, Seen
      <4>3. Pending(r)' = Pending(r)
        BY <3>1 DEF ResetStore, Pending, InFlight
      <4>4. QED
        BY <4>1, <4>2, <4>3
    <3>2. CASE Restart
      BY <3>2 DEF Restart, Pending, InFlight
    <3>3. QED
      BY <1>6, <3>1, <3>2
  <2>2. QED
    BY <2>1 DEF Copies
<1>7. QED
  BY <1>3, <1>4, <1>5, <1>6 DEF Silent, Reload

Single == {"submissions", "certificates", "course_enrollments"}

\* The rows of one learner that no reload has put back.
KeptOnce(t) ==
  \A r \in RowsOf(t) \ stale : Traced(r) =>
    /\ memory[r] # Absent \/ (t = "submissions" /\ memory[Exam] = Absent)
    /\ \A q \in RowsOf(t) \ stale : Traced(q) => q = r

SessionsDiffer ==
  \A r \in RowsOf("exam_sessions") \ stale :
    /\ \A v \in Copies(r) : v # Absent => memory[r] # Absent /\ v.attempt = memory[r].attempt
    /\ \A q \in RowsOf("exam_sessions") \ stale :
         /\ memory[r] # Absent /\ memory[q] # Absent
         /\ memory[r].attempt = memory[q].attempt
         => q = r

SessionsToCome ==
  \A c \in Calls :
    /\ Ready(c) /\ call[c].op = "startQuiz" /\ New("exam_sessions", c) \in Rows \ stale
    => ~Traced(New("exam_sessions", c))

\* A row that is traced somewhere is in the store, where a command looks for it; of
\* submissions the store has lost the row only with the evaluation.
OneInv == (\A t \in Single : KeptOnce(t)) /\ SessionsDiffer /\ SessionsToCome

\* A section changes no row of the learner.
LEMMA OneWhileUntouched ==
  ASSUME OneInv, stale \subseteq stale', call' = call,
         \A c \in Calls : Ready(c)' => Ready(c),
         \A r \in LearningRows \ stale' : Copies(r)' \subseteq Copies(r),
         \/ \A r \in LearningRows : memory'[r] = memory[r]
         \/ \A r \in LearningRows \ stale' : \A v \in Copies(r)' : v = memory'[r]
  PROVE  OneInv'
<1>1. \A r \in LearningRows \ stale' : Traced(r)' => Traced(r)
  BY DEF Traced
<1>2. \A r \in Rows : memory'[r] \in Copies(r)'
  BY DEF Copies
<1>3. Exam \in LearningRows /\ \A t \in Single \cup {"exam_sessions"} : RowsOf(t) \subseteq LearningRows
  BY OneProjectAndExam DEF LearningRows, LearningTables, RowsOf, Single, Exam
<1>4. ASSUME NEW t \in Single PROVE KeptOnce(t)'
  <2> SUFFICES ASSUME NEW r \in RowsOf(t) \ stale', Traced(r)'
               PROVE  /\ memory'[r] # Absent \/ (t = "submissions" /\ memory'[Exam] = Absent)
                      /\ \A q \in RowsOf(t) \ stale' : Traced(q)' => q = r
    BY DEF KeptOnce, RowsOf
  <2>1. /\ memory[r] # Absent \/ (t = "submissions" /\ memory[Exam] = Absent)
        /\ \A q \in RowsOf(t) \ stale' : Traced(q)' => q = r
    BY <1>1, <1>3, <1>4 DEF OneInv, KeptOnce, RowsOf
  <2>2. CASE \A q \in LearningRows : memory'[q] = memory[q]
    BY <1>3, <1>4, <2>1, <2>2
  <2>3. CASE \A q \in LearningRows \ stale' : \A v \in Copies(q)' : v = memory'[q]
    BY <1>3, <1>4, <2>1, <2>3 DEF Traced
  <2>4. QED
    BY <2>2, <2>3
<1>5. SessionsDiffer'
  <2> SUFFICES ASSUME NEW r \in RowsOf("exam_sessions") \ stale'
               PROVE  /\ \A v \in Copies(r)' : v # Absent =>
                           memory'[r] # Absent /\ v.attempt = memory'[r].attempt
                      /\ \A q \in RowsOf("exam_sessions") \ stale' :
                           /\ memory'[r] # Absent /\ memory'[q] # Absent
                           /\ memory'[r].attempt = memory'[q].attempt
                           => q = r
    BY DEF SessionsDiffer, RowsOf
  <2>1. \A q \in RowsOf("exam_sessions") \ stale' :
          \A v \in Copies(q)' : v # Absent => memory[q] # Absent /\ v.attempt = memory[q].attempt
    BY <1>3 DEF OneInv, SessionsDiffer, RowsOf
  <2>2. \A v \in Copies(r)' : v # Absent => memory'[r] # Absent /\ v.attempt = memory'[r].attempt
    BY <1>3, <2>1 DEF RowsOf
  <2>3. ASSUME NEW q \in RowsOf("exam_sessions") \ stale', memory'[r] # Absent,
               memory'[q] # Absent, memory'[r].attempt = memory'[q].attempt
        PROVE  q = r
    <3>1. memory'[q] \in Copies(q)' /\ memory'[r] \in Copies(r)'
      BY <1>2 DEF RowsOf
    <3>2. /\ memory[q] # Absent /\ memory'[q].attempt = memory[q].attempt
          /\ memory[r] # Absent /\ memory'[r].attempt = memory[r].attempt
      BY <2>1, <2>3, <3>1
    <3>3. QED
      BY <2>3, <3>2 DEF OneInv, SessionsDiffer, RowsOf
  <2>4. QED
    BY <2>2, <2>3
<1>6. SessionsToCome'
  <2>1. \A c \in Calls : New("exam_sessions", c) \in Rows => New("exam_sessions", c) \in LearningRows
    BY DEF New, LearningRows, LearningTables
  <2>2. QED
    BY <1>1, <2>1 DEF OneInv, SessionsToCome, New
<1>7. QED
  BY <1>4, <1>5, <1>6 DEF OneInv, Single

\* A row that a section adds is the command's own, and no other of its table is traced.
LEMMA OneWhenWritten ==
  ASSUME StoreInv, ValuesAreGiven, OneInv, call' = call, NEW c \in Calls,
         Ready(c) \/ phase[c] = "resuming", \A d \in Calls : Ready(d)' => Ready(d),
         NEW w, LearningWrite(c, w)
  PROVE  OneInv'
<1>1. Sectioned(c, w) /\ Collect(c, memory', w) /\ w \in SUBSET LearningRows
  BY DEF LearningWrite
<1>2. stale' = stale
  BY <1>1 DEF Collect, disturbed
<1>3. \A r \in Rows :
        /\ r \in w => Copies(r)' \subseteq Copies(r) \cup {memory'[r]}
        /\ r \notin w => memory'[r] = memory[r] /\ Copies(r)' \subseteq Copies(r)
  BY <1>1, CopiesOfSection
<1>4. \A r \in Rows : memory[r] \in Copies(r)
  BY DEF Copies
<1>5. memory[Exam] = Absent => memory'[Exam] = Absent
  BY <1>3, OneProjectAndExam DEF LearningWrite
<1>6. ASSUME NEW t \in Single, NEW r \in RowsOf(t)
      PROVE  /\ r \in w => \/ memory'[r] # Absent /\ Appends(c, t, r)
                           \/ /\ t = "submissions" /\ memory'[Exam] = Absent
                              /\ memory'[r] = Absent
             /\ r \in w /\ t = "submissions" /\ memory'[r] # Absent => memory[Exam] # Absent
  BY DEF LearningWrite, RowsOf, Single, CertificateStep, EnrollmentStep, SubmissionStep
<1>7. ASSUME NEW t \in Single PROVE KeptOnce(t)'
  <2> SUFFICES ASSUME NEW r \in RowsOf(t) \ stale, Traced(r)'
               PROVE  /\ memory'[r] # Absent \/ (t = "submissions" /\ memory'[Exam] = Absent)
                      /\ \A q \in RowsOf(t) \ stale : Traced(q)' => q = r
    BY <1>2 DEF KeptOnce, RowsOf
  <2>1. \A q \in RowsOf(t) \ stale :
          /\ q \in Rows
          /\ Traced(q) => /\ memory[q] # Absent \/ (t = "submissions" /\ memory[Exam] = Absent)
                          /\ \A p \in RowsOf(t) \ stale : Traced(p) => p = q
    BY DEF OneInv, KeptOnce, RowsOf
  <2>2. memory'[r] # Absent \/ (t = "submissions" /\ memory'[Exam] = Absent)
    <3>1. CASE r \in w
      BY <1>6, <3>1
    <3>2. CASE r \notin w
      BY <1>3, <1>5, <2>1, <3>2 DEF Traced
    <3>3. QED
      BY <3>1, <3>2
  <2>3. ASSUME NEW q \in RowsOf(t) \ stale, Traced(q)', ~Traced(q)
        PROVE  q = New(t, c) /\ \A p \in RowsOf(t) \ stale : ~Traced(p)
    <3>1. q \in w /\ memory'[q] # Absent /\ memory[q] = Absent
      BY <1>3, <1>4, <2>1, <2>3 DEF Traced
    <3>2. q = New(t, c) /\ In(memory, t) = {} /\ (t = "submissions" => memory[Exam] # Absent)
      BY <1>6, <3>1 DEF Appends
    <3>3. QED
      BY <2>1, <3>2 DEF In
  <2>4. \A q \in RowsOf(t) \ stale : Traced(q)' => q = r
    BY <2>1, <2>3
  <2>5. QED
    BY <2>2, <2>4
<1> DEFINE Sessions == RowsOf("exam_sessions") \ stale
<1>8. ASSUME NEW r \in Sessions
      PROVE  /\ r \in Rows /\ r[1] = "exam_sessions"
             /\ \A v \in Copies(r) : v # Absent => memory[r] # Absent /\ v.attempt = memory[r].attempt
             /\ r \in w => /\ SessionStep(c, r) /\ memory'[r] # Absent
                           /\ \A v \in Copies(r)' : v = Absent \/ v = memory'[r]
  <2>1. /\ r \in Rows /\ r[1] = "exam_sessions"
        /\ \A v \in Copies(r) : v # Absent => memory[r] # Absent /\ v.attempt = memory[r].attempt
    BY DEF OneInv, SessionsDiffer, RowsOf
  <2>2. ASSUME r \in w
        PROVE  /\ SessionStep(c, r) /\ memory'[r] # Absent
               /\ \A v \in Copies(r)' : v = Absent \/ v = memory'[r]
    <3>1. SessionStep(c, r)
      BY <2>1, <2>2 DEF LearningWrite
    <3>2. ~Traced(r)
      BY <2>1, <3>1 DEF OneInv, SessionsToCome, SessionStep
    <3>3. QED
      BY <1>3, <2>1, <2>2, <3>1, <3>2 DEF SessionStep, Traced
  <2>3. QED
    BY <2>1, <2>2
<1>9. SessionsDiffer'
  <2> SUFFICES ASSUME NEW r \in Sessions
               PROVE  /\ \A v \in Copies(r)' : v # Absent =>
                           memory'[r] # Absent /\ v.attempt = memory'[r].attempt
                      /\ \A q \in Sessions :
                           /\ memory'[r] # Absent /\ memory'[q] # Absent
                           /\ memory'[r].attempt = memory'[q].attempt
                           => q = r
    BY <1>2 DEF SessionsDiffer, RowsOf
  <2>1. \A v \in Copies(r)' : v # Absent => memory'[r] # Absent /\ v.attempt = memory'[r].attempt
    BY <1>3, <1>8
  <2>2. ASSUME NEW p \in Sessions, NEW q \in Sessions, p \in w, q \notin w, memory'[q] # Absent
        PROVE  memory'[p].attempt # memory'[q].attempt
    <3>1. SessionStep(c, p) /\ memory'[q] = memory[q] /\ q \in In(memory, "exam_sessions")
      BY <1>3, <1>8, <2>2 DEF In
    <3>2. QED
      BY <3>1 DEF SessionStep
  <2>3. ASSUME NEW q \in Sessions, memory'[r] # Absent, memory'[q] # Absent,
               memory'[r].attempt = memory'[q].attempt
        PROVE  q = r
    <3>1. CASE r \in w /\ q \in w
      BY <1>8, <3>1 DEF SessionStep
    <3>2. CASE r \notin w /\ q \notin w
      <4>1. memory'[r] = memory[r] /\ memory'[q] = memory[q]
        BY <1>3, <1>8, <3>2
      <4>2. QED
        BY <2>3, <4>1 DEF OneInv, SessionsDiffer
    <3>3. QED
      BY <2>2, <2>3, <3>1, <3>2
  <2>4. QED
    BY <2>1, <2>3
<1>10. SessionsToCome'
  <2> SUFFICES ASSUME NEW d \in Calls, Ready(d)', call[d].op = "startQuiz",
                      New("exam_sessions", d) \in Rows \ stale
               PROVE  ~Traced(New("exam_sessions", d))'
    BY <1>2 DEF SessionsToCome, New
  <2> DEFINE r == New("exam_sessions", d)
  <2>1. d # c
    BY <1>1 DEF Collect, Move, Ready, StoreInv, TypeOK, StoreTypeOK
  <2>2. r \in Sessions /\ ~Traced(r)
    BY DEF OneInv, SessionsToCome, RowsOf, New
  <2>3. r \notin w
    BY <1>8, <2>1, <2>2 DEF SessionStep, New
  <2>4. r \in Rows
    OBVIOUS
  <2> HIDE DEF r
  <2>5. ~Traced(r)'
    BY <1>3, <2>2, <2>3, <2>4 DEF Traced
  <2>6. QED
    BY <2>5 DEF r
<1>11. QED
  BY <1>7, <1>9, <1>10 DEF OneInv, Single

LEMMA OneIsStable ==
  ASSUME StoreInv, ValuesAreGiven, OneInv, [CommandsNext]_vars
  PROVE  OneInv'
<1>1. stale \subseteq stale' /\ call' = call /\ \A c \in Calls : Ready(c)' => Ready(c)
  BY NothingIsForgotten
<1>2. ASSUME NEW c \in Calls, Ready(c) \/ phase[c] = "resuming", NEW w, Sectioned(c, w),
             w \in SUBSET OtherRows
      PROVE  OneInv'
  <2>1. \A r \in LearningRows : r \in Rows /\ r \notin w
    BY <1>2 DEF OtherRows, ProjectRows, ProjectTables, PayoutRows, TransactionRows, RowsOf,
                LearningRows, LearningTables
  <2>2. \A r \in LearningRows : memory'[r] = memory[r] /\ Copies(r)' \subseteq Copies(r)
    BY <1>2, <2>1, CopiesOfSection
  <2>3. QED
    BY <1>1, <2>2, OneWhileUntouched
<1>3. ASSUME NEW c \in Calls, Finish(c) PROVE OneInv'
  BY <1>1, <1>3, CopiesOfFinish, OneWhileUntouched DEF LearningRows
<1>4. CASE Silent
  <2>1. /\ \A r \in Rows \ stale' : Copies(r)' \subseteq Copies(r)
        /\ memory' = memory \/ \A r \in Rows \ stale' : \A v \in Copies(r)' : v = memory'[r]
    BY <1>4, CopiesOfSilent
  <2>2. QED
    BY <1>1, <2>1, OneWhileUntouched DEF LearningRows
<1>5. QED
  BY <1>1, <1>2, <1>3, <1>4, OneWhenWritten, StepsOfRows

LEMMA OneInvariant == ASSUME ValuesAreGiven PROVE Spec => []OneInv
<1>1. CommandsInit => OneInv
  <2> SUFFICES ASSUME CommandsInit PROVE OneInv
    OBVIOUS
  <2>1. PICK s \in Scenarios : app = s.rows /\ memory = s.rows /\ StartsWell(s)
    BY ScenariosAreWellFormed DEF CommandsInit, StoreInit
  <2>2. \A r : Copies(r) = {app[r]}
    BY <2>1 DEF CommandsInit, StoreInit, Copies, Pending, InFlight
  <2>3. ASSUME NEW t \in Single PROVE KeptOnce(t)
    <3>1. \A q1, q2 \in In(app, t) : q1 = q2
      BY <2>1 DEF StartsWell, Single
    <3>2. \A r \in RowsOf(t) : Traced(r) => r \in In(app, t)
      BY <2>2 DEF Traced, In
    <3>3. QED
      BY <2>1, <3>1, <3>2 DEF KeptOnce, In
  <2>4. SessionsDiffer
    <3>1. \A q1, q2 \in In(app, "exam_sessions") : app[q1].attempt = app[q2].attempt => q1 = q2
      BY <2>1 DEF StartsWell
    <3>2. QED
      BY <2>1, <2>2, <3>1 DEF SessionsDiffer, In
  <2>5. SessionsToCome
    <3>1. \A c \in Calls : New("exam_sessions", c) \notin In(app, "exam_sessions")
      BY <2>1 DEF StartsWell
    <3>2. QED
      BY <2>2, <3>1 DEF SessionsToCome, Traced, In, RowsOf, New
  <2>6. QED
    BY <2>3, <2>4, <2>5 DEF OneInv
<1>2. StoreInv /\ OneInv /\ [CommandsNext]_vars => OneInv'
  BY OneIsStable
<1>3. QED
  BY <1>1, <1>2, StoreInvariant, PTL DEF Spec

\* Of the rows of one learner a command appends AppRow has one, and one session for an
\* attempt, until a reload puts one back.
THEOREM OneRowOfEach ==
  ASSUME ValuesAreGiven
  PROVE  Spec => []OneOfEach
<1>1. OneInv => OneOfEach
  <2> SUFFICES ASSUME OneInv PROVE OneOfEach
    OBVIOUS
  <2>1. \A r \in Rows : app[r] \in Copies(r)
    BY DEF Copies
  <2>2. ASSUME NEW t \in Single PROVE Cardinality(In(app, t) \ stale) <= 1
    <3> DEFINE S == In(app, t) \ stale
    <3>1. \A r, q \in S : q = r
      BY <2>1 DEF OneInv, KeptOnce, In, RowsOf, Traced
    <3> HIDE DEF S
    <3>2. Cardinality(S) = 0 \/ Cardinality(S) = 1
      <4>1. CASE S = {}
        BY <4>1, FS_EmptySet
      <4>2. ASSUME NEW r \in S PROVE Cardinality(S) = 1
        <5>1. S = {r}
          BY <3>1
        <5>2. QED
          BY <5>1, FS_Singleton
      <4>3. QED
        BY <4>1, <4>2
    <3>3. QED
      BY <3>2 DEF S
  <2>3. ASSUME NEW r \in In(app, "exam_sessions") \ stale,
               NEW q \in In(app, "exam_sessions") \ stale, app[r].attempt = app[q].attempt
        PROVE  r = q
    BY <2>1, <2>3 DEF OneInv, SessionsDiffer, In, RowsOf
  <2>4. QED
    BY <2>2, <2>3 DEF OneOfEach, Single
<1>2. QED
  BY <1>1, OneInvariant, PTL

-----------------------------------------------------------------------------
\* A step as the rows of the learner see it while none of them is in a history: a section
\* of c writes those in w, or the transaction of c (if there is one) commits.
Writes(c, w) ==
  /\ LearningWrite(c, w)
  /\ \A r \in LearningRows :
       /\ app'[r] = app[r] /\ c \notin Pending(r)
       /\ IF r \in w THEN Pending(r)' = Pending(r) \cup {c} /\ batch'[c][r] = memory'[r]
                     ELSE Pending(r)' = Pending(r) /\ memory'[r] = memory[r]
       /\ \A d \in Pending(r) : batch'[d][r] = batch[d][r] /\ d \in ahead'[c]

Commits(c) ==
  \A r \in LearningRows :
    /\ memory'[r] = memory[r] /\ Pending(r)' = Pending(r) \ {c}
    /\ IF c \in Pending(r) THEN app'[r] = batch[c][r] /\ Pending(r) \cap ahead[c] = {}
                           ELSE app'[r] = app[r]
    /\ \A d \in Pending(r)' : batch'[d][r] = batch[d][r]

LearningStep == (\E c \in Calls : \E w : Writes(c, w)) \/ (\E c : Commits(c))

\* The commands that stay in flight stay in their order.
InOrder == \A d, e \in InFlight' : e \in ahead[d] => e \in ahead'[d]

LearningIsClean == \A r \in LearningRows : r \notin Dirty

LEMMA OrderIsKept ==
  ASSUME StoreInv, ValuesAreGiven, [CommandsNext]_vars
  PROVE  InOrder
<1>1. StoreTypeOK /\ OrderInv /\ TypeOK
  BY DEF StoreInv, TypeOK
<1>2. ASSUME NEW c \in Calls, Ready(c) \/ phase[c] = "resuming", NEW w, Sectioned(c, w)
      PROVE  InOrder
  <2>1. CASE Collect(c, memory', w)
    <3>1. ahead'[c] = InFlight /\ \A d \in Calls \ {c} : ahead'[d] = ahead[d]
      BY <1>1, <2>1 DEF Collect, StoreTypeOK
    <3>2. QED
      BY <1>1, <3>1 DEF InOrder, InFlight, OrderInv
  <2>2. CASE Throw(c, memory', w)
    BY <2>2 DEF Throw, InOrder
  <2>3. QED
    BY <1>2, <2>1, <2>2 DEF Sectioned
<1>3. ASSUME NEW c \in Calls, Finish(c) PROVE InOrder
  <2>1. /\ \A d \in Calls : ahead'[d] = IF d = c THEN {} ELSE ahead[d] \ {c}
        /\ c \notin InFlight'
    BY <1>1, <1>3 DEF Finish, Persist, PersistFails, Leave, Move, InFlight, StoreTypeOK
  <2>2. QED
    BY <2>1 DEF InOrder, InFlight
<1>4. CASE Silent
  <2>1. CASE Restart
    BY <2>1 DEF Restart, InOrder, InFlight
  <2>2. CASE ~Restart
    <3>1. ahead' = ahead
      BY <1>4, <2>2 DEF Silent, Pass, Await, Settle, Reload, ReadAppRows, ReadProjection,
                        ResetStore, storeVars
    <3>2. QED
      BY <3>1 DEF InOrder
  <2>3. QED
    BY <2>1, <2>2
<1>5. QED
  BY <1>2, <1>3, <1>4, StepsOfRows

LEMMA LearningSteps ==
  ASSUME StoreInv, ValuesAreGiven, [CommandsNext]_vars, LearningIsClean'
  PROVE  LearningIsClean /\ LearningStep
<1>1. LearningIsClean /\ \A r \in LearningRows : r \in Rows \ Dirty'
  BY NothingIsForgotten DEF LearningIsClean, LearningRows
<1>2. (\A r \in LearningRows : Kept(r)) => \E c : Commits(c)
  <2> SUFFICES ASSUME \A r \in LearningRows : Kept(r) PROVE \E c : Commits(c)
    OBVIOUS
  <2>1. PICK c : c \notin Calls
    BY NoSetContainsEverything
  <2>2. Commits(c)
    BY <2>1 DEF Kept, Commits, Pending, InFlight
  <2>3. QED
    BY <2>2
<1>3. ASSUME NEW c \in Calls, Ready(c) \/ phase[c] = "resuming", NEW w, Sectioned(c, w),
             LearningWrite(c, w)
      PROVE  Writes(c, w)
  <2>1. \A r \in LearningRows : IF r \in w THEN Written(c, r) ELSE Kept(r)
    BY <1>1, <1>3, SectionRows
  <2>2. c \notin InFlight /\ ahead'[c] = InFlight
    BY <1>3 DEF LearningWrite, Collect, InFlight, Ready, StoreInv, TypeOK, StoreTypeOK
  <2>3. \A r \in LearningRows : c \notin Pending(r) /\ Pending(r) \subseteq InFlight
    BY <2>2 DEF Pending
  <2>4. QED
    BY <1>3, <2>1, <2>2, <2>3 DEF Writes, Written, Kept
<1>4. ASSUME NEW c \in Calls, Ready(c) \/ phase[c] = "resuming", NEW w, Sectioned(c, w),
             w \in SUBSET OtherRows
      PROVE  \A r \in LearningRows : Kept(r)
  <2>1. \A r \in LearningRows : r \notin w
    BY <1>4 DEF OtherRows, ProjectRows, ProjectTables, PayoutRows, TransactionRows, RowsOf,
                LearningRows, LearningTables
  <2>2. QED
    BY <1>1, <1>4, <2>1, SectionRows
<1>5. ASSUME NEW c \in Calls, Finish(c) PROVE Commits(c)
  <2>1. \A r \in LearningRows : IF c \in Pending(r) THEN Committed(c, r) ELSE Kept(r)
    BY <1>1, <1>5, FinishRows
  <2>2. QED
    BY <2>1 DEF Committed, Kept, Commits
<1>6. Silent => \A r \in LearningRows : Kept(r)
  BY <1>1, SilentRows
<1>7. QED
  BY <1>1, <1>2, <1>3, <1>4, <1>5, <1>6, StepsOfRows DEF LearningStep

\* No instructor has decided, and no recomputation has issued a certificate.
Undecided == \A k \in RowsOf("certificates") : ~IsFinal(memory[k])

\* Before d commits AppRow shows an enrollment: e writes one, with the certificate that s
\* writes after it, together with the evaluation that d writes after s, or as s.
EnrolledBy(d) ==
  \/ Enrolled(app)
  \/ \E k \in RowsOf("certificates"), r \in EnrollmentRows, s, e \in Calls :
       /\ s \in Pending(Exam) /\ s \in Pending(k) /\ (s = d \/ s \in ahead[d])
       /\ e \in Pending(k) /\ e \in Pending(r) /\ e \in ahead[s]

\* Without an enrollment there is no certificate and no work; work is written with the
\* evaluation; and no enrollment is removed.
Grounded ==
  /\ Enrolled(memory) \/ (In(memory, "certificates") = {} /\ In(memory, "submissions") = {})
  /\ \A q \in RowsOf("submissions") : Pending(q) \subseteq Pending(Exam)
  /\ \A r \in EnrollmentRows : \A d \in Pending(r) : batch[d][r] # Absent

\* Work in AppRow, or in a transaction, is that of a learner whom AppRow shows, at least
\* when the transaction commits.
WorkIsEnrolled ==
  /\ In(app, "submissions") # {} => Enrolled(app)
  /\ \A q \in RowsOf("submissions") : \A d \in Pending(q) : batch[d][q] # Absent => EnrolledBy(d)

\* An enrollment that AppRow does not show yet is written with a certificate, which does
\* not show any work until there is some.
Begun ==
  \E k \in RowsOf("certificates"), r \in EnrollmentRows, e \in Calls :
    /\ e \in Pending(k) /\ e \in Pending(r)
    /\ memory[k] # Absent
    /\ memory[Exam] # Absent /\ In(memory, "submissions") = {}
         => memory[k].seen.exam = "not_submitted"

Starts == Enrolled(memory) => Enrolled(app) \/ Begun

\* AppRow has shown every lesson completed, or a transaction will.
LessonsCome ==
  \/ "lessons" \in earned
  \/ \E r \in EnrollmentRows : \E e \in Pending(r) : batch[e][r].progress = 100

\* Work v passes the evaluation as d leaves it.
WorkPasses(d, v) ==
  /\ batch[d][Exam] # Absent /\ v # Absent
  /\ v.status = "graded" /\ v.grade >= batch[d][Exam].mark

\* So does what AppRow shows as q when d commits: what w leaves, d itself or the last to
\* write q before it, or what AppRow shows already.
PassesWhen(d, q) ==
  \/ \E w \in Pending(q) :
       /\ w = d \/ w \in ahead[d]
       /\ WorkPasses(d, batch[w][q])
       /\ \A z \in Pending(q) : z = w \/ z \in ahead[w] \/ d \in ahead[z]
  \/ WorkPasses(d, app[q]) /\ \A z \in Pending(q) : d \in ahead[z]

\* AppRow has shown the evaluation passed or deleted, or a transaction will.
ExamComes ==
  \/ "exam" \in earned
  \/ memory[Exam] = Absent /\ Enrolled(memory)
  \/ \E d \in Pending(Exam), q \in RowsOf("submissions") : EnrolledBy(d) /\ PassesWhen(d, q)

Promised == "decided" \in earned \/ (LessonsCome /\ ExamComes)

IsIssued(v) == v # Absent /\ v.status = "issued"

\* What is issued, or about to be, was decided or is promised to be shown.
CertificatesPromised ==
  \A k \in RowsOf("certificates") :
    IsIssued(app[k]) \/ (\E d \in Pending(k) : IsIssued(batch[d][k])) => Promised

\* What is promised holds as long as no row of the learner is in a history; what it rests
\* on, as long as no certificate is final.
EarnInv ==
  /\ Shown(app) \subseteq earned
  /\ LearningIsClean =>
       /\ Grounded
       /\ Undecided => WorkIsEnrolled /\ Starts
       /\ CertificatesPromised

\* The tables of the learner's rows.
LEMMA LearnersRows ==
  /\ Exam \in LearningRows
  /\ \A t \in Single : RowsOf(t) \subseteq LearningRows /\ \A r \in RowsOf(t) : r[1] = t
  /\ EnrollmentRows = RowsOf("course_enrollments")
  /\ \A s, t : \A r \in RowsOf(t) : r \in In(s, t) <=> s[r] # Absent
  /\ \A s, t : In(s, t) \subseteq RowsOf(t)
BY OneProjectAndExam DEF LearningRows, LearningTables, RowsOf, Single, Exam, EnrollmentRows, In

LEMMA GroundedStays ==
  ASSUME Grounded, LearningStep
  PROVE  Grounded' /\ (Enrolled(memory) => Enrolled(memory'))
<1>1. ASSUME NEW c \in Calls, NEW w, Writes(c, w)
      PROVE  Grounded' /\ (Enrolled(memory) => Enrolled(memory'))
  <2>1. LearningWrite(c, w) /\ EarnsWith(c, w)
    BY <1>1 DEF Writes, LearningWrite
  <2>2. \A r \in EnrollmentRows : r \in w => memory'[r] # Absent
    BY <2>1, LearnersRows DEF LearningWrite, EnrollmentStep, Single
  <2>3. Enrolled(memory) => Enrolled(memory')
    <3>1. \A r \in EnrollmentRows : memory[r] # Absent => memory'[r] # Absent
      BY <1>1, <2>2, LearnersRows DEF Writes, Single
    <3>2. QED
      BY <3>1, LearnersRows DEF Enrolled
  <2>4. ASSUME ~Enrolled(memory')
        PROVE  In(memory', "certificates") = {} /\ In(memory', "submissions") = {}
    <3>1. In(memory, "certificates") = {} /\ In(memory, "submissions") = {} /\ ~Enrolled(memory)
      BY <2>3, <2>4 DEF Grounded
    <3>2. \A k \in RowsOf("certificates") : k \notin w
      BY <2>1, <2>4, <3>1, LearnersRows DEF EarnsWith, Single
    <3>3. \A q \in RowsOf("submissions") : q \in w => memory'[q] = Absent
      BY <2>1, <3>1, LearnersRows DEF EarnsWith, Single
    <3>4. \A r \in RowsOf("certificates") \cup RowsOf("submissions") : memory'[r] = Absent
      BY <1>1, <3>1, <3>2, <3>3, LearnersRows DEF Writes, Single
    <3>5. QED
      BY <3>4, LearnersRows
  <2>5. \A q \in RowsOf("submissions") : Pending(q)' \subseteq Pending(Exam)'
    <3>1. \A q \in RowsOf("submissions") : q \in w => Exam \in w
      BY <2>1, LearnersRows DEF EarnsWith, Single
    <3>2. QED
      BY <1>1, <3>1, LearnersRows DEF Writes, Single, Grounded
  <2>6. \A r \in EnrollmentRows : \A d \in Pending(r)' : batch'[d][r] # Absent
    BY <1>1, <2>2, LearnersRows DEF Writes, Single, Grounded
  <2>7. QED
    BY <2>3, <2>4, <2>5, <2>6 DEF Grounded, EnrollmentRows, RowsOf
<1>2. ASSUME NEW c, Commits(c)
      PROVE  Grounded' /\ (Enrolled(memory) => Enrolled(memory'))
  <2>1. \A t \in Single : In(memory', t) = In(memory, t)
    BY <1>2, LearnersRows DEF Commits, In
  <2>2. \A q \in RowsOf("submissions") : Pending(q)' \subseteq Pending(Exam)'
    BY <1>2, LearnersRows DEF Commits, Single, Grounded
  <2>3. \A r \in EnrollmentRows : \A d \in Pending(r)' : batch'[d][r] # Absent
    BY <1>2, LearnersRows DEF Commits, Single, Grounded
  <2>4. QED
    BY <2>1, <2>2, <2>3 DEF Grounded, Enrolled, Single, EnrollmentRows, RowsOf
<1>3. QED
  BY <1>1, <1>2 DEF LearningStep

\* AppRow loses no enrollment, and what precedes a command in flight goes on to precede it.
LEMMA EnrolledByStays ==
  ASSUME Grounded, InOrder, LearningStep
  PROVE  /\ Enrolled(app) => Enrolled(app')
         /\ \A d \in InFlight \cap InFlight' : EnrolledBy(d) => EnrolledBy(d)'
<1>1. \A r : Pending(r)' \subseteq InFlight'
  BY DEF Pending
<1>2. ASSUME NEW c \in Calls, NEW w, Writes(c, w)
      PROVE  /\ Enrolled(app) => Enrolled(app')
             /\ \A d \in InFlight \cap InFlight' : EnrolledBy(d) => EnrolledBy(d)'
  <2>1. Enrolled(app) => Enrolled(app')
    BY <1>2, LearnersRows DEF Writes, Enrolled, Single
  <2>2. \A r \in LearningRows : Pending(r) \subseteq Pending(r)'
    BY <1>2 DEF Writes
  <2>3. ASSUME NEW d \in InFlight \cap InFlight', EnrolledBy(d), ~Enrolled(app)
        PROVE  EnrolledBy(d)'
    <3>1. PICK k \in RowsOf("certificates"), r \in EnrollmentRows, s \in Calls, e \in Calls :
            /\ s \in Pending(Exam) /\ s \in Pending(k) /\ (s = d \/ s \in ahead[d])
            /\ e \in Pending(k) /\ e \in Pending(r) /\ e \in ahead[s]
      BY <2>3 DEF EnrolledBy
    <3>2. /\ s \in Pending(Exam)' /\ s \in Pending(k)'
          /\ e \in Pending(k)' /\ e \in Pending(r)'
      BY <2>2, <3>1, LearnersRows DEF Single
    <3>3. s \in InFlight' /\ e \in InFlight'
      BY <1>1, <3>2
    <3>4. (s = d \/ s \in ahead'[d]) /\ e \in ahead'[s]
      BY <2>3, <3>1, <3>3 DEF InOrder
    <3>5. QED
      BY <3>1, <3>2, <3>4 DEF EnrolledBy, RowsOf, EnrollmentRows
  <2>4. QED
    BY <2>1, <2>3 DEF EnrolledBy
<1>3. ASSUME NEW c, Commits(c)
      PROVE  /\ Enrolled(app) => Enrolled(app')
             /\ \A d \in InFlight \cap InFlight' : EnrolledBy(d) => EnrolledBy(d)'
  <2>1. \A r \in EnrollmentRows :
          /\ app[r] # Absent \/ c \in Pending(r) => app'[r] # Absent
          /\ r \in LearningRows
    BY <1>3, LearnersRows DEF Commits, Single, Grounded
  <2>2. Enrolled(app) => Enrolled(app')
    BY <2>1, LearnersRows DEF Enrolled
  <2>3. ASSUME NEW d \in InFlight \cap InFlight', EnrolledBy(d), ~Enrolled(app')
        PROVE  EnrolledBy(d)'
    <3>1. PICK k \in RowsOf("certificates"), r \in EnrollmentRows, s \in Calls, e \in Calls :
            /\ s \in Pending(Exam) /\ s \in Pending(k) /\ (s = d \/ s \in ahead[d])
            /\ e \in Pending(k) /\ e \in Pending(r) /\ e \in ahead[s]
      BY <2>2, <2>3 DEF EnrolledBy
    <3>2. e # c
      BY <2>1, <2>3, <3>1, LearnersRows DEF Enrolled
    <3>3. s # c
      BY <1>3, <3>1, LearnersRows DEF Commits, Single
    <3>4. /\ s \in Pending(Exam)' /\ s \in Pending(k)'
          /\ e \in Pending(k)' /\ e \in Pending(r)'
      BY <1>3, <3>1, <3>2, <3>3, LearnersRows DEF Commits, Single
    <3>5. s \in InFlight' /\ e \in InFlight'
      BY <1>1, <3>4
    <3>6. (s = d \/ s \in ahead'[d]) /\ e \in ahead'[s]
      BY <2>3, <3>1, <3>5 DEF InOrder
    <3>7. QED
      BY <3>1, <3>4, <3>6 DEF EnrolledBy, RowsOf, EnrollmentRows
  <2>4. QED
    BY <2>2, <2>3 DEF EnrolledBy
<1>4. QED
  BY <1>2, <1>3 DEF LearningStep

\* What the requirements and the certificate say of work.
LEMMA NothingSubmitted ==
  ASSUME NEW s, s[Exam] # Absent, In(s, "submissions") = {}
  PROVE  ExamRequirement(s) = "not_submitted"
BY DEF ExamRequirement

LEMMA SomethingSubmitted ==
  ASSUME NEW s, NEW q \in In(s, "submissions"),
         s[q].status \in {"pending", "graded", "resubmit"}
  PROVE  ExamRequirement(s) # "not_submitted"
<1> DEFINE graded == {r \in In(s, "submissions") : s[r].status = "graded"}
           passes == \E r \in graded : s[r].grade >= s[Exam].mark
<1>1. s[q].status = "graded" => graded # {}
  OBVIOUS
<1>2. ExamRequirement(s) =
        CASE s[Exam] = Absent -> "none"
          [] s[Exam] # Absent /\ passes -> "passed"
          [] OTHER -> IF \E r \in In(s, "submissions") : s[r].status = "resubmit" THEN "resubmit"
                      ELSE IF \E r \in In(s, "submissions") : s[r].status = "pending"
                           THEN "pending_review"
                      ELSE IF graded # {} THEN "failed" ELSE "not_submitted"
  BY DEF ExamRequirement
<1> HIDE DEF graded, passes
<1>3. QED
  BY <1>1, <1>2

LEMMA ComputedIsShown ==
  ASSUME ValuesAreGiven, NEW s, NEW k \in RowsOf("certificates")
  PROVE  /\ Computed(s) # Absent /\ Computed(s).seen.exam = ExamRequirement(s)
         /\ Computed(s).status = IF Met(Required(s)) THEN "issued" ELSE "in_progress"
<1>1. Computed(s) \in CertificateValues
  BY RequirementsAreKnown DEF Computed, CertificateValues
<1>2. CertificateValues \subseteq Values
  BY ValuesByTable DEF ValuesAreGiven, RowsOf
<1>3. QED
  BY <1>1, <1>2 DEF Computed, Required

LEMMA UndecidedBefore ==
  ASSUME Undecided', LearningStep
  PROVE  Undecided
<1> SUFFICES ASSUME NEW k \in RowsOf("certificates"), IsFinal(memory[k])
             PROVE  IsFinal(memory'[k])
  BY DEF Undecided, RowsOf
<1>1. k \in LearningRows /\ k[1] = "certificates"
  BY LearnersRows DEF Single
<1>2. ASSUME NEW c \in Calls, NEW w, Writes(c, w) PROVE IsFinal(memory'[k])
  BY <1>1, <1>2 DEF Writes, LearningWrite, CertificateStep
<1>3. ASSUME NEW c, Commits(c) PROVE IsFinal(memory'[k])
  BY <1>1, <1>3 DEF Commits
<1>4. QED
  BY <1>2, <1>3 DEF LearningStep

\* The store has one certificate, the one a section finds.
LEMMA OneCertificate ==
  ASSUME OneInv, LearningIsClean, NEW k \in RowsOf("certificates"), memory[k] # Absent
  PROVE  /\ In(memory, "certificates") # {} /\ Find(memory, "certificates") = k
         /\ \A q \in RowsOf("certificates") : q # k => memory[q] = Absent
<1>1. ASSUME NEW q \in RowsOf("certificates"), memory[q] # Absent PROVE q = k
  <2>1. q \notin stale /\ k \notin stale
    BY LearnersRows DEF LearningIsClean, Dirty, Single
  <2>2. Traced(q) /\ Traced(k)
    BY <1>1 DEF Traced, Copies
  <2>3. QED
    BY <2>1, <2>2 DEF OneInv, KeptOnce, Single
<1>2. k \in In(memory, "certificates")
  BY DEF In
<1>3. Find(memory, "certificates") \in In(memory, "certificates")
  BY <1>2, Found
<1>4. QED
  BY <1>1, <1>2, <1>3 DEF In

\* Once the transaction of c commits, the enrollment it comes after is in AppRow.
LEMMA EnrolledOnCommit ==
  ASSUME Grounded, InOrder, NEW c, Commits(c), c \in Pending(Exam), EnrolledBy(c)
  PROVE  Enrolled(app')
<1>1. Enrolled(app) => Enrolled(app')
  BY EnrolledByStays DEF LearningStep
<1>2. ASSUME NEW k \in RowsOf("certificates"), NEW s, NEW e,
             s \in Pending(Exam), s \in Pending(k), s = c \/ s \in ahead[c],
             e \in Pending(k), e \in ahead[s]
      PROVE  FALSE
  <2>1. Pending(Exam) \cap ahead[c] = {}
    BY LearnersRows DEF Commits
  <2>2. s = c /\ k \in LearningRows
    BY <1>2, <2>1, LearnersRows DEF Single
  <2>3. Pending(k) \cap ahead[c] = {}
    BY <1>2, <2>2 DEF Commits
  <2>4. QED
    BY <1>2, <2>2, <2>3
<1>3. QED
  BY <1>1, <1>2 DEF EnrolledBy

\* Who hands in work, or corrects it, writes it after an enrollment.
LEMMA WriterIsEnrolled ==
  ASSUME StoreInv, OneInv, ValuesAreGiven, LearningIsClean, InOrder,
         Grounded, Undecided, WorkIsEnrolled, Starts,
         NEW c \in Calls, NEW w, Writes(c, w),
         NEW q \in RowsOf("submissions"), q \in w, memory'[q] # Absent
  PROVE  EnrolledBy(c)'
<1>1. /\ LearningWrite(c, w) /\ EarnsWith(c, w) /\ Holds(memory', Rows)
      /\ q \in LearningRows /\ q \in Rows /\ q[1] = "submissions"
  BY LearnersRows DEF Writes, LearningWrite, Sectioned, Single, RowsOf
<1>2. /\ Exam \in w /\ Recomputed(c) /\ memory[Exam] # Absent
      /\ Enrolled(memory) \/ In(memory, "submissions") # {}
  BY <1>1 DEF EarnsWith, LearningWrite, SubmissionStep
<1>3. /\ Enrolled(memory) /\ Enrolled(memory') /\ (Enrolled(app) => Enrolled(app'))
      /\ \A d \in InFlight \cap InFlight' : EnrolledBy(d) => EnrolledBy(d)'
  BY <1>2, GroundedStays, EnrolledByStays DEF LearningStep, Grounded
<1>4. c \in Pending(Exam)' /\ Pending(Exam)' = Pending(Exam) \cup {c}
  BY <1>2, LearnersRows DEF Writes
<1>5. ASSUME In(memory, "submissions") = {}, ~Enrolled(app)
      PROVE  EnrolledBy(c)'
  <2>1. PICK k \in RowsOf("certificates"), r \in EnrollmentRows, e \in Calls :
          /\ e \in Pending(k) /\ e \in Pending(r) /\ memory[k] # Absent
          /\ memory[k].seen.exam = "not_submitted"
    BY <1>2, <1>3, <1>5 DEF Starts, Begun
  <2>2. ~IsFinal(memory[k]) /\ Find(memory, "certificates") = k /\ In(memory, "certificates") # {}
    BY <2>1, OneCertificate DEF Undecided
  <2>3. memory'[k] = Computed(memory')
    BY <1>2, <1>3, <2>2 DEF Recomputed
  <2>4. memory'[q] \in SubmissionValues /\ q \in In(memory', "submissions")
    BY <1>1, ValuesByTable DEF Holds, In
  <2>5. memory'[k] # memory[k]
    BY <2>1, <2>3, <2>4, SomethingSubmitted, ComputedIsShown DEF SubmissionValues
  <2>6. k \in w /\ k \in LearningRows
    BY <2>5, LearnersRows DEF Writes, Single
  <2>7. c \in Pending(k)' /\ e \in Pending(k)' /\ e \in Pending(r)' /\ e \in ahead'[c]
    BY <2>1, <2>6, LearnersRows DEF Writes, Single
  <2>8. QED
    BY <1>4, <2>7 DEF EnrolledBy, RowsOf, EnrollmentRows
<1>6. ASSUME NEW p \in In(memory, "submissions"), ~Enrolled(app)
      PROVE  EnrolledBy(c)'
  <2>1. p \in RowsOf("submissions") /\ p \in Rows \ Dirty /\ memory[p] # Absent
    BY <1>6, LearnersRows DEF In, LearningIsClean, Single, RowsOf
  <2>2. Current(p)
    BY <2>1 DEF StoreInv, AgreeInv
  <2>3. app[p] = Absent
    BY <1>6, <2>1 DEF WorkIsEnrolled, In
  <2>4. PICK d \in Pending(p) : batch[d][p] # Absent
    BY <2>1, <2>2, <2>3 DEF Current
  <2>5. EnrolledBy(d) /\ d \in Pending(Exam) /\ d \in InFlight
    BY <2>1, <2>4 DEF WorkIsEnrolled, Grounded, Pending
  <2>6. d \in InFlight'
    BY <1>4, <2>5 DEF Pending
  <2>7. EnrolledBy(d)'
    BY <1>3, <2>5, <2>6
  <2>8. \A s \in Pending(Exam)' : s = c \/ s \in ahead'[c]
    BY <1>4, LearnersRows DEF Writes
  <2>9. QED
    BY <2>7, <2>8 DEF EnrolledBy
<1>7. QED
  BY <1>3, <1>5, <1>6 DEF EnrolledBy

LEMMA WorkStays ==
  ASSUME StoreInv, OneInv, ValuesAreGiven, LearningIsClean, InOrder,
         Grounded, Undecided, WorkIsEnrolled, Starts,
         LearningStep
  PROVE  WorkIsEnrolled'
<1>1. /\ Enrolled(app) => Enrolled(app')
      /\ \A d \in InFlight \cap InFlight' : EnrolledBy(d) => EnrolledBy(d)'
  BY EnrolledByStays
<1>2. \A q \in RowsOf("submissions") : q \in LearningRows
  BY LearnersRows DEF Single
<1>3. ASSUME NEW c \in Calls, NEW w, Writes(c, w) PROVE WorkIsEnrolled'
  <2>1. In(app', "submissions") # {} => Enrolled(app')
    BY <1>1, <1>2, <1>3, LearnersRows DEF Writes, WorkIsEnrolled, In
  <2>2. ASSUME NEW q \in RowsOf("submissions"), NEW d \in Pending(q)', batch'[d][q] # Absent
        PROVE  EnrolledBy(d)'
    <3>1. CASE d \in Pending(q)
      <4>1. batch[d][q] # Absent /\ d \in InFlight \cap InFlight'
        BY <1>2, <1>3, <2>2, <3>1 DEF Writes, Pending
      <4>2. QED
        BY <1>1, <3>1, <4>1 DEF WorkIsEnrolled
    <3>2. CASE d \notin Pending(q)
      <4>1. d = c /\ q \in w /\ memory'[q] # Absent
        BY <1>2, <1>3, <2>2, <3>2 DEF Writes
      <4>2. QED
        BY <1>3, <4>1, WriterIsEnrolled
    <3>3. QED
      BY <3>1, <3>2
  <2>3. QED
    BY <2>1, <2>2 DEF WorkIsEnrolled, RowsOf
<1>4. ASSUME NEW c, Commits(c) PROVE WorkIsEnrolled'
  <2>1. ASSUME NEW q \in RowsOf("submissions"), app'[q] # Absent PROVE Enrolled(app')
    <3>1. CASE c \in Pending(q)
      <4>1. EnrolledBy(c) /\ c \in Pending(Exam)
        BY <1>2, <1>4, <2>1, <3>1 DEF Commits, WorkIsEnrolled, Grounded
      <4>2. QED
        BY <1>4, <4>1, EnrolledOnCommit
    <3>2. CASE c \notin Pending(q)
      BY <1>1, <1>2, <1>4, <2>1, <3>2 DEF Commits, WorkIsEnrolled, In
    <3>3. QED
      BY <3>1, <3>2
  <2>2. ASSUME NEW q \in RowsOf("submissions"), NEW d \in Pending(q)', batch'[d][q] # Absent
        PROVE  EnrolledBy(d)'
    <3>1. d \in Pending(q) /\ batch[d][q] # Absent /\ d \in InFlight \cap InFlight'
      BY <1>2, <1>4, <2>2 DEF Commits, Pending
    <3>2. QED
      BY <1>1, <3>1 DEF WorkIsEnrolled
  <2>3. QED
    BY <2>1, <2>2 DEF WorkIsEnrolled, In, RowsOf
<1>5. QED
  BY <1>3, <1>4 DEF LearningStep

LEMMA StartsStay ==
  ASSUME StoreInv, OneInv, ValuesAreGiven, LearningIsClean, InOrder,
         Grounded, Undecided, Starts, Undecided',
         LearningStep
  PROVE  Starts'
<1>1. Enrolled(app) => Enrolled(app')
  BY EnrolledByStays
<1>2. \A t \in Single : \A r \in RowsOf(t) : r \in LearningRows /\ r \in Rows /\ r[1] = t
  BY LearnersRows DEF RowsOf
<1>3. ASSUME NEW c \in Calls, NEW w, Writes(c, w), Enrolled(memory'), ~Enrolled(app')
      PROVE  Begun'
  <2>1. LearningWrite(c, w) /\ EarnsWith(c, w)
    BY <1>3 DEF Writes, LearningWrite
  <2>2. CASE Enrolled(memory)
    <3>1. PICK k \in RowsOf("certificates"), r \in EnrollmentRows, e \in Calls :
            /\ e \in Pending(k) /\ e \in Pending(r) /\ memory[k] # Absent
            /\ memory[Exam] # Absent /\ In(memory, "submissions") = {}
                 => memory[k].seen.exam = "not_submitted"
      BY <1>1, <1>3, <2>2 DEF Starts, Begun
    <3>2. e \in Pending(k)' /\ e \in Pending(r)'
      BY <1>2, <1>3, <3>1, LearnersRows DEF Writes, Single
    <3>3. memory'[k] # Absent
      BY <1>2, <1>3, <2>1, <3>1 DEF Writes, LearningWrite, CertificateStep, Single
    <3>4. ASSUME memory'[Exam] # Absent, In(memory', "submissions") = {}
          PROVE  memory'[k].seen.exam = "not_submitted"
      <4>1. CASE k \in w
        <5>1. ~IsFinal(memory'[k])
          BY DEF Undecided, RowsOf
        <5>2. memory'[k] = Computed(memory')
          BY <1>2, <2>1, <4>1, <5>1 DEF EarnsWith, LearningWrite, CertificateStep, Single
        <5>3. QED
          BY <3>4, <5>2, NothingSubmitted, ComputedIsShown
      <4>2. CASE k \notin w
        <5>1. memory'[k] = memory[k]
          BY <1>2, <1>3, <4>2 DEF Writes, Single
        <5>2. memory[Exam] # Absent
          BY <1>3, <2>1, <3>4, LearnersRows DEF Writes, LearningWrite
        <5>3. ASSUME NEW q \in RowsOf("submissions"), memory[q] # Absent PROVE FALSE
          <6>1. memory'[q] = Absent
            BY <3>4, <5>3 DEF In
          <6>2. q \in w
            BY <1>2, <1>3, <5>3, <6>1 DEF Writes, Single
          <6>3. QED
            BY <1>2, <2>1, <3>4, <5>3, <6>1, <6>2 DEF LearningWrite, SubmissionStep, Single
        <5>4. QED
          BY <3>1, <5>1, <5>2, <5>3 DEF In
      <4>3. QED
        BY <4>1, <4>2
    <3>5. QED
      BY <3>1, <3>2, <3>3, <3>4 DEF Begun, RowsOf, EnrollmentRows
  <2>3. CASE ~Enrolled(memory)
    <3> DEFINE k == New("certificates", c)
    <3>1. PICK r \in EnrollmentRows : memory'[r] # Absent /\ memory[r] = Absent
      BY <1>3, <2>3, LearnersRows DEF Enrolled, In
    <3>2. r \in w /\ r[1] = "course_enrollments"
      BY <1>2, <1>3, <3>1, LearnersRows DEF Writes, Single
    <3>3. Recomputed(c) /\ In(memory, "certificates") = {}
      BY <2>1, <2>3, <3>1, <3>2 DEF EarnsWith, Grounded
    <3>4. k \in RowsOf("certificates")
      <4>1. CallIsWellFormed(c, call[c])
        BY CallsAreWellFormed DEF StoreInv
      <4>2. QED
        BY <4>1 DEF CallIsWellFormed, RowsOf, New
    <3> HIDE DEF k
    <3>5. memory[k] = Absent
      BY <3>3, <3>4 DEF In
    <3>6. memory'[k] = Computed(memory')
      BY <1>3, <3>3, <3>5 DEF Recomputed, IsFinal, k
    <3>7. memory'[k] # Absent /\ memory'[k].seen.exam = ExamRequirement(memory')
      BY <3>4, <3>6, ComputedIsShown
    <3>8. k \in w
      BY <1>2, <1>3, <3>4, <3>5, <3>7 DEF Writes, Single
    <3>9. c \in Pending(k)' /\ c \in Pending(r)'
      BY <1>2, <1>3, <3>2, <3>4, <3>8, LearnersRows DEF Writes, Single
    <3>10. QED
      BY <3>1, <3>4, <3>7, <3>9, NothingSubmitted DEF Begun, RowsOf, EnrollmentRows
  <2>4. QED
    BY <2>2, <2>3
<1>4. ASSUME NEW c, Commits(c), Enrolled(memory'), ~Enrolled(app') PROVE Begun'
  <2>1. /\ \A t \in Single : In(memory', t) = In(memory, t)
        /\ \A r \in LearningRows : memory'[r] = memory[r]
    BY <1>4, LearnersRows DEF Commits, In
  <2>2. PICK k \in RowsOf("certificates"), r \in EnrollmentRows, e \in Calls :
          /\ e \in Pending(k) /\ e \in Pending(r) /\ memory[k] # Absent
          /\ memory[Exam] # Absent /\ In(memory, "submissions") = {}
               => memory[k].seen.exam = "not_submitted"
    BY <1>1, <1>4, <2>1 DEF Starts, Begun, Enrolled, Single
  <2>3. c \notin Pending(r)
    <3>1. c \in Pending(r) => app'[r] # Absent
      BY <1>2, <1>4, LearnersRows DEF Commits, Grounded, Single
    <3>2. QED
      BY <1>4, <3>1, LearnersRows DEF Enrolled
  <2>4. e \in Pending(k)' /\ e \in Pending(r)'
    BY <1>2, <1>4, <2>2, <2>3, LearnersRows DEF Commits, Single
  <2>5. memory'[k] = memory[k] /\ memory'[Exam] = memory[Exam]
    BY <1>2, <2>1, LearnersRows DEF Single
  <2>6. QED
    BY <2>1, <2>2, <2>4, <2>5 DEF Begun, RowsOf, EnrollmentRows, Single
<1>5. QED
  BY <1>3, <1>4 DEF LearningStep, Starts

\* When the rows of a store show what a certificate asks for.
LEMMA LessonsShown ==
  ASSUME NEW s, NEW r \in EnrollmentRows, s[r] # Absent, s[r].progress = 100,
         \A q \in EnrollmentRows : s[q] # Absent => q = r
  PROVE  "lessons" \in Shown(s)
<1>1. r \in In(s, "course_enrollments") /\ In(s, "course_enrollments") \subseteq {r}
  BY LearnersRows
<1>2. Find(s, "course_enrollments") = r
  BY <1>1, Found
<1>3. QED
  BY <1>1, <1>2 DEF Shown, Required

LEMMA ExamShown ==
  ASSUME NEW s, Enrolled(s),
         \/ s[Exam] = Absent
         \/ \E q \in RowsOf("submissions") :
              s[q] # Absent /\ s[q].status = "graded" /\ s[q].grade >= s[Exam].mark
  PROVE  "exam" \in Shown(s)
<1>1. ExamRequirement(s) \in {"none", "passed"}
  BY DEF ExamRequirement, In
<1>2. QED
  BY <1>1 DEF Shown, Required, Enrolled

LEMMA ExamAsks ==
  ASSUME NEW s
  PROVE  /\ ExamRequirement(s) = "none" => s[Exam] = Absent
         /\ ExamRequirement(s) = "passed" => s[Exam] # Absent /\
              \E q \in In(s, "submissions") : s[q].status = "graded" /\ s[q].grade >= s[Exam].mark
<1> DEFINE graded == {r \in In(s, "submissions") : s[r].status = "graded"}
           passes == \E r \in graded : s[r].grade >= s[Exam].mark
<1>1. ExamRequirement(s) =
        CASE s[Exam] = Absent -> "none"
          [] s[Exam] # Absent /\ passes -> "passed"
          [] OTHER -> IF \E r \in In(s, "submissions") : s[r].status = "resubmit" THEN "resubmit"
                      ELSE IF \E r \in In(s, "submissions") : s[r].status = "pending"
                           THEN "pending_review"
                      ELSE IF graded # {} THEN "failed" ELSE "not_submitted"
  BY DEF ExamRequirement
<1>2. passes => \E q \in In(s, "submissions") : s[q].status = "graded" /\ s[q].grade >= s[Exam].mark
  OBVIOUS
<1> HIDE DEF graded, passes
<1>3. QED
  BY <1>1, <1>2

LEMMA OneEnrollmentNext ==
  ASSUME OneInv', LearningIsClean'
  PROVE  \A r, q \in EnrollmentRows : app'[r] # Absent /\ app'[q] # Absent => q = r
<1> SUFFICES ASSUME NEW r \in EnrollmentRows, NEW q \in EnrollmentRows,
                    app'[r] # Absent, app'[q] # Absent
             PROVE  q = r
  OBVIOUS
<1>1. /\ r \in RowsOf("course_enrollments") /\ q \in RowsOf("course_enrollments")
      /\ r \notin stale' /\ q \notin stale'
  BY LearnersRows DEF LearningIsClean, Dirty, Single
<1>2. Traced(r)' /\ Traced(q)'
  BY DEF Traced, Copies
<1>3. QED
  BY <1>1, <1>2 DEF OneInv, KeptOnce, Single, RowsOf

LEMMA LessonsStillCome ==
  ASSUME OneInv', LearningIsClean', Grounded, LessonsCome,
         earned \subseteq earned', Shown(app') \subseteq earned',
         LearningStep
  PROVE  LessonsCome'
<1> SUFFICES ASSUME NEW r \in EnrollmentRows, NEW e \in Pending(r), batch[e][r].progress = 100
             PROVE  LessonsCome'
  BY DEF LessonsCome
<1>1. r \in LearningRows /\ batch[e][r] # Absent
  BY LearnersRows DEF Single, Grounded
<1>2. CASE e \in Pending(r)' /\ batch'[e][r] = batch[e][r]
  BY <1>2 DEF LessonsCome, EnrollmentRows, RowsOf
<1>3. CASE app'[r] = batch[e][r]
  BY <1>1, <1>3, OneEnrollmentNext, LessonsShown DEF LessonsCome
<1>4. QED
  BY <1>1, <1>2, <1>3 DEF LearningStep, Writes, Commits

LEMMA ExamStillComes ==
  ASSUME StoreInv, Grounded, InOrder, ExamComes,
         earned \subseteq earned', Shown(app') \subseteq earned',
         LearningStep
  PROVE  ExamComes'
<1>1. CASE "exam" \in earned
  BY <1>1 DEF ExamComes
<1>2. CASE memory[Exam] = Absent /\ Enrolled(memory)
  <2>1. memory'[Exam] = Absent
    BY <1>2, LearnersRows DEF LearningStep, Writes, LearningWrite, Commits
  <2>2. QED
    BY <1>2, <2>1, GroundedStays DEF ExamComes
<1>3. ASSUME NEW d \in Pending(Exam), NEW q \in RowsOf("submissions"),
             EnrolledBy(d), PassesWhen(d, q)
      PROVE  ExamComes'
  <2>1. /\ Exam \in LearningRows /\ q \in LearningRows /\ Pending(q) \subseteq Pending(Exam)
        /\ Pending(Exam) \subseteq InFlight /\ Pending(q)' \subseteq InFlight'
        /\ Pending(Exam)' \subseteq InFlight' /\ d \notin ahead[d]
    BY LearnersRows DEF Single, Grounded, Pending, StoreInv, OrderInv, InFlight
  <2>2. ASSUME d \in Pending(Exam)', PassesWhen(d, q)' PROVE ExamComes'
    <3>1. EnrolledBy(d)'
      BY <1>3, <2>1, <2>2, EnrolledByStays
    <3>2. QED
      BY <2>2, <3>1 DEF ExamComes, RowsOf
  <2>3. ASSUME NEW c \in Calls, NEW v, Writes(c, v) PROVE ExamComes'
    <3>1. /\ d \in Pending(Exam)' /\ batch'[d][Exam] = batch[d][Exam] /\ app'[q] = app[q]
          /\ \A z \in Pending(q) : z \in Pending(q)' /\ batch'[z][q] = batch[z][q]
          /\ \A z \in Pending(q)' \ Pending(q) : d \in ahead'[z]
      BY <2>1, <2>3 DEF Writes
    <3>2. \A z \in Pending(q) : d \in ahead[z] => d \in ahead'[z]
      BY <2>1, <3>1 DEF InOrder
    <3>3. ASSUME NEW w \in Pending(q), w = d \/ w \in ahead[d], WorkPasses(d, batch[w][q]),
                 \A z \in Pending(q) : z = w \/ z \in ahead[w] \/ d \in ahead[z]
          PROVE  PassesWhen(d, q)'
      <4>1. w \in Pending(q)' /\ (w = d \/ w \in ahead'[d])
        BY <2>1, <3>1, <3>3 DEF InOrder
      <4>2. WorkPasses(d, batch[w][q])'
        BY <3>1, <3>3 DEF WorkPasses
      <4>3. \A z \in Pending(q)' : z = w \/ z \in ahead'[w] \/ d \in ahead'[z]
        BY <2>1, <3>1, <3>2, <3>3 DEF InOrder
      <4>4. QED
        BY <4>1, <4>2, <4>3 DEF PassesWhen
    <3>4. ASSUME WorkPasses(d, app[q]), \A z \in Pending(q) : d \in ahead[z]
          PROVE  PassesWhen(d, q)'
      <4>1. WorkPasses(d, app[q])'
        BY <3>1, <3>4 DEF WorkPasses
      <4>2. QED
        BY <3>1, <3>2, <3>4, <4>1 DEF PassesWhen
    <3>5. QED
      BY <1>3, <2>2, <3>1, <3>3, <3>4 DEF PassesWhen
  <2>4. ASSUME NEW c, Commits(c), c # d PROVE ExamComes'
    <3>1. /\ d \in Pending(Exam)' /\ batch'[d][Exam] = batch[d][Exam]
          /\ Pending(q)' = Pending(q) \ {c}
          /\ \A z \in Pending(q)' : batch'[z][q] = batch[z][q]
      BY <2>1, <2>4 DEF Commits
    <3>2. \A z \in Pending(q)' : d \in ahead[z] => d \in ahead'[z]
      BY <2>1, <3>1 DEF InOrder
    <3>3. ASSUME NEW w \in Pending(q), w = d \/ w \in ahead[d], WorkPasses(d, batch[w][q]),
                 \A z \in Pending(q) : z = w \/ z \in ahead[w] \/ d \in ahead[z]
          PROVE  PassesWhen(d, q)'
      <4>1. CASE w = c
        <5>1. app'[q] = batch[w][q] /\ Pending(q) \cap ahead[w] = {}
          BY <2>1, <2>4, <4>1 DEF Commits
        <5>2. WorkPasses(d, app[q])'
          BY <3>1, <3>3, <5>1 DEF WorkPasses
        <5>3. \A z \in Pending(q)' : d \in ahead'[z]
          BY <3>1, <3>2, <3>3, <4>1, <5>1
        <5>4. QED
          BY <5>2, <5>3 DEF PassesWhen
      <4>2. CASE w # c
        <5>1. w \in Pending(q)' /\ (w = d \/ w \in ahead'[d])
          BY <2>1, <3>1, <3>3, <4>2 DEF InOrder
        <5>2. WorkPasses(d, batch[w][q])'
          BY <3>1, <3>3, <5>1 DEF WorkPasses
        <5>3. \A z \in Pending(q)' : z = w \/ z \in ahead'[w] \/ d \in ahead'[z]
          BY <2>1, <3>1, <3>2, <3>3, <5>1 DEF InOrder
        <5>4. QED
          BY <5>1, <5>2, <5>3 DEF PassesWhen
      <4>3. QED
        BY <4>1, <4>2
    <3>4. ASSUME WorkPasses(d, app[q]), \A z \in Pending(q) : d \in ahead[z]
          PROVE  PassesWhen(d, q)'
      <4>1. app'[q] = app[q]
        BY <2>1, <2>4, <3>4 DEF Commits
      <4>2. WorkPasses(d, app[q])'
        BY <3>1, <3>4, <4>1 DEF WorkPasses
      <4>3. QED
        BY <3>1, <3>2, <3>4, <4>2 DEF PassesWhen
    <3>5. QED
      BY <1>3, <2>2, <3>1, <3>3, <3>4 DEF PassesWhen
  <2>5. ASSUME Commits(d) PROVE ExamComes'
    <3>1. Enrolled(app')
      BY <1>3, <2>5, EnrolledOnCommit
    <3>2. app'[Exam] = batch[d][Exam] /\ Pending(Exam) \cap ahead[d] = {}
      BY <2>1, <2>5 DEF Commits
    <3>3. WorkPasses(d, app'[q])
      <4>1. CASE d \in Pending(q)
        <5>1. WorkPasses(d, batch[d][q])
          BY <1>3, <2>1, <3>2, <4>1 DEF PassesWhen
        <5>2. QED
          BY <2>1, <2>5, <4>1, <5>1 DEF Commits
      <4>2. CASE d \notin Pending(q)
        <5>1. WorkPasses(d, app[q])
          BY <1>3, <2>1, <3>2, <4>2 DEF PassesWhen
        <5>2. QED
          BY <2>1, <2>5, <4>2, <5>1 DEF Commits
      <4>3. QED
        BY <4>1, <4>2
    <3>4. "exam" \in Shown(app')
      BY <3>1, <3>2, <3>3, ExamShown DEF WorkPasses
    <3>5. QED
      BY <3>4 DEF ExamComes
  <2>6. QED
    BY <2>3, <2>4, <2>5 DEF LearningStep
<1>4. QED
  BY <1>1, <1>2, <1>3 DEF ExamComes

\* A certificate that a recomputation issues rests on rows that AppRow has shown, or that
\* transactions in flight will show.
LEMMA IssueEarns ==
  ASSUME StoreInv, StoreInv', OneInv, OneInv', ValuesAreGiven, LearningIsClean, LearningIsClean',
         InOrder, Grounded, Grounded', Undecided => WorkIsEnrolled /\ Starts,
         Shown(app') \subseteq earned',
         NEW c \in Calls, NEW w, Writes(c, w), ~Instructed(c),
         NEW k \in RowsOf("certificates"), k \in w, IsIssued(memory'[k])
  PROVE  LessonsCome' /\ ExamComes'
<1>1. /\ LearningWrite(c, w) /\ EarnsWith(c, w) /\ CertificateStep(c, k)
      /\ k[1] = "certificates" /\ k \in Rows
  BY LearnersRows DEF Writes, LearningWrite, Single, RowsOf
<1>2. Undecided
  <2>1. CASE memory[k] = Absent
    BY <1>1, <2>1 DEF CertificateStep, Appends, In, Undecided, IsFinal
  <2>2. CASE memory[k] # Absent
    BY <1>1, <2>2, OneCertificate DEF CertificateStep, Undecided, IsFinal
  <2>3. QED
    BY <2>1, <2>2
<1>3. WorkIsEnrolled'
  BY <1>2, WorkStays DEF LearningStep
<1>4. Enrolled(memory') /\ memory'[k] = Computed(memory')
  BY <1>1 DEF EarnsWith
<1>5. /\ memory'[Find(memory', "course_enrollments")].progress = 100
      /\ ExamRequirement(memory') \in {"none", "passed"}
  <2>1. Met(Required(memory'))
    BY <1>4, ComputedIsShown DEF IsIssued
  <2>2. QED
    BY <2>1 DEF Met, Required
<1>6. \A r \in LearningRows : r \in Rows /\ Current(r)'
  BY DEF LearningRows, LearningIsClean, StoreInv, AgreeInv
<1>7. LessonsCome'
  <2>1. PICK r \in EnrollmentRows : memory'[r] # Absent /\ memory'[r].progress = 100
    BY <1>4, <1>5, Found, LearnersRows DEF Enrolled
  <2>2. r \in LearningRows
    BY LearnersRows DEF Single
  <2>3. CASE app'[r] = memory'[r]
    BY <2>1, <2>2, <2>3, OneEnrollmentNext, LessonsShown DEF LessonsCome
  <2>4. ASSUME NEW e \in Pending(r)', batch'[e][r] = memory'[r] PROVE LessonsCome'
    <3>1. batch'[e][r].progress = 100
      BY <2>1, <2>4
    <3>2. QED
      BY <2>1, <2>4, <3>1 DEF LessonsCome, EnrollmentRows, RowsOf
  <2>5. Current(r)'
    BY <1>6, <2>2
  <2>6. QED
    BY <2>3, <2>4, <2>5 DEF Current
<1>8. CASE memory'[Exam] = Absent
  BY <1>4, <1>7, <1>8 DEF ExamComes
<1>9. ASSUME memory'[Exam] # Absent PROVE ExamComes'
  <2>1. PICK q \in RowsOf("submissions") :
          /\ memory'[q] # Absent /\ memory'[q].status = "graded"
          /\ memory'[q].grade >= memory'[Exam].mark
    BY <1>5, <1>9, ExamAsks DEF In
  <2>2. /\ Current(q)' /\ Current(Exam)' /\ Pending(q)' \subseteq Pending(Exam)'
    BY <1>6, <2>1, LearnersRows DEF Single, Grounded, RowsOf
  <2>3. CASE Pending(Exam)' = {}
    <3>1. app'[Exam] = memory'[Exam] /\ app'[q] = memory'[q]
      BY <2>2, <2>3 DEF Current
    <3>2. Enrolled(app')
      BY <1>3, <2>1, <3>1 DEF WorkIsEnrolled, In, RowsOf
    <3>3. "exam" \in Shown(app')
      BY <2>1, <3>1, <3>2, ExamShown
    <3>4. QED
      BY <3>3 DEF ExamComes
  <2>4. ASSUME NEW d \in Pending(Exam)', batch'[d][Exam] = memory'[Exam],
               Pending(Exam)' \ {d} \subseteq ahead'[d]
        PROVE  ExamComes'
    <3>1. WorkPasses(d, memory[q])'
      BY <1>9, <2>1, <2>4 DEF WorkPasses
    <3>2. CASE Pending(q)' = {}
      <4>1. app'[q] = memory'[q]
        BY <2>2, <3>2 DEF Current
      <4>2. PassesWhen(d, q)'
        BY <3>1, <3>2, <4>1 DEF PassesWhen, WorkPasses
      <4>3. EnrolledBy(d)'
        BY <1>3, <2>1, <4>1 DEF WorkIsEnrolled, In, RowsOf, EnrolledBy
      <4>4. QED
        BY <2>1, <2>4, <4>2, <4>3 DEF ExamComes, RowsOf
    <3>3. ASSUME NEW z \in Pending(q)', batch'[z][q] = memory'[q],
                 Pending(q)' \ {z} \subseteq ahead'[z]
          PROVE  ExamComes'
      <4>1. z = d \/ z \in ahead'[d]
        BY <2>2, <2>4, <3>3
      <4>2. WorkPasses(d, batch[z][q])'
        BY <3>1, <3>3 DEF WorkPasses
      <4>3. PassesWhen(d, q)'
        BY <3>3, <4>1, <4>2 DEF PassesWhen
      <4>4. EnrolledBy(z)'
        BY <1>3, <2>1, <3>3 DEF WorkIsEnrolled, RowsOf
      <4>5. EnrolledBy(d)'
        <5>1. \A s \in Pending(Exam)' : s = d \/ s \in ahead'[d]
          BY <2>4
        <5>2. QED
          BY <4>4, <5>1 DEF EnrolledBy
      <4>6. QED
        BY <2>1, <2>4, <4>3, <4>5 DEF ExamComes, RowsOf
    <3>4. QED
      BY <2>2, <3>2, <3>3 DEF Current
  <2>5. QED
    BY <2>2, <2>3, <2>4 DEF Current
<1>10. QED
  BY <1>7, <1>8, <1>9

LEMMA PromiseStays ==
  ASSUME StoreInv, StoreInv', OneInv, OneInv', ValuesAreGiven, LearningIsClean, LearningIsClean',
         InOrder, Grounded, Grounded', Undecided => WorkIsEnrolled /\ Starts,
         CertificatesPromised, [CommandsNext]_vars,
         earned \subseteq earned', Shown(app') \subseteq earned',
         LearningStep
  PROVE  CertificatesPromised'
<1>1. Promised => Promised'
  BY LessonsStillCome, ExamStillComes DEF Promised
<1>2. \A k \in RowsOf("certificates") : k \in LearningRows /\ k[1] = "certificates"
  BY LearnersRows DEF Single
<1>3. ASSUME NEW c \in Calls, NEW w, Writes(c, w), NEW k \in RowsOf("certificates"), k \in w,
             IsIssued(memory'[k])
      PROVE  Promised'
  <2>1. CASE ~Instructed(c)
    BY <1>3, <2>1, IssueEarns DEF Promised
  <2>2. CASE Instructed(c)
    <3>1. LearningWrite(c, w) /\ EarnsWith(c, w)
      BY <1>3 DEF Writes, LearningWrite
    <3>2. call[c].op = "issueCertificate"
      BY <1>2, <1>3, <2>2, <3>1 DEF EarnsWith, Instructed, IsIssued
    <3>3. phase'[c] = "persisting"
      BY <3>1 DEF LearningWrite, Collect, Move, StoreInv, TypeOK, StoreTypeOK
    <3>4. ~UNCHANGED storeVars
      <4>1. c \notin Pending(k) /\ c \in Pending(k)'
        BY <1>2, <1>3 DEF Writes
      <4>2. QED
        BY <4>1 DEF Pending, InFlight, storeVars
    <3>5. Observe
      BY <3>4 DEF CommandsNext, vars
    <3>6. QED
      BY <3>2, <3>3, <3>5 DEF Observe, Promised
  <2>3. QED
    BY <2>1, <2>2
<1>4. ASSUME NEW c \in Calls, NEW w, Writes(c, w), NEW k \in RowsOf("certificates"),
             IsIssued(app'[k]) \/ \E d \in Pending(k)' : IsIssued(batch'[d][k])
      PROVE  Promised'
  BY <1>1, <1>2, <1>3, <1>4 DEF Writes, CertificatesPromised
<1>5. ASSUME NEW c, Commits(c), NEW k \in RowsOf("certificates"),
             IsIssued(app'[k]) \/ \E d \in Pending(k)' : IsIssued(batch'[d][k])
      PROVE  Promised'
  BY <1>1, <1>2, <1>5 DEF Commits, CertificatesPromised
<1>6. QED
  BY <1>4, <1>5 DEF LearningStep, CertificatesPromised, RowsOf

LEMMA EarnIsStable ==
  ASSUME StoreInv, StoreInv', OneInv, OneInv', ValuesAreGiven, EarnInv, [CommandsNext]_vars
  PROVE  EarnInv'
<1>1. earned \subseteq earned' /\ Shown(app') \subseteq earned'
  <2>1. CASE CommandsNext
    BY <2>1 DEF CommandsNext, Observe
  <2>2. CASE UNCHANGED vars
    BY <2>2 DEF vars, storeVars, EarnInv, Shown
  <2>3. QED
    BY <2>1, <2>2
<1> SUFFICES ASSUME LearningIsClean'
             PROVE  /\ Grounded'
                    /\ Undecided' => WorkIsEnrolled' /\ Starts'
                    /\ CertificatesPromised'
  BY <1>1 DEF EarnInv
<1>2. /\ LearningIsClean
      /\ LearningStep
  BY LearningSteps
<1>3. /\ InOrder /\ Grounded /\ CertificatesPromised
      /\ Undecided => WorkIsEnrolled /\ Starts
  BY <1>2, OrderIsKept DEF EarnInv
<1>4. Grounded'
  BY <1>2, <1>3, GroundedStays
<1>5. ASSUME Undecided' PROVE WorkIsEnrolled' /\ Starts'
  <2>1. Undecided
    BY <1>2, <1>5, UndecidedBefore
  <2>2. WorkIsEnrolled'
    BY <1>2, <1>3, <2>1, WorkStays
  <2>3. Starts'
    BY <1>2, <1>3, <1>5, <2>1, StartsStay
  <2>4. QED
    BY <2>2, <2>3
<1>6. CertificatesPromised'
  BY <1>1, <1>2, <1>3, <1>4, PromiseStays
<1>7. QED
  BY <1>4, <1>5, <1>6

\* A certificate that AppRow shows as issued was earned, or an instructor delivered it:
\* every lesson and the evaluation were shown there before, though sections compute it from
\* rows whose transactions may still fail or be overtaken.
THEOREM CertificatesAreEarned ==
  ASSUME ValuesAreGiven
  PROVE  Spec => []CertificateIsEarned
<1>1. CommandsInit => EarnInv
  <2> SUFFICES ASSUME CommandsInit PROVE EarnInv
    OBVIOUS
  <2>1. PICK s \in Scenarios : app = s.rows /\ StartsWell(s)
    BY ScenariosAreWellFormed DEF CommandsInit
  <2>2. memory = app /\ earned = Shown(app) /\ \A r : Pending(r) = {}
    BY DEF CommandsInit, StoreInit, Pending, InFlight
  <2>3. /\ Enrolled(app) \/ In(app, "certificates") \cup In(app, "submissions") = {}
        /\ \A k \in In(app, "certificates") :
             app[k].status = "issued" => {"lessons", "exam"} \subseteq Shown(app)
    BY <2>1 DEF StartsWell
  <2>4. Grounded
    BY <2>2, <2>3 DEF Grounded
  <2>5. WorkIsEnrolled /\ Starts
    BY <2>2, <2>3 DEF WorkIsEnrolled, Starts
  <2>6. CertificatesPromised
    BY <2>2, <2>3 DEF CertificatesPromised, IsIssued, In, Promised, LessonsCome, ExamComes
  <2>7. QED
    BY <2>2, <2>4, <2>5, <2>6 DEF EarnInv
<1>2. StoreInv /\ EarnInv => CertificateIsEarned
  <2> SUFFICES ASSUME StoreInv, EarnInv,
                      \A r \in LearningRows : Pending(r) = {} /\ r \notin Dirty,
                      NEW k \in In(app, "certificates"), app[k].status = "issued",
                      "decided" \notin earned
               PROVE  {"lessons", "exam"} \subseteq earned
    BY DEF CertificateIsEarned
  <2>1. LearningIsClean /\ Shown(app) \subseteq earned
    BY DEF LearningIsClean, EarnInv
  <2>2. LessonsCome /\ ExamComes
    BY <2>1 DEF EarnInv, CertificatesPromised, Promised, IsIssued, In
  <2>3. "lessons" \in earned
    BY <2>2, LearnersRows DEF LessonsCome, Single
  <2>4. \A r \in LearningRows : memory[r] = app[r]
    BY DEF StoreInv, AgreeInv, Current, LearningRows
  <2>5. ASSUME memory[Exam] = Absent, Enrolled(memory) PROVE "exam" \in earned
    <3>1. app[Exam] = Absent /\ Enrolled(app)
      BY <2>4, <2>5, LearnersRows DEF Enrolled, Single
    <3>2. QED
      BY <2>1, <3>1, ExamShown
  <2>6. "exam" \in earned
    BY <2>2, <2>5, LearnersRows DEF ExamComes
  <2>7. QED
    BY <2>3, <2>6
<1>3. StoreInv /\ StoreInv' /\ OneInv /\ OneInv' /\ EarnInv /\ [CommandsNext]_vars => EarnInv'
  BY EarnIsStable
<1>4. QED
  BY <1>1, <1>2, <1>3, StoreInvariant, OneInvariant, PTL DEF Spec

-----------------------------------------------------------------------------
\* Which operations the sections of one kind serve.
LEMMA OperationsByKind ==
  ASSUME NEW c
  PROVE  /\ ProjectSection(c) \/ LearningSection(c) =>
              call[c].op \notin {"purchaseCourse", "createPayoutRequest",
                                 "adminUpdatePayoutStatus", "adminRefundTransaction"}
         /\ LearningSection(c) \/ PurchaseSection(c) \/ PaymentSection(c) =>
              call[c].op # "createCommitment"
         /\ PurchaseSection(c) =>
              call[c].op \notin {"adminUpdatePayoutStatus", "adminRefundTransaction"}
         /\ PaymentSection(c) => call[c].op # "purchaseCourse"
<1>1. ASSUME LearningSection(c)
      PROVE  call[c].op \in {"updateCourseProgress", "submitExam", "gradeSubmission",
                             "requestResubmission", "startQuiz", "updateExam", "changeStatus",
                             "deleteExam", "getCertificates", "issueCertificate",
                             "revokeCertificate"}
  BY <1>1 DEF LearningSection, UpdateCourseProgress, SubmitExam, GradeSubmission,
              RequestResubmission, StartQuiz, UpdateExam, ChangeStatus, DeleteExam,
              GetCertificates, IssueCertificate, RevokeCertificate
<1>2. ASSUME PurchaseSection(c)
      PROVE  call[c].op \in {"purchaseCourse", "purchaseWithExternalPayment", "enrollLearner"}
  BY <1>2 DEF PurchaseSection, Purchase, Charge, ChargeFails, PurchaseGoesOn,
              PurchaseWithExternalPayment, EnrollLearner
<1>3. ASSUME PaymentSection(c)
      PROVE  call[c].op \in {"createPayoutRequest", "adminUpdatePayoutStatus",
                             "adminRefundTransaction"}
  BY <1>3 DEF PaymentSection, CreatePayoutRequest, UpdatePayoutStatus, CompletePayout,
              CompletePayoutFails, Refund, Credit, CreditFails, RecordRefund
<1>4. ASSUME ProjectSection(c)
      PROVE  call[c].op \in {"createCommitment", "reviewCommitment", "activateCommitment",
                             "markInstallmentPaid", "updateOwnerProject", "deleteOwnerProject",
                             "expressPartnerInterest"}
  BY <1>4 DEF ProjectSection, CreateCommitment, ReviewCommitment, ActivateCommitment,
              MarkInstallmentPaid, UpdateOwnerProject, DeleteOwnerProject,
              ExpressPartnerInterest
<1>5. QED
  BY <1>1, <1>2, <1>3, <1>4

\* A step moves one command at most, or the process ends.
LEMMA OneCommandMoves ==
  ASSUME StoreInv, NEW c \in Calls,
         SectionOf(c) \/ Await(c) \/ Finish(c) \/ UNCHANGED storeVars,
         NEW d \in Calls, d # c
  PROVE  phase'[d] = phase[d]
<1>1. StoreTypeOK
  BY DEF StoreInv, TypeOK
<1>2. ASSUME NEW next, Move(c, next) PROVE phase'[d] = phase[d]
  BY <1>1, <1>2 DEF Move, StoreTypeOK
<1>3. UNCHANGED phase \/ \E next : Move(c, next)
  BY DEF SectionOf, Sectioned, Collect, Throw, Pass, Await, Settle, Finish, Persist,
         PersistFails, storeVars
<1>4. QED
  BY <1>2, <1>3

\* While no enrollment is in a history, an enrolled learner stays enrolled, and a purchase
\* that goes on finds what it has found before.
Admitted(c) ==
  /\ phase[c] \in {"persisting", "answered"} => Enrolled(memory)
  /\ phase[c] \in {"waiting", "resuming"} /\ found[c] # NoRow
       => found[c] \in In(memory, "course_enrollments")

EnrolInv ==
  EnrollmentRows \cap Dirty = {} =>
    \A c \in Calls : call[c].op = "purchaseCourse" => Admitted(c)

LEMMA EnrollmentsStay ==
  ASSUME StoreInv, ValuesAreGiven, [CommandsNext]_vars, EnrollmentRows \cap Dirty' = {}
  PROVE  In(memory, "course_enrollments") \subseteq In(memory', "course_enrollments")
<1> SUFFICES ASSUME NEW r \in In(memory, "course_enrollments") PROVE memory'[r] # Absent
  BY DEF In
<1>1. r \in Rows \ Dirty' /\ r[1] = "course_enrollments" /\ memory[r] # Absent
  BY DEF EnrollmentRows, In, RowsOf
<1>2. ASSUME NEW c \in Calls, Ready(c) \/ phase[c] = "resuming",
             NEW w, Sectioned(c, w), LearningWrite(c, w) \/ w \in SUBSET OtherRows
      PROVE  memory'[r] # Absent
  <2>1. r \in w => memory'[r] # Absent
    BY <1>1, <1>2 DEF LearningWrite, EnrollmentStep, OtherRows, ProjectRows, ProjectTables,
                      PayoutRows, TransactionRows, RowsOf
  <2>2. QED
    BY <1>1, <1>2, <2>1, SectionRows DEF Kept
<1>3. ASSUME NEW c \in Calls, Finish(c) PROVE memory'[r] # Absent
  BY <1>1, <1>3, CopiesOfFinish
<1>4. QED
  BY <1>1, <1>2, <1>3, StepsOfRows, SilentRows DEF Kept

LEMMA EnrolIsStable ==
  ASSUME StoreInv, ValuesAreGiven, EnrolInv, [CommandsNext]_vars
  PROVE  EnrolInv'
<1> SUFFICES ASSUME EnrollmentRows \cap Dirty' = {}, NEW c \in Calls,
                    call[c].op = "purchaseCourse"
             PROVE  Admitted(c)'
  BY NothingIsForgotten DEF EnrolInv, EnrollmentRows, RowsOf
<1>1. StoreTypeOK /\ TypeOK /\ CallsAreGiven /\ Admitted(c)
  BY NothingIsForgotten DEF StoreInv, TypeOK, EnrolInv
<1>2. /\ In(memory, "course_enrollments") \subseteq In(memory', "course_enrollments")
      /\ Enrolled(memory) => Enrolled(memory')
  BY EnrollmentsStay DEF Enrolled
<1>3. ASSUME phase'[c] = phase[c] \/ phase'[c] = "failed", found'[c] = found[c]
      PROVE  Admitted(c)'
  BY <1>1, <1>2, <1>3 DEF Admitted, In, RowsOf, Enrolled
<1>4. ASSUME NEW d \in Calls, ProjectSection(d) \/ LearningSection(d) \/ PaymentSection(d),
             UNCHANGED found
      PROVE  Admitted(c)'
  <2>1. d # c
    BY <1>4, OperationsByKind
  <2>2. phase'[c] = phase[c]
    BY <1>1, <1>4, <2>1, SectionsByKind, OneCommandMoves
  <2>3. QED
    BY <1>3, <1>4, <2>2
<1>5. ASSUME NEW d \in Calls, PurchaseSection(d) PROVE Admitted(c)'
  <2>1. PurchaseStep(d) /\ (SectionOf(d) \/ Await(d))
    BY <1>1, <1>5, PurchaseSections, SectionsByKind
  <2>2. CASE d # c
    <3>1. found'[c] = found[c]
      BY <1>1, <2>1, <2>2 DEF PurchaseStep, TypeOK
    <3>2. QED
      BY <1>3, <2>1, <2>2, <3>1, OneCommandMoves
  <2>3. CASE d = c
    <3>1. CASE Pass(c, "answered") /\ Enrolled(memory)
      BY <1>1, <1>2, <3>1 DEF Pass, Move, Admitted, StoreTypeOK
    <3>2. ASSUME Pass(c, "waiting"),
                 found' = [found EXCEPT ![c] = IF Enrolled(memory) THEN Enrollment(memory) ELSE NoRow]
          PROVE  Admitted(c)'
      <4>1. phase'[c] = "waiting"
        BY <1>1, <3>2 DEF Pass, Move, StoreTypeOK
      <4>2. found'[c] = IF Enrolled(memory) THEN Enrollment(memory) ELSE NoRow
        BY <1>1, <3>2 DEF TypeOK
      <4>3. Enrolled(memory) => Enrollment(memory) \in In(memory, "course_enrollments")
        BY Found DEF Enrolled, Enrollment
      <4>4. found'[c] # NoRow => found'[c] \in In(memory, "course_enrollments")
        BY <4>2, <4>3
      <4>5. QED
        BY <1>2, <4>1, <4>4 DEF Admitted, In, RowsOf
    <3>3. ASSUME Await(c), UNCHANGED found PROVE Admitted(c)'
      <4>1. phase[c] = "waiting" /\ phase'[c] \in {"resuming", "failed"}
        BY <1>1, <3>3 DEF Await, Settle, Move, StoreTypeOK
      <4>2. QED
        BY <1>1, <1>2, <3>3, <4>1 DEF Admitted, In, RowsOf
    <3>4. ASSUME NEW w, LearningWrite(c, w),
                 (phase[c] = "resuming" /\ found[c] # NoRow) \/ Enrolled(memory')
          PROVE  Admitted(c)'
      <4>1. phase'[c] = "persisting"
        BY <1>1, <3>4 DEF LearningWrite, Collect, Move, StoreTypeOK
      <4>2. Enrolled(memory')
        BY <1>1, <1>2, <3>4 DEF Admitted, Enrolled
      <4>3. QED
        BY <4>1, <4>2 DEF Admitted
    <3>5. QED
      BY <2>1, <2>3, <3>1, <3>2, <3>3, <3>4 DEF PurchaseStep
  <2>4. QED
    BY <2>2, <2>3
<1>6. ASSUME NEW d \in Calls, Finish(d), UNCHANGED found PROVE Admitted(c)'
  <2>1. CASE d # c
    BY <1>3, <1>6, <2>1, OneCommandMoves
  <2>2. CASE d = c
    <3>1. phase[c] = "persisting" /\ phase'[c] \in {"answered", "failed"}
      BY <1>1, <1>6, <2>2 DEF Finish, Persist, PersistFails, Move, StoreTypeOK
    <3>2. QED
      BY <1>1, <1>2, <3>1 DEF Admitted
  <2>3. QED
    BY <2>1, <2>2
<1>7. ASSUME Reload \/ Restart \/ UNCHANGED vars, UNCHANGED found PROVE Admitted(c)'
  <2>1. phase'[c] = phase[c] \/ phase'[c] = "failed"
    BY <1>7 DEF Reload, ReadAppRows, ReadProjection, ResetStore, Restart, vars, storeVars
  <2>2. QED
    BY <1>3, <1>7, <2>1
<1>8. QED
  BY <1>4, <1>5, <1>6, <1>7 DEF CommandsNext, purchaseVars, vars

\* A learner whose purchase was charged and answered is enrolled.
THEOREM PurchasesEnrol ==
  ASSUME ValuesAreGiven
  PROVE  Spec => []PaidIsEnrolled
<1>1. CommandsInit => EnrolInv
  BY DEF CommandsInit, StoreInit, EnrolInv, Admitted
<1>2. StoreInv /\ EnrolInv => PaidIsEnrolled
  <2> SUFFICES ASSUME StoreInv, EnrolInv, \A r \in EnrollmentRows : Pending(r) = {} /\ r \notin Dirty,
                      NEW c \in Calls, call[c].op = "purchaseCourse", phase[c] = "answered"
               PROVE  Enrolled(app)
    BY DEF PaidIsEnrolled
  <2>1. PICK r \in In(memory, "course_enrollments") : TRUE
    BY DEF EnrolInv, Admitted, Enrolled
  <2>2. memory[r] = app[r]
    BY <2>1 DEF StoreInv, AgreeInv, Current, EnrollmentRows, In, RowsOf
  <2>3. QED
    BY <2>1, <2>2 DEF Enrolled, In
<1>3. StoreInv /\ EnrolInv /\ [CommandsNext]_vars => EnrolInv'
  BY EnrolIsStable
<1>4. QED
  BY <1>1, <1>2, <1>3, StoreInvariant, PTL DEF Spec

-----------------------------------------------------------------------------
\* A step that does not write r: where its copies come from.
Aside(r) ==
  /\ \A v \in Copies(r)' : v \in Copies(r) \/ (snapshot # NoSnapshot /\ v = snapshot[r])
  /\ snapshot' # NoSnapshot =>
       snapshot'[r] = app[r] \/ (snapshot # NoSnapshot /\ snapshot'[r] = snapshot[r])
  /\ r \notin Dirty' => memory'[r] = memory[r]

LEMMA RowsAside ==
  ASSUME StoreInv, NEW r \in Rows,
         \/ Silent
         \/ \E c \in Calls : Finish(c)
         \/ \E c \in Calls : /\ Ready(c) \/ phase[c] = "resuming"
                             /\ \E w : Sectioned(c, w) /\ r \notin w
  PROVE  Aside(r)
<1>1. ASSUME NEW c \in Calls, Finish(c) PROVE Aside(r)
  <2>1. snapshot' = snapshot
    BY <1>1 DEF Finish, Persist, PersistFails
  <2>2. QED
    BY <1>1, <2>1, CopiesOfFinish DEF Aside
<1>2. ASSUME NEW c \in Calls, Ready(c) \/ phase[c] = "resuming",
             NEW w, Sectioned(c, w), r \notin w
      PROVE  Aside(r)
  <2>1. snapshot' = snapshot
    BY <1>2 DEF Sectioned, Collect, Throw
  <2>2. QED
    BY <1>2, <2>1, CopiesOfSection DEF Aside
<1>3. CASE Silent
  <2>1. r \notin Dirty' => memory'[r] = memory[r]
    BY <1>3, SilentRows DEF Kept
  <2>2. StoreTypeOK
    BY DEF StoreInv, TypeOK
  <2>3. snapshot' # NoSnapshot =>
          snapshot'[r] = app[r] \/ (snapshot # NoSnapshot /\ snapshot'[r] = snapshot[r])
    <3>1. CASE ReadAppRows \/ ResetStore \/ Restart \/ UNCHANGED storeVars
      BY <3>1 DEF ReadAppRows, ResetStore, Restart, storeVars
    <3>2. ASSUME NEW table \in unread, ReadProjection(table)
          PROVE  snapshot # NoSnapshot /\ snapshot'[r] \in {app[r], snapshot[r]}
      BY <2>2, <3>2 DEF ReadProjection, StoreTypeOK
    <3>3. CASE \E c \in Calls : (\E next \in {"answered", "waiting"} : Pass(c, next)) \/ Await(c)
      BY <3>3 DEF Pass, Await, Settle
    <3>4. QED
      BY <1>3, <3>1, <3>2, <3>3 DEF Silent, Reload
  <2>4. CASE ResetStore
    <3>1. /\ memory'[r] = snapshot[r] /\ snapshot # NoSnapshot /\ app' = app /\ batch' = batch
          /\ Pending(r)' = Pending(r)
      BY <2>4 DEF ResetStore, Pending, InFlight
    <3>2. QED
      BY <2>1, <2>3, <3>1 DEF Aside, Copies
  <2>5. CASE ~ResetStore
    <3>1. Copies(r)' \subseteq Copies(r)
      <4>1. CASE Restart
        <5>1. Pending(r)' = {} /\ memory' = app /\ app' = app
          BY <4>1 DEF Restart, Pending, InFlight
        <5>2. QED
          BY <5>1 DEF Copies
      <4>2. CASE ~Restart
        <5>1. UNCHANGED <<app, memory, batch>> /\ InFlight' = InFlight
          BY <1>3, <2>2, <2>5, <4>2 DEF Silent, Ready, Pass, Await, Settle, Move, Reload,
                 ReadAppRows, ReadProjection, storeVars, InFlight, StoreTypeOK
        <5>2. QED
          BY <5>1 DEF Copies, Pending
      <4>3. QED
        BY <4>1, <4>2
    <3>2. QED
      BY <2>1, <2>3, <3>1 DEF Aside
  <2>6. QED
    BY <2>4, <2>5
<1>4. QED
  BY <1>1, <1>2, <1>3

\* A step of no payment command, or one that only answers.
Elsewhere ==
  /\ UNCHANGED paymentVars
  /\ \A r \in PayoutRows \cup TransactionRows : Aside(r)
  /\ unsaved \subseteq unsaved'
  /\ \A c \in Calls : call[c].op \in {"adminUpdatePayoutStatus", "adminRefundTransaction"} =>
       \/ phase'[c] = phase[c] /\ batch'[c] = batch[c]
       \/ phase'[c] = "answered" /\ (Ready(c) \/ (phase[c] = "persisting" /\ ~paying[c]))
       \/ /\ phase'[c] = "failed" /\ ~Ready(c)
          /\ phase[c] = "persisting" => DOMAIN batch[c] \subseteq unsaved'

LEMMA PaymentSteps ==
  ASSUME StoreInv, ValuesAreGiven, [CommandsNext]_vars
  PROVE  \/ Elsewhere
         \/ \E c \in Calls : \/ PayoutWrite(c) \/ RefundWrite(c)
                             \/ CompletePayout(c) \/ CompletePayoutFails(c)
                             \/ Refund(c) \/ Credit(c) \/ CreditFails(c)
<1>1. StoreTypeOK /\ TypeOK /\ CallsAreGiven
  BY DEF StoreInv, TypeOK
<1> DEFINE OfMoney(c) == call[c].op \in {"adminUpdatePayoutStatus", "adminRefundTransaction"}
           MoneyRows == PayoutRows \cup TransactionRows
<1>2. MoneyRows \subseteq Rows /\ \A r \in MoneyRows : r \notin ProjectRows \cup LearningRows
  BY DEF PayoutRows, TransactionRows, RowsOf, ProjectRows, ProjectTables, LearningRows,
         LearningTables
<1>3. ASSUME NEW c \in Calls, ~OfMoney(c), UNCHANGED paymentVars, SectionOf(c) \/ Await(c),
             SectionOf(c) => \/ \E next \in {"answered", "waiting"} : Pass(c, next)
                             \/ \E w : Sectioned(c, w) /\ w \cap MoneyRows = {}
      PROVE  Elsewhere
  <2>1. \A r \in MoneyRows : Aside(r)
    <3>1. CASE Await(c)
      BY <1>2, <3>1, RowsAside DEF Silent
    <3>2. CASE SectionOf(c) /\ \E next \in {"answered", "waiting"} : Pass(c, next)
      BY <1>2, <3>2, RowsAside DEF Silent, SectionOf
    <3>3. ASSUME SectionOf(c), NEW w, Sectioned(c, w), w \cap MoneyRows = {}
          PROVE  \A r \in MoneyRows : Aside(r)
      <4>1. Ready(c) \/ phase[c] = "resuming"
        BY <3>3 DEF SectionOf
      <4> HIDE DEF MoneyRows
      <4>2. QED
        BY <1>2, <3>3, <4>1, RowsAside
    <3>4. QED
      BY <1>3, <3>1, <3>2, <3>3
  <2>2. \A d \in Calls : d # c => phase'[d] = phase[d]
    BY <1>3, OneCommandMoves
  <2>3. unsaved \subseteq unsaved' /\ \A d \in Calls : d # c => batch'[d] = batch[d]
    BY <1>1, <1>3 DEF SectionOf, Sectioned, Collect, Throw, Pass, Await, Settle, disturbed,
                      StoreTypeOK
  <2>4. QED
    BY <1>3, <2>1, <2>2, <2>3 DEF Elsewhere
<1>4. ASSUME NEW c \in Calls, ProjectSection(c) \/ LearningSection(c), UNCHANGED paymentVars
      PROVE  Elsewhere
  <2>1. ~OfMoney(c) /\ SectionOf(c)
    BY <1>1, <1>4, OperationsByKind, SectionsByKind
  <2>2. \/ Pass(c, "answered") \/ \E w \in SUBSET ProjectRows : Sectioned(c, w)
        \/ \E w \in SUBSET LearningRows : Sectioned(c, w)
    BY <1>1, <1>4, ProjectSections, LearningSections DEF LearningWrite
  <2>3. QED
    BY <1>2, <1>3, <1>4, <2>1, <2>2
<1>5. ASSUME NEW c \in Calls, PurchaseSection(c), UNCHANGED paymentVars PROVE Elsewhere
  <2>1. ~OfMoney(c) /\ (SectionOf(c) \/ Await(c))
    BY <1>1, <1>5, OperationsByKind, SectionsByKind
  <2>2. \/ \E next \in {"answered", "waiting"} : Pass(c, next)
        \/ Await(c) \/ \E w \in SUBSET LearningRows : Sectioned(c, w)
    BY <1>1, <1>5, PurchaseSections DEF PurchaseStep, LearningWrite
  <2>3. Await(c) => ~SectionOf(c)
    BY DEF Await, Settle, SectionOf, Ready
  <2>4. QED
    BY <1>2, <1>3, <1>5, <2>1, <2>2, <2>3
<1>6. ASSUME NEW c \in Calls, Ready(c), Pass(c, "answered"), UNCHANGED paymentVars
      PROVE  Elsewhere
  <2>1. \A r \in MoneyRows : Aside(r)
    BY <1>2, <1>6, RowsAside DEF Silent
  <2>2. \A d \in Calls : phase'[d] = IF d = c THEN "answered" ELSE phase[d]
    BY <1>1, <1>6 DEF Pass, Move, StoreTypeOK
  <2>3. QED
    BY <1>6, <2>1, <2>2 DEF Elsewhere, Pass, disturbed
<1>7. ASSUME NEW c \in Calls, Finish(c), ~paying[c], UNCHANGED paymentVars PROVE Elsewhere
  <2>1. \A r \in MoneyRows : Aside(r)
    BY <1>2, <1>7, RowsAside
  <2>2. /\ phase[c] = "persisting" /\ \A d \in Calls : d # c => phase'[d] = phase[d]
        /\ \/ phase'[c] = "answered"
           \/ phase'[c] = "failed" /\ DOMAIN batch[c] \subseteq unsaved'
        /\ \A d \in Calls : d # c => batch'[d] = batch[d]
        /\ unsaved \subseteq unsaved'
    BY <1>1, <1>7 DEF Finish, Persist, PersistFails, Leave, Move, StoreTypeOK
  <2>3. QED
    BY <1>7, <2>1, <2>2 DEF Elsewhere, Ready
<1>8. ASSUME Reload \/ Restart \/ UNCHANGED storeVars, UNCHANGED paymentVars PROVE Elsewhere
  <2>1. \A r \in MoneyRows : Aside(r)
    BY <1>2, <1>8, RowsAside DEF Silent
  <2>2. CASE Restart
    <3>1. unsaved \subseteq unsaved'
      BY <2>2 DEF Restart
    <3>2. ASSUME NEW c \in Calls
          PROVE  \/ phase'[c] = phase[c] /\ batch'[c] = batch[c]
                 \/ /\ phase'[c] = "failed" /\ ~Ready(c)
                    /\ phase[c] = "persisting" => DOMAIN batch[c] \subseteq unsaved'
      BY <1>1, <2>2 DEF Restart, Ready, InFlight, StoreTypeOK
    <3>3. QED
      BY <1>8, <2>1, <3>1, <3>2 DEF Elsewhere
  <2>3. CASE Reload \/ UNCHANGED storeVars
    <3>1. UNCHANGED <<phase, batch, unsaved>>
      BY <2>3 DEF Reload, ReadAppRows, ReadProjection, ResetStore, storeVars, disturbed
    <3>2. QED
      BY <1>8, <2>1, <3>1 DEF Elsewhere
  <2>4. QED
    BY <1>8, <2>2, <2>3
<1>9. QED
  BY <1>1, <1>4, <1>5, <1>6, <1>7, <1>8, PaymentSections DEF CommandsNext, vars, paymentVars

-----------------------------------------------------------------------------
\* What a step of c leaves to the other commands.
OthersStay(c) ==
  /\ unsaved \subseteq unsaved'
  /\ \A d \in Calls : d # c => /\ phase'[d] = phase[d] /\ batch'[d] = batch[d]
                               /\ paying'[d] = paying[d]

LEMMA PaymentsOneByOne ==
  ASSUME StoreInv, NEW c \in Calls,
         \/ PayoutWrite(c) \/ RefundWrite(c)
         \/ CompletePayout(c) \/ CompletePayoutFails(c)
         \/ Refund(c) \/ Credit(c) \/ CreditFails(c)
  PROVE  OthersStay(c)
<1>1. StoreTypeOK /\ paying \in [Calls -> BOOLEAN]
  BY DEF StoreInv, TypeOK
<1>2. \A d \in Calls : d # c => paying'[d] = paying[d]
  BY <1>1 DEF PayoutWrite, RefundWrite, CompletePayout, CompletePayoutFails, Refund, Credit,
              CreditFails, paymentVars
<1>3. ASSUME NEW w, Sectioned(c, w) PROVE OthersStay(c)
  BY <1>1, <1>2, <1>3 DEF Sectioned, Collect, Throw, Move, OthersStay, disturbed, StoreTypeOK
<1>4. ASSUME PersistFails(c) PROVE OthersStay(c)
  BY <1>1, <1>2, <1>4 DEF PersistFails, Leave, Move, OthersStay, StoreTypeOK
<1>5. ASSUME NEW next, Pass(c, next) \/ Settle(c, next) PROVE OthersStay(c)
  BY <1>1, <1>2, <1>5 DEF Pass, Settle, Move, OthersStay, disturbed, StoreTypeOK
<1>6. CASE UNCHANGED storeVars
  BY <1>2, <1>6 DEF storeVars, disturbed, OthersStay
<1>7. QED
  BY <1>3, <1>4, <1>5, <1>6 DEF PayoutWrite, RefundWrite, CompletePayout, CompletePayoutFails,
                                Refund, Credit, CreditFails

\* A payout that is shown paid anywhere, in what a reload has read too, was paid out, is
\* being paid by a command whose transaction is still to come, or was left behind by one
\* that failed; and the store shows paid what was paid or is being.
IsPaidOut(v) == v # Absent /\ v.status = "paid"

Pays(c, r) ==
  /\ call[c].op = "adminUpdatePayoutStatus" /\ call[c].on = r
  /\ phase[c] = "persisting" /\ paying[c]

BeingPaid(r) == r \in paidOut \/ \E c \in Calls : Pays(c, r)

PayoutIsKnown(r) ==
  /\ \A v \in Copies(r) : IsPaidOut(v) => BeingPaid(r) \/ r \in unsaved
  /\ snapshot # NoSnapshot /\ IsPaidOut(snapshot[r]) => BeingPaid(r) \/ r \in unsaved
  /\ \A c \in Calls : Pays(c, r) => DOMAIN batch[c] = {r}
  /\ r \notin Dirty /\ BeingPaid(r) => IsPaidOut(memory[r])

PayoutInv == \A r \in PayoutRows : PayoutIsKnown(r)

\* A step that does not write the request keeps what is known of it.
LEMMA PayoutAside ==
  ASSUME NEW r, PayoutIsKnown(r), Aside(r), Dirty \subseteq Dirty',
         BeingPaid(r) => BeingPaid(r)' \/ r \in unsaved',
         unsaved \subseteq unsaved', BeingPaid(r)' => BeingPaid(r),
         \A d \in Calls : Pays(d, r)' => Pays(d, r) /\ batch'[d] = batch[d]
  PROVE  PayoutIsKnown(r)'
<1>1. (\A v \in Copies(r) : IsPaidOut(v) => BeingPaid(r)' \/ r \in unsaved')
      /\ (snapshot # NoSnapshot /\ IsPaidOut(snapshot[r]) => BeingPaid(r)' \/ r \in unsaved')
  BY DEF PayoutIsKnown
<1>2. \A v \in Copies(r)' : IsPaidOut(v) => BeingPaid(r)' \/ r \in unsaved'
  BY <1>1 DEF Aside
<1>3. snapshot' # NoSnapshot /\ IsPaidOut(snapshot'[r]) => BeingPaid(r)' \/ r \in unsaved'
  BY <1>1 DEF Aside, Copies
<1>4. \A d \in Calls : Pays(d, r)' => DOMAIN batch'[d] = {r}
  BY DEF PayoutIsKnown
<1>5. r \notin Dirty' /\ BeingPaid(r)' => IsPaidOut(memory'[r])
  BY DEF PayoutIsKnown, Aside
<1>6. QED
  BY <1>2, <1>3, <1>4, <1>5 DEF PayoutIsKnown, IsPaidOut

LEMMA PayoutIsStable ==
  ASSUME StoreInv, ValuesAreGiven, PayoutInv, [CommandsNext]_vars
  PROVE  PayoutInv'
<1> SUFFICES ASSUME NEW r \in PayoutRows PROVE PayoutIsKnown(r)'
  BY DEF PayoutInv, PayoutRows, RowsOf
<1>1. /\ StoreTypeOK /\ TypeOK /\ PayoutIsKnown(r) /\ r \in Rows /\ r \notin TransactionRows
      /\ paying \in [Calls -> BOOLEAN]
  BY DEF StoreInv, TypeOK, PayoutInv, PayoutRows, TransactionRows, RowsOf
<1>2. Dirty \subseteq Dirty' /\ call' = call
  BY NothingIsForgotten
<1>3. CASE Elsewhere
  <2>1. Aside(r) /\ unsaved \subseteq unsaved' /\ UNCHANGED <<paying, paidOut>>
    BY <1>3 DEF Elsewhere, paymentVars
  <2>2. ASSUME NEW d \in Calls, Pays(d, r) PROVE Pays(d, r)' \/ r \in unsaved'
    <3>1. DOMAIN batch[d] = {r} /\ ~Ready(d) /\ phase[d] = "persisting" /\ paying[d]
      BY <1>1, <2>2 DEF PayoutIsKnown, Pays, Ready
    <3>2. phase'[d] = phase[d] \/ (phase'[d] = "failed" /\ DOMAIN batch[d] \subseteq unsaved')
      BY <1>3, <2>2, <3>1 DEF Elsewhere, Pays
    <3>3. QED
      BY <1>2, <2>1, <2>2, <3>1, <3>2 DEF Pays
  <2>3. ASSUME NEW d \in Calls, Pays(d, r)' PROVE Pays(d, r) /\ batch'[d] = batch[d]
    <3>1. call[d].op = "adminUpdatePayoutStatus" /\ phase'[d] = "persisting"
      BY <1>2, <2>3 DEF Pays
    <3>2. phase'[d] = phase[d] /\ batch'[d] = batch[d]
      BY <1>3, <3>1 DEF Elsewhere
    <3>3. QED
      BY <1>2, <2>1, <2>3, <3>2 DEF Pays
  <2>4. BeingPaid(r)' => BeingPaid(r)
    BY <2>1, <2>3 DEF BeingPaid
  <2>5. BeingPaid(r) => BeingPaid(r)' \/ r \in unsaved'
    BY <2>1, <2>2 DEF BeingPaid
  <2>6. QED
    BY <1>1, <1>2, <2>1, <2>3, <2>4, <2>5, PayoutAside
<1>4. ASSUME NEW c \in Calls, OthersStay(c), Aside(r), ~Pays(c, r)', paidOut' = paidOut,
             ~Pays(c, r)
      PROVE  PayoutIsKnown(r)'
  <2>1. ASSUME NEW d \in Calls PROVE Pays(d, r)' <=> Pays(d, r)
    BY <1>2, <1>4 DEF OthersStay, Pays
  <2>2. ASSUME NEW d \in Calls, Pays(d, r)' PROVE batch'[d] = batch[d]
    BY <1>4, <2>2 DEF OthersStay
  <2>3. (BeingPaid(r)' <=> BeingPaid(r)) /\ unsaved \subseteq unsaved'
    BY <1>4, <2>1 DEF BeingPaid, OthersStay
  <2>4. QED
    BY <1>1, <1>2, <1>4, <2>1, <2>2, <2>3, PayoutAside
<1>5. ASSUME NEW c \in Calls, RefundWrite(c) \/ Refund(c) \/ Credit(c) \/ CreditFails(c)
      PROVE  PayoutIsKnown(r)'
  <2>1. Aside(r)
    <3>1. CASE RefundWrite(c)
      BY <1>1, <3>1, RowsAside DEF RefundWrite
    <3>2. CASE Refund(c)
      BY <1>1, <3>2, RowsAside DEF Refund, Silent
    <3>3. CASE Credit(c) \/ CreditFails(c)
      BY <1>1, <3>3, RowsAside DEF Credit, CreditFails, Silent, Await
    <3>4. QED
      BY <1>5, <3>1, <3>2, <3>3
  <2>2. call[c].op = "adminRefundTransaction" /\ paidOut' = paidOut
    BY <1>5 DEF RefundWrite, Refund, Credit, CreditFails, paymentVars
  <2>3. QED
    BY <1>2, <1>4, <1>5, <2>1, <2>2, PaymentsOneByOne DEF Pays
<1>6. ASSUME NEW c \in Calls, CompletePayout(c) \/ CompletePayoutFails(c)
      PROVE  PayoutIsKnown(r)'
  <2>1. OthersStay(c) /\ paying'[c] = FALSE
    BY <1>1, <1>6, PaymentsOneByOne DEF CompletePayout, CompletePayoutFails
  <2>2. Aside(r) /\ (PersistFails(c) \/ UNCHANGED storeVars)
    BY <1>1, <1>6, RowsAside DEF CompletePayout, CompletePayoutFails, Silent, Finish
  <2>3. ASSUME NEW d \in Calls, Pays(d, r)' PROVE Pays(d, r) /\ batch'[d] = batch[d]
    BY <1>2, <2>1, <2>3 DEF OthersStay, Pays
  <2>4. ASSUME NEW d \in Calls, Pays(d, r) PROVE BeingPaid(r)' \/ r \in unsaved'
    <3>1. CASE d # c
      BY <1>2, <2>1, <2>4, <3>1 DEF OthersStay, Pays, BeingPaid
    <3>2. CASE d = c
      <4>1. DOMAIN batch[c] = {r} /\ call[c].on = r
        BY <1>1, <2>4, <3>2 DEF PayoutIsKnown, Pays
      <4>2. CompletePayout(c) => r \in paidOut'
        BY <4>1 DEF CompletePayout
      <4>3. CompletePayoutFails(c) => r \in unsaved'
        BY <4>1 DEF CompletePayoutFails, PersistFails
      <4>4. QED
        BY <1>6, <4>2, <4>3 DEF BeingPaid
    <3>3. QED
      BY <3>1, <3>2
  <2>5. /\ r \in paidOut => r \in paidOut'
        /\ r \in paidOut' => r \in paidOut \/ Pays(c, r)
    BY <1>1, <1>6 DEF CompletePayout, CompletePayoutFails, Pays
  <2>6. /\ BeingPaid(r) => BeingPaid(r)' \/ r \in unsaved'
        /\ BeingPaid(r)' => BeingPaid(r)
    BY <2>3, <2>4, <2>5 DEF BeingPaid
  <2>7. unsaved \subseteq unsaved'
    BY <2>1 DEF OthersStay
  <2>8. QED
    BY <1>1, <1>2, <2>2, <2>3, <2>6, <2>7, PayoutAside
<1>7. ASSUME NEW c \in Calls, PayoutWrite(c) PROVE PayoutIsKnown(r)'
  <2> DEFINE q == call[c].on
  <2>1. OthersStay(c) /\ paidOut' = paidOut /\ Ready(c) /\ Sectioned(c, {q}) /\ ~Pays(c, r)
    BY <1>7, PaymentsOneByOne DEF PayoutWrite, paymentVars, Pays, Ready
  <2>2. CASE q # r
    <3>1. Aside(r) /\ ~Pays(c, r)'
      BY <1>1, <1>2, <2>1, <2>2, RowsAside DEF Pays
    <3>2. QED
      BY <1>4, <2>1, <3>1
  <2>3. CASE q = r
    <3>1. /\ Copies(r)' \subseteq Copies(r) \cup {memory'[r]}
          /\ snapshot' = snapshot
      BY <1>1, <2>1, <2>3, CopiesOfSection DEF Sectioned, Collect, Throw
    <3>2. \A d \in Calls : d # c => /\ Pays(d, r)' <=> Pays(d, r)
                                    /\ batch'[d] = batch[d]
      BY <1>2, <2>1 DEF OthersStay, Pays
    <3>3. BeingPaid(r) => BeingPaid(r)'
      BY <2>1, <3>2 DEF BeingPaid
    <3>4. BeingPaid(r)' => BeingPaid(r) \/ Pays(c, r)'
      BY <2>1, <3>2 DEF BeingPaid
    <3>5. Pays(c, r)' => Collect(c, memory', {r}) /\ paying'[c] = Owes(c)
                         /\ call[c].op = "adminUpdatePayoutStatus"
      <4>1. ASSUME Throw(c, memory', {r}) PROVE ~Pays(c, r)'
        BY <1>1, <4>1 DEF Throw, Move, Pays, StoreTypeOK
      <4>2. QED
        BY <1>1, <1>2, <1>7, <2>3, <4>1 DEF PayoutWrite, Pays
    <3>6. Pays(c, r)' => DOMAIN batch'[c] = {r} /\ IsPaidOut(memory'[r])
      <4>1. ASSUME Pays(c, r)' PROVE DOMAIN batch'[c] = {r} /\ IsPaidOut(memory'[r])
        <5>1. Owes(c) /\ Collect(c, memory', {r}) /\ memory'[r].status = call[c].status
          BY <1>7, <1>2, <2>3, <3>5, <4>1 DEF PayoutWrite, Pays
        <5>2. memory'[r] \in PayoutValues /\ memory'[r] # Absent
          BY <1>1, <1>7, <2>3, AbsentIsNoValue, ValuesByTable
             DEF PayoutWrite, ValuesAreGiven, PayoutRows, RowsOf
        <5>3. DOMAIN batch'[c] = {r}
          BY <1>1, <5>1 DEF Collect, StoreTypeOK
        <5>4. QED
          BY <5>1, <5>2, <5>3 DEF Owes, IsPaidOut
      <4>2. QED
        BY <4>1
    <3>7. IsPaidOut(memory[r]) => IsPaidOut(memory'[r])
      <4>1. ASSUME IsPaidOut(memory[r]) PROVE IsPaidOut(memory'[r])
        <5>1. /\ memory[r].status = "paid" /\ memory'[r] \in PayoutValues
              /\ MayTransition(PayoutGraph, memory[r].status, memory'[r].status)
          BY <1>7, <2>3, <4>1 DEF PayoutWrite, IsPaidOut
        <5>2. memory'[r].status = "paid"
          BY <5>1 DEF MayTransition, PayoutGraph
        <5>3. memory'[r] # Absent
          BY <1>1, <5>1, AbsentIsNoValue, ValuesByTable DEF ValuesAreGiven, PayoutRows, RowsOf
        <5>4. QED
          BY <5>2, <5>3 DEF IsPaidOut
      <4>2. QED
        BY <4>1
    <3>8. IsPaidOut(memory'[r]) => BeingPaid(r)' \/ r \in unsaved'
      <4>1. ASSUME IsPaidOut(memory'[r]), ~IsPaidOut(memory[r])
            PROVE  BeingPaid(r)' \/ r \in unsaved'
        <5>1. call[c].op = "adminUpdatePayoutStatus" /\ Owes(c)
          BY <1>7, <2>3, <4>1 DEF PayoutWrite, IsPaidOut, Owes
        <5>2. CASE Throw(c, memory', {r})
          BY <5>2 DEF Throw
        <5>3. CASE Collect(c, memory', {r}) /\ paying' = [paying EXCEPT ![c] = Owes(c)]
          <6>1. phase'[c] = "persisting" /\ paying'[c]
            BY <1>1, <5>1, <5>3 DEF Collect, Move, StoreTypeOK
          <6>2. QED
            BY <1>2, <2>3, <5>1, <6>1 DEF BeingPaid, Pays
        <5>4. QED
          BY <1>7, <2>3, <5>1, <5>2, <5>3 DEF PayoutWrite
      <4>2. IsPaidOut(memory[r]) => BeingPaid(r) \/ r \in unsaved
        BY <1>1 DEF PayoutIsKnown, Copies
      <4>3. QED
        BY <2>1, <3>3, <4>1, <4>2 DEF OthersStay
    <3>9. \A v \in Copies(r)' : IsPaidOut(v) => BeingPaid(r)' \/ r \in unsaved'
      BY <1>1, <2>1, <3>1, <3>3, <3>8 DEF PayoutIsKnown, OthersStay
    <3>10. snapshot' # NoSnapshot /\ IsPaidOut(snapshot'[r]) => BeingPaid(r)' \/ r \in unsaved'
      BY <1>1, <2>1, <3>1, <3>3 DEF PayoutIsKnown, OthersStay
    <3>11. \A d \in Calls : Pays(d, r)' => DOMAIN batch'[d] = {r}
      BY <1>1, <3>2, <3>6 DEF PayoutIsKnown
    <3>12. r \notin Dirty' /\ BeingPaid(r)' => IsPaidOut(memory'[r])
      BY <1>1, <1>2, <3>4, <3>6, <3>7 DEF PayoutIsKnown
    <3>13. QED
      BY <3>9, <3>10, <3>11, <3>12 DEF PayoutIsKnown, IsPaidOut
  <2>4. QED
    BY <2>2, <2>3
<1>8. QED
  BY <1>3, <1>5, <1>6, <1>7, PaymentSteps

\* AppRow shows a payout request paid only if its operation has run, and one that was paid
\* out is shown paid, but for the failures that PayoutShows names.
THEOREM PayoutsAreShown ==
  ASSUME ValuesAreGiven
  PROVE  Spec => []PayoutShows
<1>1. CommandsInit => PayoutInv
  <2> SUFFICES ASSUME CommandsInit, NEW r \in PayoutRows PROVE PayoutIsKnown(r)
    BY DEF PayoutInv
  <2>1. PICK s \in Scenarios : app = s.rows
    BY DEF CommandsInit
  <2>2. ~IsPaidOut(app[r])
    BY <2>1, ScenariosAreWellFormed DEF StartsWell, IsPaidOut, PayoutRows, In
  <2>3. Copies(r) = {app[r]} /\ snapshot = NoSnapshot
    BY DEF CommandsInit, StoreInit, Copies, Pending, InFlight
  <2>4. ~BeingPaid(r) /\ \A c \in Calls : ~Pays(c, r)
    BY DEF CommandsInit, StoreInit, BeingPaid, Pays
  <2>5. QED
    BY <2>2, <2>3, <2>4 DEF PayoutIsKnown
<1>2. StoreInv /\ PayoutInv => PayoutShows
  <2> SUFFICES ASSUME StoreInv, PayoutInv, NEW r \in PayoutRows, app[r] # Absent, Pending(r) = {}
               PROVE  /\ app[r].status = "paid" => r \in paidOut \cup unsaved
                      /\ r \in paidOut => app[r].status = "paid" \/ r \in Dirty
    BY DEF PayoutShows
  <2>1. PayoutIsKnown(r) /\ r \in Rows
    BY DEF PayoutInv, PayoutRows, RowsOf
  <2>2. \A c \in Calls : ~Pays(c, r)
    BY <2>1 DEF PayoutIsKnown, Pays, Pending, InFlight
  <2>3. app[r].status = "paid" => r \in paidOut \cup unsaved
    BY <2>1, <2>2 DEF PayoutIsKnown, Copies, IsPaidOut, BeingPaid
  <2>4. ASSUME r \in paidOut, r \notin Dirty PROVE app[r].status = "paid"
    <3>1. memory[r] = app[r]
      BY <2>1, <2>4 DEF StoreInv, AgreeInv, Current
    <3>2. QED
      BY <2>1, <2>4, <3>1 DEF PayoutIsKnown, BeingPaid, IsPaidOut
  <2>5. QED
    BY <2>3, <2>4
<1>3. StoreInv /\ PayoutInv /\ [CommandsNext]_vars => PayoutInv'
  BY PayoutIsStable
<1>4. QED
  BY <1>1, <1>2, <1>3, StoreInvariant, PTL DEF Spec

-----------------------------------------------------------------------------
Refunds(c) == call[c].op = "adminRefundTransaction"
Started(c) == paying[c] \/ c \in credited

\* A refund has nothing done before it began, its operation before its answer, and its
\* row in the store from then on.
RefundIsRecorded(c) ==
  Refunds(c) =>
    /\ Ready(c) => ~Started(c)
    /\ phase[c] \in {"persisting", "answered"} => ~paying[c]
    /\ /\ phase[c] \in {"persisting", "answered"}
       /\ c \in credited /\ call[c].refund \notin Dirty
       => memory[call[c].refund] = [type |-> "refund", of |-> call[c].on]

\* Of two refunds of one transaction one finds the other, unless RefundedOnce says why not.
RefundsMeet(c, d) ==
  /\ Refunds(c) /\ Refunds(d)
  /\ call[c].on = call[d].on /\ call[c].refund # call[d].refund
  /\ Started(c) /\ Started(d)
  => \/ c \in beside[d] \/ d \in beside[c]
     \/ "failed" \in {phase[c], phase[d]}
     \/ {call[c].refund, call[d].refund} \cap Dirty # {}

RefundInv ==
  /\ \A c \in Calls : RefundIsRecorded(c)
  /\ \A c, d \in Calls : RefundsMeet(c, d)

\* What a step does to a refund c that goes no step of its own, or is answered or failed.
RefundRests(c) ==
  /\ paying'[c] = paying[c] /\ beside'[c] = beside[c]
  /\ c \in credited' <=> c \in credited
  /\ \/ phase'[c] = phase[c]
     \/ phase'[c] = "answered" /\ (Ready(c) \/ (phase[c] = "persisting" /\ ~paying[c]))
     \/ phase'[c] = "failed" /\ ~Ready(c)
  /\ call[c].refund \notin Dirty' => memory'[call[c].refund] = memory[call[c].refund]

LEMMA RestIsRecorded ==
  ASSUME NEW c \in Calls, RefundIsRecorded(c), RefundRests(c), Dirty \subseteq Dirty', call' = call
  PROVE  RefundIsRecorded(c)'
BY DEF RefundIsRecorded, RefundRests, Refunds, Started, Ready

LEMMA RestMeets ==
  ASSUME NEW c \in Calls, NEW d \in Calls, RefundsMeet(c, d),
         Refunds(c) => RefundRests(c), Refunds(d) => RefundRests(d),
         Dirty \subseteq Dirty', call' = call
  PROVE  RefundsMeet(c, d)'
<1> SUFFICES ASSUME Refunds(c), Refunds(d), call[c].on = call[d].on,
                    call[c].refund # call[d].refund, Started(c)', Started(d)'
             PROVE  \/ c \in beside'[d] \/ d \in beside'[c]
                    \/ "failed" \in {phase'[c], phase'[d]}
                    \/ {call[c].refund, call[d].refund} \cap Dirty' # {}
  BY DEF RefundsMeet, Refunds
<1>1. Started(c) /\ Started(d)
  BY DEF RefundRests, Started
<1>2. \/ c \in beside[d] \/ d \in beside[c]
      \/ "failed" \in {phase[c], phase[d]}
      \/ {call[c].refund, call[d].refund} \cap Dirty # {}
  BY <1>1 DEF RefundsMeet
<1>3. /\ phase[c] = "failed" => phase'[c] = "failed"
      /\ phase[d] = "failed" => phase'[d] = "failed"
  BY DEF RefundRests, Ready
<1>4. beside'[c] = beside[c] /\ beside'[d] = beside[d]
  BY DEF RefundRests
<1>5. QED
  BY <1>2, <1>3, <1>4

LEMMA RefundIsStable ==
  ASSUME StoreInv, ValuesAreGiven, RefundInv, [CommandsNext]_vars
  PROVE  RefundInv'
<1>1. /\ StoreTypeOK /\ TypeOK /\ CallsAreGiven
      /\ paying \in [Calls -> BOOLEAN] /\ beside \in [Calls -> SUBSET Calls]
  BY DEF StoreInv, TypeOK
<1>2. Dirty \subseteq Dirty' /\ call' = call
  BY NothingIsForgotten
<1>3. \A c \in Calls : Refunds(c) =>
        /\ call[c].refund \in Rows /\ call[c].refund \in TransactionRows
        /\ call[c].refund \notin PayoutRows
  BY <1>1, CallsAreWellFormed DEF CallIsWellFormed, Refunds, PayoutRows, TransactionRows, RowsOf
<1>4. ASSUME \A c \in Calls : Refunds(c) => RefundRests(c) PROVE RefundInv'
  <2>1. ASSUME NEW c \in Calls PROVE RefundIsRecorded(c)'
    BY <1>2, <1>4, RestIsRecorded DEF RefundInv, RefundIsRecorded, Refunds
  <2>2. ASSUME NEW c \in Calls, NEW d \in Calls PROVE RefundsMeet(c, d)'
    BY <1>2, <1>4, RestMeets DEF RefundInv
  <2>3. QED
    BY <2>1, <2>2 DEF RefundInv
<1>5. CASE Elsewhere
  BY <1>3, <1>4, <1>5 DEF Elsewhere, RefundRests, Aside, Refunds, paymentVars
<1>6. ASSUME NEW c \in Calls, OthersStay(c), NEW d \in Calls, Refunds(d), d # c,
             Aside(call[d].refund), UNCHANGED credited, beside'[d] = beside[d]
      PROVE  RefundRests(d)
  BY <1>6 DEF OthersStay, RefundRests, Aside
<1>7. ASSUME NEW c \in Calls, PayoutWrite(c) \/ CompletePayout(c) \/ CompletePayoutFails(c)
      PROVE  RefundInv'
  <2>1. OthersStay(c) /\ UNCHANGED <<credited, beside>> /\ ~Refunds(c)
    BY <1>1, <1>7, PaymentsOneByOne
       DEF PayoutWrite, CompletePayout, CompletePayoutFails, paymentVars, Refunds
  <2>2. ASSUME NEW r \in TransactionRows, r \in Rows PROVE Aside(r)
    <3>1. CASE PayoutWrite(c)
      <4>1. Ready(c) /\ Sectioned(c, {call[c].on}) /\ r \notin {call[c].on}
        BY <2>2, <3>1 DEF PayoutWrite, PayoutRows, TransactionRows, RowsOf
      <4>2. QED
        BY <2>2, <4>1, RowsAside
    <3>2. CASE CompletePayout(c) \/ CompletePayoutFails(c)
      BY <2>2, <3>2, RowsAside DEF CompletePayout, CompletePayoutFails, Silent, Finish
    <3>3. QED
      BY <1>7, <3>1, <3>2
  <2>3. QED
    BY <1>3, <1>4, <1>6, <2>1, <2>2
  \* The refund c makes a step and the others rest.
<1>8. ASSUME NEW c \in Calls, Refunds(c), RefundIsRecorded(c)',
             \A d \in Calls : Refunds(d) /\ d # c => RefundRests(d),
             \A d \in Calls : d # c => RefundsMeet(c, d)' /\ RefundsMeet(d, c)'
      PROVE  RefundInv'
  <2>1. ASSUME NEW d \in Calls PROVE RefundIsRecorded(d)'
    BY <1>2, <1>8, RestIsRecorded DEF RefundInv, RefundIsRecorded, Refunds
  <2>2. ASSUME NEW d \in Calls, NEW e \in Calls PROVE RefundsMeet(d, e)'
    <3>1. CASE d # c /\ e # c
      BY <1>2, <1>8, <3>1, RestMeets DEF RefundInv
    <3>2. CASE d = e
      BY <3>2 DEF RefundsMeet
    <3>3. QED
      BY <1>8, <3>1, <3>2
  <2>3. QED
    BY <2>1, <2>2 DEF RefundInv
  \* Those that have met have met.
<1>9. ASSUME NEW c \in Calls, Started(c)' => Started(c), phase[c] = "failed" => phase'[c] = "failed",
             beside'[c] = beside[c],
             NEW d \in Calls, Refunds(d) => RefundRests(d)
      PROVE  RefundsMeet(c, d)' /\ RefundsMeet(d, c)'
  <2>1. Refunds(d) => /\ Started(d)' => Started(d)
                      /\ phase[d] = "failed" => phase'[d] = "failed"
                      /\ beside'[d] = beside[d]
    BY <1>9 DEF RefundRests, Started, Ready
  <2>2. RefundsMeet(c, d) /\ RefundsMeet(d, c)
    BY DEF RefundInv
  <2>3. QED
    BY <1>2, <1>9, <2>1, <2>2 DEF RefundsMeet, Refunds
<1>10. ASSUME NEW c \in Calls, RefundWrite(c) PROVE RefundInv'
  <2> DEFINE q == call[c].refund
             v == [type |-> "refund", of |-> call[c].on]
  <2>1. /\ OthersStay(c) /\ Refunds(c) /\ UNCHANGED <<credited, beside>>
        /\ paying'[c] = FALSE /\ phase[c] = "resuming" /\ paying[c] /\ phase'[c] = "persisting"
        /\ Sectioned(c, {q}) /\ memory'[q] = v
    BY <1>1, <1>10, PaymentsOneByOne DEF RefundWrite, Refunds, Collect, Move, StoreTypeOK
  <2>2. RefundIsRecorded(c)'
    BY <1>2, <2>1 DEF RefundIsRecorded, Ready, Refunds
  <2>3. ASSUME NEW d \in Calls, Refunds(d), d # c, call[d].refund # q
        PROVE  RefundRests(d)
    <3>1. Aside(call[d].refund)
      BY <1>3, <2>1, <2>3, RowsAside
    <3>2. QED
      BY <1>6, <2>1, <2>3, <3>1
  <2>4. ASSUME NEW d \in Calls, Refunds(d), d # c, call[d].refund = q
        PROVE  RefundIsRecorded(d)'
    <3>1. call[d].on = call[c].on
      BY <1>1, <2>1, <2>4, ScenariosAreWellFormed DEF CallsAreGiven, RefundRowsDiffer, Refunds
    <3>2. memory'[call[d].refund] = [type |-> "refund", of |-> call[d].on]
      BY <2>1, <2>4, <3>1
    <3>3. phase'[d] = phase[d] /\ paying'[d] = paying[d] /\ RefundIsRecorded(d)
      BY <2>1, <2>4 DEF OthersStay, RefundInv
    <3> HIDE DEF v, q
    <3>4. QED
      BY <1>2, <2>1, <2>4, <3>2, <3>3 DEF RefundIsRecorded, Refunds, Ready, Started
  <2>5. ASSUME NEW d \in Calls PROVE RefundIsRecorded(d)'
    <3>1. CASE d = c
      BY <2>2, <3>1
    <3>2. CASE ~Refunds(d)
      BY <1>2, <3>2 DEF RefundIsRecorded, Refunds
    <3>3. CASE d # c /\ Refunds(d) /\ call[d].refund # q
      BY <1>2, <2>3, <3>3, RestIsRecorded DEF RefundInv
    <3>4. QED
      BY <2>4, <3>1, <3>2, <3>3
  <2>6. ASSUME NEW d \in Calls, NEW e \in Calls PROVE RefundsMeet(d, e)'
    <3>1. /\ Started(d)' => Started(d)
          /\ Started(e)' => Started(e)
          /\ phase[d] = "failed" => phase'[d] = "failed"
          /\ phase[e] = "failed" => phase'[e] = "failed"
      BY <2>1 DEF OthersStay, Started
    <3>2. RefundsMeet(d, e)
      BY DEF RefundInv
    <3>3. QED
      BY <1>2, <2>1, <3>1, <3>2 DEF RefundsMeet, Refunds
  <2>7. QED
    BY <2>5, <2>6 DEF RefundInv
<1>11. ASSUME NEW c \in Calls, Refund(c) \/ Credit(c) \/ CreditFails(c) PROVE RefundInv'
  <2>1. /\ OthersStay(c) /\ Refunds(c) /\ RefundIsRecorded(c)
        /\ \A d \in Calls : /\ d # c => beside'[d] = beside[d]
                            /\ d # c => (d \in credited' <=> d \in credited)
    BY <1>1, <1>11, PaymentsOneByOne DEF Refund, Credit, CreditFails, Refunds, paymentVars, RefundInv
  <2>2. ASSUME NEW d \in Calls, Refunds(d), d # c PROVE RefundRests(d)
    <3>1. Aside(call[d].refund)
      BY <1>3, <1>11, <2>2, RowsAside DEF Refund, Credit, CreditFails, Silent, Await
    <3>2. QED
      BY <2>1, <2>2, <3>1 DEF OthersStay, RefundRests, Aside
  <2>3. CASE Refund(c)
    <3>1. Ready(c) /\ ~Started(c) /\ credited' = credited /\ phase'[c] \in {"waiting", "answered"}
          /\ beside'[c] = Running
      BY <1>1, <2>1, <2>3 DEF Refund, RefundIsRecorded, Pass, Move, StoreTypeOK
    <3>2. CASE UNCHANGED paying
      <4>1. ~Started(c)'
        BY <3>1, <3>2 DEF Started
      <4>2. RefundIsRecorded(c)'
        BY <1>2, <3>1, <4>1 DEF RefundIsRecorded, Ready, Started, Refunds
      <4>3. \A d \in Calls : RefundsMeet(c, d)' /\ RefundsMeet(d, c)'
        BY <4>1 DEF RefundsMeet
      <4>4. QED
        BY <1>8, <2>1, <2>2, <4>2, <4>3
    <3>3. CASE paying' # paying
      <4>1. /\ RefundsOf(memory, call[c].on) = {} /\ phase'[c] = "waiting"
        BY <1>1, <2>3, <3>3 DEF Refund, Pass, Move, StoreTypeOK
      <4>2. RefundIsRecorded(c)'
        BY <4>1 DEF RefundIsRecorded, Ready
      <4>3. ASSUME NEW d \in Calls, d # c, Refunds(d), call[d].on = call[c].on, Started(d)'
            PROVE  \/ d \in beside'[c] \/ phase'[d] = "failed"
                   \/ call[d].refund \in Dirty'
        <5>1. Started(d) /\ RefundIsRecorded(d) /\ phase'[d] = phase[d] /\ d \in Calls
          BY <2>1, <3>1, <4>3 DEF OthersStay, Started, RefundInv
        <5>2. CASE phase[d] \in {"waiting", "resuming", "persisting"}
          BY <3>1, <5>2 DEF Running
        <5>3. CASE phase[d] = "answered" /\ call[d].refund \notin Dirty
          <6>1. /\ d \in credited
                /\ memory[call[d].refund] = [type |-> "refund", of |-> call[c].on]
            BY <4>3, <5>1, <5>3 DEF RefundIsRecorded, Started
          <6>2. memory[call[d].refund] # Absent
            <7>1. call[c].on \in TransactionRows
              BY <1>1, <2>1, CallsAreWellFormed DEF CallIsWellFormed, Refunds
            <7>2. memory[call[d].refund] \in TransactionValues
              BY <6>1, <7>1 DEF TransactionValues
            <7>3. QED
              BY <1>3, <4>3, <7>2, AbsentIsNoValue, ValuesByTable
                 DEF ValuesAreGiven, TransactionRows, RowsOf
          <6>3. call[d].refund \in RefundsOf(memory, call[c].on)
            BY <1>3, <4>3, <6>1, <6>2 DEF RefundsOf, In, TransactionRows, RowsOf
          <6>4. QED
            BY <4>1, <6>3
        <5>4. phase[d] \in Phases /\ phase[d] # "idle"
          BY <1>1, <4>3, <5>1 DEF StoreTypeOK, RefundIsRecorded, Ready
        <5>5. QED
          BY <1>2, <5>1, <5>2, <5>3, <5>4 DEF Phases
      <4>4. \A d \in Calls : d # c => RefundsMeet(c, d)' /\ RefundsMeet(d, c)'
        BY <1>2, <4>3 DEF RefundsMeet, Refunds
      <4>5. QED
        BY <1>8, <2>1, <2>2, <4>2, <4>4
    <3>4. QED
      BY <3>2, <3>3
  <2>4. CASE Credit(c) \/ CreditFails(c)
    <3>1. /\ phase[c] = "waiting" /\ phase'[c] \in {"resuming", "failed"} /\ beside' = beside
          /\ paying[c]
      BY <1>1, <2>4 DEF Credit, CreditFails, Settle, Move, StoreTypeOK, paymentVars
    <3>2. RefundIsRecorded(c)'
      BY <3>1 DEF RefundIsRecorded, Ready
    <3>3. \A d \in Calls : d # c => RefundsMeet(c, d)' /\ RefundsMeet(d, c)'
      BY <1>9, <2>2, <3>1 DEF Started
    <3>4. QED
      BY <1>8, <2>1, <2>2, <3>2, <3>3
  <2>5. QED
    BY <1>11, <2>3, <2>4
<1>12. QED
  BY <1>5, <1>7, <1>10, <1>11, PaymentSteps

\* Two refunds of one transaction are credited only as RefundedOnce says.
THEOREM RefundsFindEachOther ==
  ASSUME ValuesAreGiven
  PROVE  Spec => []RefundedOnce
<1>1. CommandsInit => RefundInv
  BY DEF CommandsInit, StoreInit, RefundInv, RefundIsRecorded, RefundsMeet, Started, Ready
<1>2. RefundInv => RefundedOnce
  BY DEF RefundInv, RefundsMeet, RefundedOnce, Refunds, Started
<1>3. StoreInv /\ RefundInv /\ [CommandsNext]_vars => RefundInv'
  BY RefundIsStable
<1>4. QED
  BY <1>1, <1>2, <1>3, StoreInvariant, PTL DEF Spec

-----------------------------------------------------------------------------
\* A sum of one value, and of none.
LEMMA SmallSums ==
  ASSUME NEW fun
  PROVE  /\ SumFunctionOnSet(fun, {}) = 0
         /\ \A x : fun[x] \in Nat => SumFunctionOnSet(fun, {x}) = fun[x]
<1>1. SumFunctionOnSet(fun, {}) = 0
  BY FS_EmptySet, SumUnfolds
<1>2. ASSUME NEW x, fun[x] \in Nat PROVE SumFunctionOnSet(fun, {x}) = fun[x]
  <2>1. IsFiniteSet({}) /\ x \notin {} /\ {} \cup {x} = {x} /\ \A y \in {} : fun[y] \in Nat
    BY FS_EmptySet
  <2>2. SumFunctionOnSet(fun, {} \cup {x}) = fun[x] + SumFunctionOnSet(fun, {})
    BY <1>2, <2>1, SumOfOneMore
  <2>3. QED
    BY <1>1, <1>2, <2>1, <2>2
<1>3. QED
  BY <1>1, <1>2

\* What is raised is a natural, and grows by what one more commitment is worth.
LEMMA OneMoreCounted ==
  ASSUME NEW s
  PROVE  /\ CountedAmount(s) \in Nat
         /\ Counted(s) = {} => CountedAmount(s) = 0
         /\ \A t : Counted(t) = Counted(s) => CountedAmount(t) = CountedAmount(s)
         /\ \A t : \A r \in Commitments \ Counted(s) : Counted(t) = Counted(s) \cup {r} =>
                CountedAmount(t) = CountedAmount(s) + Funding[r].amount
<1> DEFINE fun == [r \in Commitments |-> Funding[r].amount]
<1>1. Counted(s) \in SUBSET Commitments /\ IsFiniteSet(Counted(s))
  BY CommitmentsAreFinite, FS_Subset DEF Counted
<1>2. \A r \in Commitments : fun[r] \in Nat /\ fun[r] = Funding[r].amount
  BY FundingIsGiven DEF Fundings
<1>3. \A t : CountedAmount(t) = SumFunctionOnSet(fun, Counted(t))
  BY DEF CountedAmount
<1> HIDE DEF fun
<1>4. CountedAmount(s) \in Nat
  BY <1>1, <1>2, <1>3, SumIsNatural
<1>5. Counted(s) = {} => CountedAmount(s) = 0
  BY <1>3, SmallSums
<1>6. ASSUME NEW t, NEW r \in Commitments \ Counted(s), Counted(t) = Counted(s) \cup {r}
      PROVE  CountedAmount(t) = CountedAmount(s) + Funding[r].amount
  <2>1. SumFunctionOnSet(fun, Counted(s) \cup {r}) = fun[r] + SumFunctionOnSet(fun, Counted(s))
    BY <1>1, <1>2, <1>6, SumOfOneMore
  <2>2. CountedAmount(t) = fun[r] + CountedAmount(s)
    BY <1>3, <1>6, <2>1
  <2>3. fun[r] \in Nat /\ fun[r] = Funding[r].amount
    BY <1>2
  <2>4. QED
    BY <1>4, <2>2, <2>3
<1>7. QED
  BY <1>3, <1>4, <1>5, <1>6

\* A store whose project, round and card agree with its commitments.
Balanced(s) ==
  /\ s[Project].total = StartFunding + CountedAmount(s)
  /\ s[Round] # Absent => s[Round].total = CountedAmount(s)
  /\ \A r \in In(s, "project_tracking") : s[r].total = CountedAmount(s)
  /\ HasItsCard(s)

\* With one card at most, its total is the sum of all.
LEMMA BalancedStores ==
  ASSUME NEW s
  PROVE  /\ HasItsCard(s) /\ FundingAgrees(s)
              /\ (\A r \in In(s, "project_tracking") : s[r].total \in Nat)
              => Balanced(s)
         /\ Balanced(s) => FundingAgrees(s)
<1> DEFINE cards == In(s, "project_tracking")
           fun == [r \in cards |-> s[r].total]
<1>1. SumFunction(fun) = SumFunctionOnSet(fun, cards)
  BY DEF SumFunction
<1>2. CASE cards = {}
  <2>1. SumFunction(fun) = 0
    BY <1>1, <1>2, SmallSums
  <2>2. HasItsCard(s) => Counted(s) = {}
    BY <1>2 DEF HasItsCard, Counted, Commitments, In
  <2>3. HasItsCard(s) => CountedAmount(s) = 0
    BY <2>2, OneMoreCounted
  <2>4. SumFunction([r \in In(s, "project_tracking") |-> s[r].total]) = 0
    BY <2>1
  <2> HIDE DEF fun
  <2>5. QED
    BY <1>2, <2>3, <2>4 DEF Balanced, FundingAgrees
<1>3. CASE HasItsCard(s) /\ cards # {}
  <2>1. PICK r \in cards : cards = {r}
    BY <1>3 DEF HasItsCard
  <2>2. CountedAmount(s) \in Nat
    BY OneMoreCounted
  <2>3. s[r].total \in Nat => SumFunction(fun) = s[r].total
    <3>1. fun[r] = s[r].total
      OBVIOUS
    <3> HIDE DEF fun
    <3>2. QED
      BY <1>1, <2>1, <3>1, SmallSums
  <2>4. fun = [q \in In(s, "project_tracking") |-> s[q].total]
    OBVIOUS
  <2> HIDE DEF fun
  <2>5. QED
    BY <2>1, <2>2, <2>3, <2>4 DEF Balanced, FundingAgrees
<1>4. QED
  BY <1>2, <1>3 DEF Balanced

\* A step that counts the same commitments: it keeps the totals or appends the first card.
CountStays ==
  /\ memory[Project] # Absent /\ memory'[Project].total = memory[Project].total
  /\ memory'[Round] = memory[Round]
  /\ Counted(memory') = Counted(memory)
  /\ \/ /\ \A r \in Cards : memory'[r] = memory[r]
        /\ \/ In(memory, "project_tracking") # {}
           \/ In(memory', "project_funding_commitments")
                \subseteq In(memory, "project_funding_commitments")
     \/ /\ In(memory, "project_tracking") = {}
        /\ \E q \in Cards : In(memory', "project_tracking") = {q} /\ memory'[q].total = 0

\* A step that counts one more, r, in the project, the round and on the card.
CountGrows(r) ==
  /\ r \in Commitments \ Counted(memory)
  /\ Counted(memory') = Counted(memory) \cup {r}
  /\ memory[Project] # Absent /\ memory'[Project].total = memory[Project].total + Funding[r].amount
  /\ memory'[Round] # Absent =>
       memory[Round] # Absent /\ memory'[Round].total = memory[Round].total + Funding[r].amount
  /\ In(memory', "project_tracking") = In(memory, "project_tracking")
  /\ HasItsCard(memory) => \A q \in In(memory, "project_tracking") :
                               memory'[q].total = memory[q].total + Funding[r].amount
  /\ In(memory', "project_funding_commitments") = In(memory, "project_funding_commitments")

LEMMA BalanceIsKept ==
  ASSUME Balanced(memory), memory'[Project] # Absent,
         \/ \A r \in ProjectRows : memory'[r] = memory[r]
         \/ CountStays
         \/ \E r : CountGrows(r)
  PROVE  Balanced(memory')
<1>1. CASE \A r \in ProjectRows : memory'[r] = memory[r]
  <2>1. /\ {Project, Round} \subseteq ProjectRows /\ Cards \subseteq ProjectRows
        /\ Commitments \subseteq ProjectRows
    BY OneProjectAndExam DEF ProjectRows, ProjectTables, Project, Round, Cards, Commitments, RowsOf
  <2>2. Counted(memory') = Counted(memory)
    BY <1>1, <2>1 DEF Counted
  <2>3. /\ In(memory', "project_tracking") = In(memory, "project_tracking")
        /\ In(memory', "project_funding_commitments") = In(memory, "project_funding_commitments")
        /\ \A r \in In(memory, "project_tracking") : memory'[r] = memory[r]
    BY <1>1, <2>1 DEF In, Cards, Commitments
  <2>4. CountedAmount(memory') = CountedAmount(memory)
    BY <2>2, OneMoreCounted
  <2>5. QED
    BY <1>1, <2>1, <2>3, <2>4 DEF Balanced, HasItsCard
<1>2. CASE CountStays
  <2>1. CountedAmount(memory') = CountedAmount(memory)
    BY <1>2, OneMoreCounted DEF CountStays
  <2>2. CASE \A r \in Cards : memory'[r] = memory[r]
    <3>1. /\ In(memory', "project_tracking") = In(memory, "project_tracking")
          /\ \A r \in In(memory, "project_tracking") : memory'[r] = memory[r]
      BY <2>2 DEF In, Cards
    <3>2. HasItsCard(memory')
      BY <1>2, <3>1 DEF CountStays, Balanced, HasItsCard
    <3>3. QED
      BY <1>2, <2>1, <3>1, <3>2 DEF CountStays, Balanced
  <2>3. ASSUME In(memory, "project_tracking") = {}, NEW q \in Cards,
               In(memory', "project_tracking") = {q}, memory'[q].total = 0
        PROVE  Balanced(memory')
    <3>1. Counted(memory) = {}
      BY <2>3 DEF Balanced, HasItsCard, Counted, Commitments, In
    <3>2. CountedAmount(memory) = 0
      BY <3>1, OneMoreCounted
    <3>3. HasItsCard(memory')
      BY <2>3 DEF HasItsCard
    <3>4. QED
      BY <1>2, <2>1, <2>3, <3>2, <3>3 DEF CountStays, Balanced
  <2>4. QED
    BY <1>2, <2>2, <2>3 DEF CountStays
<1>3. ASSUME NEW r, CountGrows(r) PROVE Balanced(memory')
  <2>1. /\ CountedAmount(memory') = CountedAmount(memory) + Funding[r].amount
        /\ CountedAmount(memory) \in Nat
    BY <1>3, OneMoreCounted DEF CountGrows
  <2>2. Funding[r].amount \in Nat /\ StartFunding \in Nat
    BY <1>3, FundingIsGiven DEF CountGrows, Fundings
  <2>3. HasItsCard(memory')
    BY <1>3 DEF CountGrows, Balanced, HasItsCard
  <2>4. memory'[Project].total = StartFunding + CountedAmount(memory')
    BY <1>3, <2>1, <2>2 DEF CountGrows, Balanced
  <2>5. memory'[Round] # Absent => memory'[Round].total = CountedAmount(memory')
    BY <1>3, <2>1, <2>2 DEF CountGrows, Balanced
  <2>6. \A q \in In(memory', "project_tracking") : memory'[q].total = CountedAmount(memory')
    BY <1>3, <2>1, <2>2 DEF CountGrows, Balanced
  <2>7. QED
    BY <2>3, <2>4, <2>5, <2>6 DEF Balanced
<1>4. QED
  BY <1>1, <1>2, <1>3

\* The commitments a step of c appends are its own.
OnlyAppends(c) ==
  \A r \in Commitments : memory[r] = Absent /\ memory'[r] # Absent =>
      r = New("project_funding_commitments", c) /\ ~Ready(c)'

\* A section of a project command keeps or raises the count, or the project is gone.
Counts(c) ==
  /\ OnlyAppends(c)
  /\ \/ memory'[Project] = Absent
     \/ \A r \in ProjectRows : memory'[r] = memory[r]
     \/ CountStays
     \/ \E r : CountGrows(r)

LEMMA ProjectSectionsCount ==
  ASSUME StoreInv, ValuesAreGiven, NEW c \in Calls, ProjectSection(c),
         ProjectRows \cap Dirty' = {},
         call[c].op = "createCommitment" =>
             memory[New("project_funding_commitments", c)] = Absent
  PROVE  Counts(c)
<1> DEFINE cards == In(memory, "project_tracking")
<1>1. /\ StoreTypeOK /\ TypeOK /\ CallIsWellFormed(c, call[c])
      /\ memory \in Tables /\ Holds(memory, Rows)
  BY CallsAreWellFormed, StoreHolds DEF StoreInv, TypeOK
<1>2. /\ {Project, Round} \subseteq Rows /\ Cards \subseteq Rows /\ Commitments \subseteq Rows
      /\ Project # Round /\ {Project, Round} \cap (Cards \cup Commitments) = {}
      /\ Cards \cap Commitments = {}
      /\ Project[1] = "projects" /\ Round[1] = "project_funding_rounds"
      /\ \A r \in Cards : r[1] = "project_tracking"
      /\ \A r \in Commitments : r[1] = "project_funding_commitments"
  BY OneProjectAndExam DEF Project, Round, Cards, Commitments, RowsOf
<1>3. /\ memory[Project] # Absent => memory[Project] \in ProjectValues
      /\ memory[Round] # Absent => memory[Round] \in RoundValues
      /\ \A r \in Cards : memory[r] # Absent => memory[r] \in CardValues
      /\ \A r \in Commitments : memory[r] # Absent => memory[r] \in CommitmentValues
  <2>1. \A r \in Rows : memory[r] # Absent => memory[r] \in RowValues(r)
    BY <1>1 DEF Holds
  <2>2. \A r \in Commitments : RowValues(r) \subseteq CommitmentValues
    BY <1>2, ValuesByTable
  <2>3. QED
    BY <1>2, <2>1, <2>2, ValuesByTable
<1>4. cards \subseteq Cards /\ \A r \in Cards : r \in cards <=> memory[r] # Absent
  BY DEF In, Cards
<1>5. ASSUME NEW f, DOMAIN f \in SUBSET Rows, Write(c, f)
      PROVE  /\ \A r \in Rows : memory'[r] = IF r \in DOMAIN f THEN f[r] ELSE memory[r]
             /\ ~Ready(c)'
  BY <1>1, <1>5 DEF Write, Collect, Put, Move, Ready, StoreTypeOK
<1>6. CASE Pass(c, "answered")
  BY <1>6 DEF Pass, Counts, OnlyAppends
  \* A commitment is rewritten that counts as it did.
<1>7. ASSUME NEW r \in Commitments, NEW v, NEW f, f = [x \in {r} |-> v], Write(c, f),
             memory[r] # Absent, v # Absent,
             v.status \in {"active", "completed"}
               <=> memory[r].status \in {"active", "completed"}
      PROVE  Counts(c)
  <2>1. DOMAIN f = {r} /\ f[r] = v /\ DOMAIN f \in SUBSET Rows
    BY <1>2, <1>7
  <2>2. memory'[r] = v /\ \A x \in Rows : x # r => memory'[x] = memory[x]
    BY <1>2, <1>5, <1>7, <2>1
  <2>3. /\ memory'[Project] = memory[Project] /\ memory'[Round] = memory[Round]
        /\ \A x \in Cards : memory'[x] = memory[x]
    BY <1>2, <2>2
  <2>4. Counted(memory') = Counted(memory)
    BY <1>2, <1>7, <2>2 DEF Counted
  <2>5. In(memory', "project_funding_commitments")
          \subseteq In(memory, "project_funding_commitments")
    BY <1>2, <1>7, <2>2 DEF In, RowsOf, Commitments
  <2>6. OnlyAppends(c)
    BY <1>2, <1>7, <2>2 DEF OnlyAppends
  <2>7. QED
    BY <2>3, <2>4, <2>5, <2>6 DEF Counts, CountStays
  \* The card of a command that finds none.
<1>8. ASSUME NEW n \in Nat, New("project_tracking", c) \in Rows,
             NEW f, DOMAIN f \in SUBSET Rows, Write(c, f),
             Cards \cap DOMAIN f = DOMAIN NewCard(c, n),
             \A x \in DOMAIN NewCard(c, n) : f[x] = NewCard(c, n)[x]
      PROVE  \/ (\A x \in Cards : memory'[x] = memory[x]) /\ cards # {}
             \/ /\ cards = {}
                /\ \E q \in Cards : In(memory', "project_tracking") = {q} /\ memory'[q].total = 0
  <2> DEFINE k == New("project_tracking", c)
             card == [total |-> 0, committed |-> n]
  <2>1. k \in Cards /\ RowValues(k) = CardValues
    BY <1>8, ValuesByTable DEF New, Cards, RowsOf
  <2>2. CASE cards # {}
    <3>1. DOMAIN NewCard(c, n) = {}
      BY <2>2 DEF NewCard, NoRows
    <3>2. QED
      BY <1>2, <1>5, <1>8, <2>2, <3>1
  <2>3. CASE cards = {}
    <3>1. NewCard(c, n) = [x \in {k} |-> card]
      BY <2>3 DEF NewCard
    <3>2. card # Absent /\ card.total = 0
      <4>1. card \in RowValues(k)
        BY <1>8, <2>1 DEF CardValues
      <4>2. QED
        BY <1>2, <2>1, <4>1, AbsentIsNoValue DEF ValuesAreGiven
    <3> HIDE DEF card, k
    <3>3. Cards \cap DOMAIN f = {k} /\ f[k] = card
      BY <1>8, <3>1
    <3>4. memory'[k] = card /\ \A x \in Cards : x # k => memory'[x] = memory[x]
      BY <1>2, <1>5, <1>8, <2>1, <3>3
    <3>5. In(memory', "project_tracking") = {k}
      BY <1>4, <2>1, <2>3, <3>2, <3>4 DEF In, Cards
    <3>6. QED
      BY <2>1, <2>3, <3>2, <3>4, <3>5
  <2>4. QED
    BY <2>2, <2>3
<1>9. CASE CreateCommitment(c)
  <2> DEFINE r == New("project_funding_commitments", c)
             offer == [status |-> "pending_c2p_validation", periods |-> {}, repaid |-> 0]
             card == NewCard(c, Funding[r].amount)
             f == [x \in {r} \cup DOMAIN card |-> IF x = r THEN offer ELSE card[x]]
  <2>1. r \in Commitments /\ New("project_tracking", c) \in Rows /\ memory[r] = Absent
    BY <1>1, <1>9 DEF CallIsWellFormed, CreateCommitment, New, Commitments, RowsOf
  <2>2. Funding[r].amount \in Nat
    BY <2>1, FundingIsGiven DEF Fundings
  <2>3. DOMAIN card \subseteq Cards /\ New("project_tracking", c) \in Cards
    BY <2>1 DEF NewCard, NoRows, New, Cards, RowsOf
  <2>4. CASE ~ProjectIsOpen
    BY <1>6, <1>9, <2>4 DEF CreateCommitment, Refused
  <2>5. CASE ProjectIsOpen
    <3>1. Write(c, f)
      BY <1>9, <2>5 DEF CreateCommitment
    <3>2. /\ DOMAIN f = {r} \cup DOMAIN card /\ DOMAIN f \in SUBSET Rows
          /\ r \notin DOMAIN card /\ f[r] = offer
          /\ \A x \in DOMAIN card : f[x] = card[x]
      BY <1>2, <2>1, <2>3
    <3>3. offer.status \notin {"active", "completed"}
      OBVIOUS
    <3> HIDE DEF f, card, offer
    <3>4. Cards \cap DOMAIN f = DOMAIN card
      BY <1>2, <2>1, <2>3, <3>2
    <3>5. \/ (\A x \in Cards : memory'[x] = memory[x]) /\ cards # {}
          \/ /\ cards = {}
             /\ \E q \in Cards : In(memory', "project_tracking") = {q} /\ memory'[q].total = 0
      BY <1>8, <2>1, <2>2, <3>1, <3>2, <3>4 DEF card
    <3>6. /\ \A x \in Rows : memory'[x] = IF x \in DOMAIN f THEN f[x] ELSE memory[x]
          /\ ~Ready(c)'
      BY <1>5, <3>1, <3>2
    <3>7. /\ memory'[Project] = memory[Project] /\ memory'[Round] = memory[Round]
          /\ \A x \in Commitments : x # r => memory'[x] = memory[x]
          /\ memory'[r] = offer
      BY <1>2, <2>1, <2>3, <3>2, <3>6
    <3>8. Counted(memory') = Counted(memory)
      BY <2>1, <3>3, <3>7 DEF Counted
    <3>9. OnlyAppends(c)
      BY <3>6, <3>7 DEF OnlyAppends
    <3>10. QED
      BY <2>5, <3>5, <3>7, <3>8, <3>9 DEF Counts, CountStays, ProjectIsOpen
  <2>6. QED
    BY <2>4, <2>5
<1>10. CASE ReviewCommitment(c)
  <2> DEFINE r == call[c].on
             v == [memory[r] EXCEPT !.status = call[c].status]
             f == [x \in {r} |-> [memory[x] EXCEPT !.status = call[c].status]]
  <2>1. r \in Commitments /\ call[c].status \in {"approved_contract_ready", "rejected"}
    BY <1>1, <1>10 DEF CallIsWellFormed, ReviewCommitment
  <2>2. CASE ~Is(r, "pending_c2p_validation")
    BY <1>6, <1>10, <2>2 DEF ReviewCommitment, Refused
  <2>3. CASE Is(r, "pending_c2p_validation")
    <3>1. memory[r] # Absent /\ memory[r].status = "pending_c2p_validation"
      BY <2>3 DEF Is
    <3>2. v.status = call[c].status /\ v \in RowValues(r)
      BY <1>1, <2>1, <3>1, ReviewedRow
    <3>3. f = [x \in {r} |-> v] /\ Write(c, f)
      BY <1>10, <2>3 DEF ReviewCommitment
    <3> HIDE DEF f, v
    <3>4. v # Absent
      BY <1>2, <2>1, <3>2, AbsentIsNoValue DEF ValuesAreGiven
    <3>5. QED
      BY <1>7, <2>1, <3>1, <3>2, <3>3, <3>4
  <2>4. QED
    BY <2>2, <2>3
<1>11. CASE MarkInstallmentPaid(c)
  <2> DEFINE r == call[c].on
             schedule == 0..(Funding[r].months - 1)
             periods == memory[r].periods \cup {call[c].period}
             status == IF periods = schedule THEN "completed" ELSE "active"
             v == [status |-> status, periods |-> periods, repaid |-> Paid(Funding[r], periods)]
             f == [x \in {r} |-> v]
  <2>1. r \in Commitments
    BY <1>1, <1>11 DEF CallIsWellFormed, MarkInstallmentPaid
  <2>2. CASE ~(Is(r, "active") /\ call[c].period \in schedule \ memory[r].periods)
    BY <1>6, <1>11, <2>2 DEF MarkInstallmentPaid, Refused
  <2>3. CASE Is(r, "active") /\ call[c].period \in schedule \ memory[r].periods
    <3>1. /\ memory[r] # Absent /\ memory[r].status = "active"
          /\ call[c].period \in schedule
      BY <2>3 DEF Is
    <3>2. Write(c, f)
      BY <1>11, <2>3 DEF MarkInstallmentPaid
    <3>3. v.status = status /\ status \in {"active", "completed"} /\ f = [x \in {r} |-> v]
      OBVIOUS
    <3>4. /\ v = [status |-> status, periods |-> periods, repaid |-> Paid(Funding[r], periods)]
          /\ periods = memory[r].periods \cup {call[c].period}
          /\ status = "completed" => periods = schedule
      OBVIOUS
    <3> HIDE DEF f, v, status, periods
    <3>5. v \in RowValues(r)
      BY <1>1, <2>1, <3>1, <3>3, <3>4, PaidRow
    <3>6. v # Absent
      BY <1>2, <2>1, <3>5, AbsentIsNoValue DEF ValuesAreGiven
    <3>7. QED
      BY <1>7, <2>1, <3>1, <3>2, <3>3, <3>6
  <2>4. QED
    BY <2>2, <2>3
<1>12. CASE ActivateCommitment(c)
  <2> DEFINE r == call[c].on
             a == Funding[r].amount
             f == [x \in {r} \cup Totals |-> IF x = r THEN Activated(r) ELSE Credited(x, a)]
  <2>1. r \in Commitments /\ a \in Nat
    BY <1>1, <1>12, FundingIsGiven DEF CallIsWellFormed, ActivateCommitment, Fundings
  <2>2. CASE ~Is(r, "approved_contract_ready")
    BY <1>6, <1>12, <2>2 DEF ActivateCommitment, Refused
  <2>3. CASE Is(r, "approved_contract_ready") /\ ~ProjectIsOpen
    <3>1. r \in unsaved'
      BY <1>12, <2>3 DEF ActivateCommitment, Throw
    <3>2. r \in ProjectRows \cap Dirty'
      BY <1>2, <2>1, <3>1 DEF ProjectRows, ProjectTables, Dirty
    <3>3. QED
      BY <3>2
  <2>4. CASE Is(r, "approved_contract_ready") /\ ProjectIsOpen
    <3>1. /\ memory[r] # Absent /\ memory[r].status = "approved_contract_ready"
          /\ memory[Project] # Absent
      BY <2>4 DEF Is, ProjectIsOpen
    <3>2. /\ Activated(r) \in RowValues(r) /\ Activated(r).status = "active"
          /\ Activated(r) # Absent
      <4>1. Activated(r) \in RowValues(r) /\ Activated(r).status = "active"
        BY <1>1, <2>1, <3>1, ActivatedRow
      <4>2. QED
        BY <1>2, <2>1, <4>1, AbsentIsNoValue DEF ValuesAreGiven
    <3>3. /\ Totals \in SUBSET Rows /\ Project \in Totals
          /\ (memory[Round] # Absent) <=> (Round \in Totals)
          /\ \A x \in Totals : /\ memory[x] # Absent
                               /\ x[1] \in {"projects", "project_funding_rounds",
                                            "project_tracking"}
      <4>1. /\ In(memory, "project_funding_rounds") \subseteq Rows
            /\ \A x \in In(memory, "project_funding_rounds") :
                  memory[x] # Absent /\ x[1] = "project_funding_rounds"
            /\ memory[Round] # Absent => Round \in In(memory, "project_funding_rounds")
        BY <1>2 DEF In, RowsOf
      <4>2. cards # {} => Find(memory, "project_tracking") \in cards
        BY Found
      <4>3. \A x \in Totals : \/ x = Project
                              \/ x \in In(memory, "project_funding_rounds")
                              \/ x \in cards
        BY <4>2 DEF Totals
      <4>4. Project \in Totals /\ In(memory, "project_funding_rounds") \subseteq Totals
        BY DEF Totals
      <4>5. \A x \in cards : memory[x] # Absent /\ x \in Cards
        BY <1>4
      <4> HIDE DEF cards
      <4>6. ASSUME NEW x \in Totals
            PROVE  /\ x \in Rows /\ memory[x] # Absent
                   /\ x[1] \in {"projects", "project_funding_rounds", "project_tracking"}
        BY <1>2, <3>1, <4>1, <4>3, <4>5
      <4>7. (memory[Round] # Absent) <=> (Round \in Totals)
        BY <4>1, <4>4, <4>6
      <4>8. QED
        BY <4>4, <4>6, <4>7
    <3>4. \A x \in Totals : /\ Credited(x, a).total = memory[x].total + a
                            /\ Credited(x, a) # Absent
      <4>1. ASSUME NEW x \in Totals
            PROVE  /\ Credited(x, a).total = memory[x].total + a
                   /\ Credited(x, a) \in RowValues(x)
        <5> HIDE DEF a
        <5>1. QED
          BY <1>1, <2>1, <3>3, CreditedRows
      <4> HIDE DEF a
      <4>2. QED
        BY <3>3, <4>1, AbsentIsNoValue DEF ValuesAreGiven
    <3>5. r \notin Totals
      BY <1>2, <2>1, <3>3
    <3>6. /\ DOMAIN f = {r} \cup Totals /\ DOMAIN f \in SUBSET Rows
          /\ f[r] = Activated(r) /\ \A x \in Totals : f[x] = Credited(x, a)
      BY <1>2, <2>1, <3>3, <3>5
    <3>7. Write(c, f)
      BY <1>12, <2>4 DEF ActivateCommitment
    <3>8. a = Funding[r].amount
      OBVIOUS
    <3> HIDE DEF f, a
    <3>9. /\ memory'[r] = Activated(r)
          /\ \A x \in Totals : memory'[x] = Credited(x, a)
          /\ \A x \in Rows : x # r /\ x \notin Totals => memory'[x] = memory[x]
      BY <1>2, <1>5, <2>1, <3>3, <3>5, <3>6, <3>7
    <3>10. \A x \in Commitments : x # r => memory'[x] = memory[x]
      BY <1>2, <3>3, <3>9
    <3>11. Counted(memory') = Counted(memory) \cup {r} /\ r \notin Counted(memory)
      BY <2>1, <3>1, <3>2, <3>9, <3>10 DEF Counted
    <3>12. memory'[Project].total = memory[Project].total + a
      BY <3>3, <3>4, <3>9
    <3>13. memory'[Round] # Absent =>
             memory[Round] # Absent /\ memory'[Round].total = memory[Round].total + a
      <4>1. CASE memory[Round] = Absent
        BY <1>2, <2>1, <3>3, <3>9, <4>1
      <4>2. CASE memory[Round] # Absent
        BY <3>3, <3>4, <3>9, <4>2
      <4>3. QED
        BY <4>1, <4>2
    <3>14. In(memory', "project_tracking") = cards
      <4>1. ASSUME NEW x \in Cards PROVE memory'[x] # Absent <=> memory[x] # Absent
        <5>1. CASE x \in Totals
          BY <3>3, <3>4, <3>9, <5>1
        <5>2. CASE x \notin Totals
          BY <1>2, <2>1, <3>9, <4>1, <5>2
        <5>3. QED
          BY <5>1, <5>2
      <4>2. QED
        BY <4>1 DEF In, Cards
    <3>15. HasItsCard(memory) => \A q \in cards : memory'[q].total = memory[q].total + a
      <4>1. ASSUME HasItsCard(memory), NEW q \in cards
            PROVE  memory'[q].total = memory[q].total + a
        <5>1. q = Find(memory, "project_tracking")
          BY <4>1, Found DEF HasItsCard
        <5>2. q \in Totals
          BY <4>1, <5>1 DEF Totals
        <5>3. QED
          BY <3>4, <3>9, <5>2
      <4>2. QED
        BY <4>1
    <3>16. In(memory', "project_funding_commitments") = In(memory, "project_funding_commitments")
      BY <2>1, <3>1, <3>2, <3>9, <3>10 DEF In, Commitments
    <3>17. CountGrows(r)
      BY <2>1, <3>1, <3>8, <3>11, <3>12, <3>13, <3>14, <3>15, <3>16 DEF CountGrows
    <3>18. OnlyAppends(c)
      BY <3>1, <3>10 DEF OnlyAppends
    <3>19. QED
      BY <3>17, <3>18 DEF Counts
  <2>5. QED
    BY <2>2, <2>3, <2>4
<1>13. CASE UpdateOwnerProject(c)
  <2> DEFINE v == [memory[Project] EXCEPT !.status = call[c].status]
             f == [r \in {Project} |-> [memory[r] EXCEPT !.status = call[c].status]]
  <2>1. CASE memory[Project] = Absent
    BY <1>6, <1>13, <2>1 DEF UpdateOwnerProject, Refused
  <2>2. CASE memory[Project] # Absent
    <3>1. v.total = memory[Project].total
      BY <1>3, <2>2 DEF ProjectValues
    <3>2. Write(c, f) /\ DOMAIN f = {Project} /\ f[Project] = v /\ DOMAIN f \in SUBSET Rows
      BY <1>2, <1>13, <2>2 DEF UpdateOwnerProject
    <3> HIDE DEF f, v
    <3>3. memory'[Project] = v /\ \A x \in Rows : x # Project => memory'[x] = memory[x]
      BY <1>2, <1>5, <3>2
    <3>4. /\ memory'[Round] = memory[Round]
          /\ \A x \in Cards \cup Commitments : memory'[x] = memory[x]
      BY <1>2, <3>3
    <3>5. Counted(memory') = Counted(memory) /\ OnlyAppends(c)
      BY <3>4 DEF Counted, OnlyAppends
    <3>6. In(memory', "project_funding_commitments")
            \subseteq In(memory, "project_funding_commitments")
      BY <3>4 DEF In, Commitments
    <3>7. QED
      BY <2>2, <3>1, <3>3, <3>4, <3>5, <3>6 DEF Counts, CountStays
  <2>3. QED
    BY <2>1, <2>2
<1>14. CASE DeleteOwnerProject(c)
  <2> DEFINE gone == {Project} \cup In(memory, "project_funding_rounds") \cup cards
  <2>1. CASE Refused(c)
    BY <1>6, <2>1 DEF Refused
  <2>2. CASE ~Refused(c)
    <3>1. Collect(c, Remove(memory, gone), gone)
      BY <1>14, <2>2 DEF DeleteOwnerProject, Drop
    <3>2. gone \in SUBSET Rows /\ gone \cap Commitments = {} /\ Project \in gone
      BY <1>2, <1>4 DEF In, RowsOf
    <3> HIDE DEF gone
    <3>3. memory'[Project] = Absent /\ \A x \in Commitments : memory'[x] = memory[x]
      BY <1>2, <3>1, <3>2 DEF Collect, Remove
    <3>4. QED
      BY <3>3 DEF Counts, OnlyAppends
  <2>3. QED
    BY <2>1, <2>2
<1>15. CASE ExpressPartnerInterest(c)
  <2> DEFINE f == NewCard(c, 0)
  <2>1. New("project_tracking", c) \in Rows /\ New("project_tracking", c) \in Cards
    BY <1>1, <1>15 DEF CallIsWellFormed, ExpressPartnerInterest, New, Cards, RowsOf
  <2>2. CASE memory[Project] = Absent
    BY <1>6, <1>15, <2>2 DEF ExpressPartnerInterest, Refused
  <2>3. CASE memory[Project] # Absent
    <3>1. Write(c, f) /\ DOMAIN f \subseteq Cards /\ DOMAIN f \in SUBSET Rows
      BY <1>2, <1>15, <2>1, <2>3 DEF ExpressPartnerInterest, NewCard, NoRows
    <3>2. Cards \cap DOMAIN f = DOMAIN NewCard(c, 0)
          /\ \A x \in DOMAIN NewCard(c, 0) : f[x] = NewCard(c, 0)[x]
      BY <3>1
    <3> HIDE DEF f
    <3>3. \/ (\A x \in Cards : memory'[x] = memory[x]) /\ cards # {}
          \/ /\ cards = {}
             /\ \E q \in Cards : In(memory', "project_tracking") = {q} /\ memory'[q].total = 0
      BY <1>8, <2>1, <3>1, <3>2
    <3>4. \A x \in Rows : x \notin Cards => memory'[x] = memory[x]
      BY <1>5, <3>1
    <3>5. /\ memory'[Project] = memory[Project] /\ memory'[Round] = memory[Round]
          /\ \A x \in Commitments : memory'[x] = memory[x]
      BY <1>2, <3>4
    <3>6. Counted(memory') = Counted(memory) /\ OnlyAppends(c)
      BY <3>5 DEF Counted, OnlyAppends
    <3>7. QED
      BY <2>3, <3>3, <3>5, <3>6 DEF Counts, CountStays
  <2>4. QED
    BY <2>2, <2>3
<1>16. QED
  BY <1>9, <1>10, <1>11, <1>12, <1>13, <1>14, <1>15 DEF ProjectSection

\* The steps of the other commands leave the project's rows alone while none of them is in
\* a history.
LEMMA ProjectRowsStay ==
  ASSUME StoreInv, ValuesAreGiven, [CommandsNext]_vars, ProjectRows \cap Dirty' = {},
         \A c \in Calls : ~ProjectSection(c)
  PROVE  \A r \in ProjectRows : memory'[r] = memory[r]
<1>1. StoreTypeOK /\ TypeOK /\ CallsAreGiven
  BY DEF StoreInv, TypeOK
<1>2. /\ ProjectRows \subseteq Rows
      /\ ProjectRows \cap (LearningRows \cup PayoutRows \cup TransactionRows) = {}
  BY DEF ProjectRows, ProjectTables, LearningRows, LearningTables, PayoutRows,
         TransactionRows, RowsOf
<1>3. ASSUME NEW c, NEW w, Sectioned(c, w), w \cap ProjectRows = {}
      PROVE  \A r \in ProjectRows : memory'[r] = memory[r]
  BY <1>2, <1>3 DEF Sectioned, Changes
<1>4. ASSUME NEW c \in Calls, LearningSection(c) \/ PurchaseSection(c)
      PROVE  \A r \in ProjectRows : memory'[r] = memory[r]
  <2>1. \/ \E next \in {"answered", "waiting"} : Pass(c, next)
        \/ Await(c) \/ \E w \in SUBSET LearningRows : Sectioned(c, w)
    BY <1>1, <1>4, LearningSections, PurchaseSections DEF PurchaseStep, LearningWrite
  <2>2. QED
    BY <1>2, <1>3, <2>1 DEF Pass, Await, Settle
<1>5. ASSUME NEW c \in Calls, PaymentSection(c)
      PROVE  \A r \in ProjectRows : memory'[r] = memory[r]
  <2>1. CASE PayoutWrite(c) \/ RefundWrite(c)
    <3>1. \E r \in PayoutRows \cup TransactionRows : Sectioned(c, {r})
      BY <2>1 DEF PayoutWrite, RefundWrite
    <3>2. QED
      BY <1>2, <1>3, <3>1
  <2>2. CASE ~(PayoutWrite(c) \/ RefundWrite(c))
    <3>1. memory' = memory
      BY <1>1, <1>5, <2>2, PaymentSections
         DEF Pass, CompletePayout, CompletePayoutFails, PersistFails, storeVars, Refund, Credit,
             CreditFails, Settle
    <3>2. QED
      BY <3>1
  <2>3. QED
    BY <2>1, <2>2
<1>6. ASSUME NEW c \in Calls, Finish(c) PROVE \A r \in ProjectRows : memory'[r] = memory[r]
  BY <1>6 DEF Finish, Persist, PersistFails
<1>7. CASE Reload \/ Restart \/ UNCHANGED vars
  <2>1. Silent
    BY <1>7 DEF Silent, vars
  <2>2. QED
    BY <1>2, <2>1, SilentRows DEF Kept
<1>8. QED
  BY <1>4, <1>5, <1>6, <1>7 DEF CommandsNext

\* While no row of the project is in a history, the store is balanced, and a commitment
\* that is still to be offered has no row.
FundInv ==
  ProjectRows \cap Dirty = {} =>
    /\ memory[Project] # Absent => Balanced(memory)
    /\ \A c \in Calls : Ready(c) /\ call[c].op = "createCommitment" =>
           memory[New("project_funding_commitments", c)] = Absent

LEMMA FundIsStable ==
  ASSUME StoreInv, ValuesAreGiven, FundInv, [CommandsNext]_vars
  PROVE  FundInv'
<1> DEFINE Own(c) == New("project_funding_commitments", c)
<1> SUFFICES ASSUME ProjectRows \cap Dirty' = {}
             PROVE  /\ memory'[Project] # Absent => Balanced(memory')
                    /\ \A c \in Calls : Ready(c)' /\ call[c].op = "createCommitment" =>
                           memory'[Own(c)] = Absent
  BY NothingIsForgotten DEF FundInv, ProjectRows, New, Balanced, Project, Round, CountedAmount,
                            Counted, HasItsCard, In, RowsOf, Commitments
<1>1. /\ memory[Project] # Absent => Balanced(memory)
      /\ \A c \in Calls : Ready(c) /\ call[c].op = "createCommitment" => memory[Own(c)] = Absent
  BY NothingIsForgotten DEF FundInv
<1>2. \A c \in Calls : call[c].op = "createCommitment" => Own(c) \in Commitments
  BY CallsAreWellFormed DEF StoreInv, CallIsWellFormed, New, Commitments, RowsOf
<1>3. Commitments \subseteq ProjectRows /\ Project \in ProjectRows
  BY OneProjectAndExam DEF Commitments, RowsOf, ProjectRows, ProjectTables, Project
<1>4. CASE \A r \in ProjectRows : memory'[r] = memory[r]
  <2>1. memory'[Project] # Absent => Balanced(memory')
    BY <1>1, <1>3, <1>4, BalanceIsKept
  <2>2. ASSUME NEW c \in Calls, Ready(c)', call[c].op = "createCommitment"
        PROVE  memory'[Own(c)] = Absent
    BY <1>1, <1>2, <1>3, <1>4, <2>2, NothingIsForgotten
  <2>3. QED
    BY <2>1, <2>2
<1>5. ASSUME NEW c \in Calls, ProjectSection(c)
      PROVE  /\ memory'[Project] # Absent => Balanced(memory')
             /\ \A d \in Calls : Ready(d)' /\ call[d].op = "createCommitment" =>
                    memory'[Own(d)] = Absent
  <2>1. Ready(c)
    BY <1>5 DEF ProjectSection, CreateCommitment, ReviewCommitment, ActivateCommitment,
                MarkInstallmentPaid, UpdateOwnerProject, DeleteOwnerProject,
                ExpressPartnerInterest
  <2>2. Counts(c)
    BY <1>1, <1>5, <2>1, ProjectSectionsCount
  <2>3. ASSUME memory'[Project] # Absent PROVE Balanced(memory')
    <3>1. memory[Project] # Absent
      BY <1>3, <2>2, <2>3 DEF Counts, CountStays, CountGrows
    <3>2. QED
      BY <1>1, <2>2, <2>3, <3>1, BalanceIsKept DEF Counts
  <2>4. ASSUME NEW d \in Calls, Ready(d)', call[d].op = "createCommitment"
        PROVE  memory'[Own(d)] = Absent
    <3>1. memory[Own(d)] = Absent /\ Own(d) \in Commitments
      BY <1>1, <1>2, <2>4, NothingIsForgotten
    <3>2. d # c => Own(d) # Own(c)
      BY DEF New
    <3>3. QED
      BY <2>2, <2>4, <3>1, <3>2 DEF Counts, OnlyAppends
  <2>5. QED
    BY <2>3, <2>4
<1>6. QED
  BY <1>4, <1>5, ProjectRowsStay

\* What a project has raised is what its active and completed commitments are worth, in
\* AppRow, once it is settled.
THEOREM FundingCounted ==
  ASSUME ValuesAreGiven
  PROVE  Spec => []FundingIsCounted
<1>1. CommandsInit => FundInv
  <2> SUFFICES ASSUME CommandsInit PROVE FundInv
    OBVIOUS
  <2>1. PICK s \in Scenarios : app = s.rows /\ call = s.calls /\ StartsWell(s)
                               /\ app \in Tables /\ Holds(app, Rows)
    BY ScenariosAreWellFormed DEF CommandsInit
  <2>2. memory = app
    BY DEF CommandsInit, StoreInit
  <2>3. \A r \in In(app, "project_tracking") : app[r].total \in Nat
    <3> SUFFICES ASSUME NEW r \in In(app, "project_tracking")
                 PROVE  app[r].total \in Nat
      OBVIOUS
    <3>1. r \in Rows /\ r[1] = "project_tracking" /\ app[r] # Absent
      BY DEF In, RowsOf
    <3>2. app[r] \in RowValues(r)
      BY <2>1, <3>1 DEF Holds
    <3>3. RowValues(r) = CardValues
      BY <3>1, ValuesByTable
    <3>4. QED
      BY <3>2, <3>3 DEF CardValues
  <2>4. app[Project] # Absent => Balanced(app)
    BY <2>1, <2>3, BalancedStores DEF StartsWell
  <2>5. \A c \in Calls : call[c].op = "createCommitment" =>
            app[New("project_funding_commitments", c)] = Absent
    BY <2>1 DEF StartsWell
  <2>6. QED
    BY <2>2, <2>4, <2>5 DEF FundInv
<1>2. StoreInv /\ FundInv => FundingIsCounted
  <2> SUFFICES ASSUME StoreInv, FundInv, ProjectSettled, app[Project] # Absent
               PROVE  FundingAgrees(app)
    BY DEF FundingIsCounted
  <2>1. /\ {Project, Round} \subseteq ProjectRows /\ Cards \subseteq ProjectRows
        /\ Commitments \subseteq ProjectRows /\ ProjectRows \subseteq Rows
    BY OneProjectAndExam DEF ProjectRows, ProjectTables, Project, Round, Cards, Commitments, RowsOf
  <2>2. \A r \in ProjectRows : app[r] = memory[r]
    BY <2>1 DEF StoreInv, AgreeInv, Current, ProjectSettled
  <2>3. ProjectRows \cap Dirty = {} /\ memory[Project] # Absent
    BY <2>1, <2>2 DEF ProjectSettled
  <2>4. Balanced(memory)
    BY <2>3 DEF FundInv
  <2>5. CountedAmount(app) = CountedAmount(memory)
    <3>1. Counted(app) = Counted(memory)
      BY <2>1, <2>2 DEF Counted
    <3>2. QED
      BY <3>1, OneMoreCounted
  <2>6. /\ In(app, "project_tracking") = In(memory, "project_tracking")
        /\ In(app, "project_funding_commitments") = In(memory, "project_funding_commitments")
        /\ \A r \in In(app, "project_tracking") : app[r] = memory[r]
    BY <2>1, <2>2 DEF In, Cards, Commitments
  <2>7. Balanced(app)
    BY <2>1, <2>2, <2>4, <2>5, <2>6 DEF Balanced, HasItsCard
  <2>8. QED
    BY <2>7, BalancedStores
<1>3. StoreInv /\ FundInv /\ [CommandsNext]_vars => FundInv'
  BY FundIsStable
<1>4. QED
  BY <1>1, <1>2, <1>3, StoreInvariant, PTL DEF Spec
-----------------------------------------------------------------------------
\* A sum over an interval, less what grows exactly with it, stays between two functions
\* that grow slower and faster.
LEMMA PartialSums ==
  ASSUME NEW n \in Nat, NEW D \in Nat,
         NEW fun, NEW rest, \A m \in 0..(n - 1) : fun[m] \in Nat /\ rest[m] \in Nat,
         NEW base, NEW lo, NEW hi,
         \A m \in 0..n : base[m] \in Int /\ lo[m] \in Int /\ hi[m] \in Int,
         base[0] = 0, lo[0] = 0, hi[0] = 0,
         \A m \in 0..(n - 1) : /\ fun[m] = base[m + 1] - base[m] + rest[m]
                               /\ lo[m + 1] <= lo[m] + D * rest[m]
                               /\ hi[m] + D * rest[m] <= hi[m + 1]
  PROVE  LET sum == SumFunctionOnSet(fun, 0..(n - 1)) IN
         /\ sum \in Nat
         /\ lo[n] <= D * (sum - base[n]) /\ D * (sum - base[n]) <= hi[n]
<1> DEFINE Upto(k) == 0..(k - 1)
           sum(k) == SumFunctionOnSet(fun, Upto(k))
           Between(k) == lo[k] <= D * (sum(k) - base[k]) /\ D * (sum(k) - base[k]) <= hi[k]
           B == {s \in SUBSET Upto(n) : \E k \in 0..n : s = Upto(k) /\ ~Between(k)}
<1>1. \A k \in 0..n : /\ Upto(k) \in SUBSET Upto(n) /\ IsFiniteSet(Upto(k))
                      /\ sum(k) \in Nat
  <2> SUFFICES ASSUME NEW k \in 0..n
               PROVE  /\ Upto(k) \in SUBSET Upto(n) /\ IsFiniteSet(Upto(k))
                      /\ sum(k) \in Nat
    OBVIOUS
  <2>1. Upto(k) \in SUBSET Upto(n) /\ 0 \in Int /\ k - 1 \in Int
    OBVIOUS
  <2>2. IsFiniteSet(Upto(k))
    BY <2>1, FS_Interval
  <2>3. \A m \in Upto(k) : fun[m] \in Nat
    BY <2>1
  <2>4. QED
    BY <2>1, <2>2, <2>3, SumIsNatural
<1>2. n \in 0..n /\ IsFiniteSet(Upto(n))
  BY <1>1
<1>3. Between(0)
  <2>1. Upto(0) = {}
    OBVIOUS
  <2>2. sum(0) = 0
    BY <2>1, SmallSums
  <2> HIDE DEF sum
  <2>3. QED
    BY <2>2
<1>4. \A k \in 0..(n - 1) :
          /\ Upto(k + 1) = Upto(k) \cup {k} /\ k \notin Upto(k)
          /\ k \in 0..n /\ k + 1 \in 0..n
  OBVIOUS
<1>5. \A k \in 0..(n - 1) : sum(k + 1) = fun[k] + sum(k)
  <2> SUFFICES ASSUME NEW k \in 0..(n - 1) PROVE sum(k + 1) = fun[k] + sum(k)
    OBVIOUS
  <2>1. \A m \in Upto(k) : fun[m] \in Nat
    OBVIOUS
  <2>2. IsFiniteSet(Upto(k)) /\ fun[k] \in Nat /\ k \notin Upto(k) /\ Upto(k + 1) = Upto(k) \cup {k}
    BY <1>1, <1>4
  <2> HIDE DEF Upto
  <2>3. QED
    BY <2>1, <2>2, SumOfOneMore
<1> HIDE DEF sum, Upto
<1>6. \A k \in 0..(n - 1) : Between(k) => Between(k + 1)
  <2> SUFFICES ASSUME NEW k \in 0..(n - 1), Between(k) PROVE Between(k + 1)
    OBVIOUS
  <2> DEFINE x == sum(k) - base[k]
             y == sum(k + 1) - base[k + 1]
  <2>1. /\ k \in 0..n /\ k + 1 \in 0..n
        /\ sum(k) \in Nat /\ sum(k + 1) \in Nat /\ fun[k] \in Nat /\ rest[k] \in Nat
        /\ base[k] \in Int /\ base[k + 1] \in Int
        /\ lo[k] \in Int /\ lo[k + 1] \in Int /\ hi[k] \in Int /\ hi[k + 1] \in Int
    BY <1>1, <1>4
  <2>2. x \in Int /\ y \in Int /\ y = x + rest[k]
    BY <1>5, <2>1
  <2>3. /\ lo[k + 1] <= lo[k] + D * rest[k] /\ hi[k] + D * rest[k] <= hi[k + 1]
        /\ lo[k] <= D * x /\ D * x <= hi[k]
    OBVIOUS
  <2> HIDE DEF x, y
  <2>4. /\ D * y = D * x + D * rest[k]
        /\ D * x \in Int /\ D * rest[k] \in Int
    BY <2>1, <2>2
  <2>5. lo[k + 1] <= D * y /\ D * y <= hi[k + 1]
    BY <2>1, <2>3, <2>4
  <2>6. QED
    BY <2>5 DEF y
<1> HIDE DEF Between
<1>7. Between(n)
  <2> SUFFICES ASSUME ~Between(n) PROVE FALSE
    OBVIOUS
  <2>1. B # {}
    BY <1>1, <1>2
  <2>2. PICK s \in B : \A u \in B : u \subseteq s => u = s
    <3>1. B \in SUBSET SUBSET Upto(n)
      OBVIOUS
    <3> HIDE DEF B
    <3>2. QED
      BY <1>2, <2>1, <3>1, SmallestSubset
  <2>3. PICK k \in 0..n : s = Upto(k) /\ ~Between(k)
    BY <2>2
  <2>4. k # 0
    BY <1>3, <2>3
  <2>5. PICK j \in 0..(n - 1) : k = j + 1
    BY <2>4
  <2>6. ~Between(j)
    BY <1>6, <2>3, <2>5
  <2>7. Upto(j) \in B
    BY <1>1, <1>4, <2>5, <2>6
  <2>8. Upto(j) \subseteq s /\ Upto(j) # s
    BY <1>4, <2>3, <2>5
  <2>9. QED
    BY <2>2, <2>7, <2>8
<1>8. QED
  BY <1>1, <1>2, <1>7 DEF Between, sum, Upto

\* A quotient is rounded by one half at most.
LEMMA RoundedBounds ==
  ASSUME NEW m \in Nat, NEW d \in Nat \ {0}
  PROVE  LET q == Rounded(m, d) IN
         /\ q \in Nat
         /\ 2 * (d * q) <= 2 * m + d /\ 2 * m <= 2 * (d * q) + d
         /\ m = 0 => q = 0
<1> DEFINE q == (2 * m + d) \div (2 * d)
<1>1. q \in Nat /\ (2 * d) * q <= 2 * m + d /\ 2 * m + d < (2 * d) * q + 2 * d
  OBVIOUS
<1>2. (2 * d) * q = 2 * (d * q) /\ d * q \in Nat
  BY <1>1
<1> HIDE DEF q
<1>3. m = 0 => q = 0
  <2>1. ASSUME m = 0, q # 0 PROVE FALSE
    <3>1. d * q >= d
      BY <1>1, <2>1
    <3>2. QED
      BY <1>1, <1>2, <2>1, <3>1
  <2>2. QED
    BY <2>1
<1>4. Rounded(m, d) = q
  BY DEF Rounded, q
<1>5. QED
  BY <1>1, <1>2, <1>3, <1>4

\* The principals of the months are the amount, or up to half a franc a month more.
LEMMA Principals ==
  ASSUME NEW f \in Fundings, f.kind # "donation",
         NEW base, base = [k \in 0..f.months |->
                           IF k = f.months
                           THEN (f.months - 1) * MonthlyPrincipal(f) + Principal(f, f.months - 1)
                           ELSE k * MonthlyPrincipal(f)]
  PROVE  /\ base[0] = 0 /\ \A k \in 0..f.months : base[k] \in Nat
         /\ \A m \in 0..(f.months - 1) : /\ Principal(f, m) \in Nat
                                         /\ base[m + 1] = base[m] + Principal(f, m)
         /\ f.amount <= base[f.months] /\ 2 * base[f.months] <= 2 * f.amount + f.months
<1> DEFINE n == f.months
           a == f.amount
           MP == MonthlyPrincipal(f)
           most == (n - 1) * MP
<1>1. n \in 1..60 /\ a \in Nat
  BY DEF Fundings
<1>2. MP = Rounded(a, n)
  BY DEF MonthlyPrincipal
<1>3. MP \in Nat /\ 2 * (n * MP) <= 2 * a + n
  <2> HIDE DEF MP, n, a
  <2>1. n \in Nat \ {0}
    BY <1>1
  <2>2. QED
    BY <1>1, <1>2, <2>1, RoundedBounds
<1>4. /\ Principal(f, n - 1) = Less(a, most)
      /\ \A m \in 0..(n - 1) : m # n - 1 => Principal(f, m) = MP
  BY DEF Principal, Remaining
<1>5. \A k \in 0..n : base[k] = IF k = n THEN most + Principal(f, n - 1) ELSE k * MP
  OBVIOUS
<1> HIDE DEF n, a, MP
<1>6. /\ \A k \in 0..n : k * MP \in Nat
      /\ \A k \in 0..n : (k + 1) * MP = k * MP + MP
      /\ most \in Nat /\ n * MP = most + MP
  BY <1>1, <1>3
<1>7. 0 * MP = 0 /\ n # 0 /\ n \in 0..n /\ 0 \in 0..n
  BY <1>1, <1>3
<1> HIDE DEF most
<1>8. Less(a, most) \in Nat /\ a <= most + Less(a, most) /\ 2 * (most + Less(a, most)) <= 2 * a + n
  BY <1>1, <1>3, <1>6 DEF Less
<1>9. base[n] = most + Less(a, most) /\ base[0] = 0
  BY <1>4, <1>5, <1>7
<1>10. ASSUME NEW k \in 0..n PROVE base[k] \in Nat
  <2>1. CASE k = n
    <3>1. most + Less(a, most) \in Nat
      BY <1>6, <1>8
    <3>2. QED
      BY <1>9, <2>1, <3>1
  <2>2. CASE k # n
    <3>1. base[k] = k * MP
      BY <1>5, <2>2
    <3>2. QED
      BY <1>6, <3>1
  <2>3. QED
    BY <2>1, <2>2
<1>11. \A m \in 0..(n - 1) : Principal(f, m) \in Nat /\ base[m + 1] = base[m] + Principal(f, m)
  <2> SUFFICES ASSUME NEW m \in 0..(n - 1)
               PROVE  Principal(f, m) \in Nat /\ base[m + 1] = base[m] + Principal(f, m)
    OBVIOUS
  <2>1. m \in 0..n /\ m + 1 \in 0..n /\ m # n
    BY <1>1
  <2>2. base[m] = m * MP
    BY <1>5, <2>1
  <2>3. CASE m = n - 1
    <3>1. base[m] = most /\ Principal(f, m) = Less(a, most) /\ m + 1 = n
      BY <1>1, <1>4, <2>2, <2>3 DEF most
    <3>2. QED
      BY <1>8, <1>9, <3>1
  <2>4. CASE m # n - 1
    <3>1. m + 1 # n
      BY <1>1, <2>4
    <3>2. base[m + 1] = (m + 1) * MP
      BY <1>5, <2>1, <3>1
    <3>3. (m + 1) * MP = m * MP + MP
      BY <1>6, <2>1
    <3>4. QED
      BY <1>3, <1>4, <2>2, <2>4, <3>2, <3>3
  <2>5. QED
    BY <2>3, <2>4
<1>12. QED
  BY <1>8, <1>9, <1>10, <1>11 DEF n, a

\* The arithmetic of a declining share: weights n, n - 1, ..., 1 of a profit p.
LEMMA Shares ==
  ASSUME NEW n \in 1..60, NEW p \in Nat
  PROVE  /\ n * (n + 1) \in Nat \ {0}
         /\ \A m \in 0..(n - 1) :
                /\ 2 * p * (n - m) \in Nat
                /\ 2 * p * ((m + 1) * (2 * n - m)) =
                       2 * p * (m * (2 * n - m + 1)) + 2 * (2 * p * (n - m))
         /\ 2 * p * (n * (2 * n - n + 1)) = 2 * (p * (n * (n + 1)))
<1>1. n * (n + 1) \in Nat \ {0}
  <2>1. n * (n + 1) = n * n + n /\ n * n \in Nat
    OBVIOUS
  <2>2. QED
    BY <2>1
<1>2. ASSUME NEW m \in 0..(n - 1)
      PROVE  /\ 2 * p * (n - m) \in Nat
             /\ 2 * p * ((m + 1) * (2 * n - m)) =
                    2 * p * (m * (2 * n - m + 1)) + 2 * (2 * p * (n - m))
  <2>1. (m + 1) * (2 * n - m) = m * (2 * n - m + 1) + 2 * (n - m)
    OBVIOUS
  <2>2. n - m \in Nat /\ 2 * p \in Nat /\ m * (2 * n - m + 1) \in Int
    OBVIOUS
  <2>3. \A x, y, z \in Int : x * (y + 2 * z) = x * y + 2 * (x * z)
    OBVIOUS
  <2>4. QED
    BY <2>1, <2>2, <2>3
<1>3. 2 * p * (n * (2 * n - n + 1)) = 2 * (p * (n * (n + 1)))
  OBVIOUS
<1>4. QED
  BY <1>1, <1>2, <1>3

\* The rounded payments of a loan differ from what is expected of it by half a franc a
\* month for the principal and half a franc a month for the profit or the interest.
LEMMA LoanRepaid ==
  ASSUME NEW f \in Fundings, f.kind # "donation"
  PROVE  LET whole == Paid(f, 0..(f.months - 1)) IN
         /\ whole \in Nat
         /\ whole <= TotalExpected(f) + f.months
         /\ TotalExpected(f) <= whole + f.months
<1> DEFINE n == f.months
           P == ProjectedProfit(f)
           J == ProjectedInterest(f)
           D == n * (n + 1)
           pay == [m \in 0..(n - 1) |-> Payment(f, m)]
           base == [k \in 0..n |-> IF k = n THEN (n - 1) * MonthlyPrincipal(f)
                                                 + Principal(f, n - 1)
                                   ELSE k * MonthlyPrincipal(f)]
           whole == SumFunctionOnSet(pay, 0..(n - 1))
<1>1. /\ n \in 1..60 /\ n \in Nat \ {0} /\ f.amount \in Nat
      /\ f.kind \in {"profit_share_loan", "interest_loan"}
  BY DEF Fundings, Kinds
<1>2. P \in Nat /\ J \in Nat
  <2>1. \A rate \in Nat : f.amount * rate * n \in Nat
    BY <1>1
  <2>2. \A x \in Nat : Rounded(x, 1200) \in Nat
    BY 1200 \in Nat \ {0}, RoundedBounds
  <2>3. QED
    BY <2>1, <2>2, RatesAreNaturals DEF ProjectedProfit, ProjectedInterest
<1>3. TotalExpected(f) = f.amount + P + J
  BY DEF TotalExpected
<1>4. /\ base[0] = 0 /\ \A k \in 0..n : base[k] \in Nat
      /\ \A m \in 0..(n - 1) : /\ Principal(f, m) \in Nat
                               /\ base[m + 1] = base[m] + Principal(f, m)
      /\ f.amount <= base[n] /\ 2 * base[n] <= 2 * f.amount + n
  BY Principals
<1>5. \A m \in 0..(n - 1) : pay[m] = Principal(f, m) + Profit(f, m) + Interest(f)
  BY DEF Payment
<1>6. /\ \A m \in 0..(n - 1) : Profit(f, m) = Rounded(2 * P * (n - m), D)
      /\ Interest(f) = Rounded(J, n)
  BY DEF Profit, Interest
<1>7. /\ D \in Nat \ {0}
      /\ \A m \in 0..(n - 1) :
             /\ 2 * P * (n - m) \in Nat
             /\ 2 * P * ((m + 1) * (2 * n - m)) =
                    2 * P * (m * (2 * n - m + 1)) + 2 * (2 * P * (n - m))
      /\ 2 * P * (n * (2 * n - n + 1)) = 2 * (P * D)
  <2> HIDE DEF n, P
  <2>1. QED
    BY <1>1, <1>2, Shares
<1>8. /\ Interest(f) \in Nat
      /\ 2 * (n * Interest(f)) <= 2 * J + n /\ 2 * J <= 2 * (n * Interest(f)) + n
      /\ J = 0 => Interest(f) = 0
  <2> HIDE DEF n, J
  <2>1. QED
    BY <1>1, <1>2, <1>6, RoundedBounds
<1>9. \A m \in 0..(n - 1) :
          /\ Profit(f, m) \in Nat
          /\ 2 * (D * Profit(f, m)) <= 2 * (2 * P * (n - m)) + D
          /\ 2 * (2 * P * (n - m)) <= 2 * (D * Profit(f, m)) + D
          /\ 2 * P * (n - m) = 0 => Profit(f, m) = 0
  <2> HIDE DEF n, D, P
  <2>1. QED
    BY <1>6, <1>7, RoundedBounds
<1>10. Paid(f, 0..(n - 1)) = whole
  BY DEF Paid
<1> HIDE DEF n, P, J, D, pay, base
<1>11. \A m \in 0..(n - 1) : m \in 0..n /\ m + 1 \in 0..n /\ n \in 0..n
  BY <1>1
<1>12. CASE f.kind = "interest_loan"
  <2>1. P = 0
    BY <1>12 DEF P, ProjectedProfit
  <2> DEFINE I == Interest(f)
             lin == [k \in 0..n |-> k * I]
             rest == [m \in 0..(n - 1) |-> I]
  <2>2. \A m \in 0..(n - 1) : Profit(f, m) = 0
    <3>1. \A m \in 0..(n - 1) : 2 * P * (n - m) = 0
      BY <1>1, <2>1
    <3>2. QED
      BY <1>9, <3>1
  <2> HIDE DEF I
  <2>3. I \in Nat /\ 2 * (n * I) <= 2 * J + n /\ 2 * J <= 2 * (n * I) + n
    BY <1>8 DEF I
  <2>4. \A k \in 0..n : lin[k] \in Int /\ lin[k] = k * I
    BY <2>3
  <2>5. \A m \in 0..(n - 1) : lin[m + 1] = lin[m] + 1 * rest[m]
    <3> SUFFICES ASSUME NEW m \in 0..(n - 1) PROVE lin[m + 1] = lin[m] + 1 * rest[m]
      OBVIOUS
    <3>1. (m + 1) * I = m * I + I
      BY <2>3
    <3>2. lin[m + 1] = (m + 1) * I /\ lin[m] = m * I /\ rest[m] = I
      BY <1>11
    <3>3. QED
      BY <2>3, <3>1, <3>2
  <2>6. lin[0] = 0 /\ lin[n] = n * I
    BY <1>1, <2>3
  <2>7. \A m \in 0..(n - 1) : /\ pay[m] \in Nat /\ rest[m] \in Nat
                              /\ pay[m] = base[m + 1] - base[m] + rest[m]
    <3> SUFFICES ASSUME NEW m \in 0..(n - 1)
                 PROVE  /\ pay[m] \in Nat /\ rest[m] \in Nat
                        /\ pay[m] = base[m + 1] - base[m] + rest[m]
      OBVIOUS
    <3>1. rest[m] = I /\ pay[m] = Principal(f, m) + 0 + I
      BY <1>5, <2>2 DEF I
    <3>2. QED
      BY <1>4, <1>11, <2>3, <3>1
  <2> HIDE DEF lin, rest
  <2>8. \A m \in 0..(n - 1) : /\ lin[m + 1] <= lin[m] + 1 * rest[m]
                              /\ lin[m] + 1 * rest[m] <= lin[m + 1]
    BY <1>11, <2>4, <2>5
  <2>9. \A k \in 0..n : base[k] \in Int
    BY <1>4
  <2>10. /\ whole \in Nat
         /\ lin[n] <= 1 * (whole - base[n]) /\ 1 * (whole - base[n]) <= lin[n]
    BY <1>1, <1>4, <2>4, <2>6, <2>7, <2>8, <2>9, PartialSums
  <2> HIDE DEF whole
  <2>11. base[n] \in Nat /\ n * I \in Nat
    BY <1>1, <1>4, <2>3
  <2>12. whole = base[n] + n * I
    BY <2>6, <2>10, <2>11
  <2>13. whole <= f.amount + J + n /\ f.amount + J <= whole + n
    BY <1>1, <1>2, <1>4, <2>3, <2>11, <2>12
  <2>14. QED
    BY <1>1, <1>2, <1>3, <1>10, <2>1, <2>10, <2>13 DEF n
<1>13. CASE f.kind = "profit_share_loan"
  <2>1. J = 0
    BY <1>13 DEF J, ProjectedInterest
  <2> DEFINE share(k) == 2 * P * (k * (2 * n - k + 1))
             hi == [k \in 0..n |-> share(k) + k * D]
             lo == [k \in 0..n |-> share(k) - k * D]
             rest == [m \in 0..(n - 1) |-> Profit(f, m)]
  <2>2. \A k \in 0..n : share(k) \in Int /\ k * D \in Nat
    BY <1>1, <1>2, <1>7
  <2>3. share(0) = 0 /\ share(n) = 2 * (P * D)
    BY <1>1, <1>2, <1>7
  <2>4. \A m \in 0..(n - 1) : share(m + 1) = share(m) + 2 * (2 * P * (n - m))
    <3> SUFFICES ASSUME NEW m \in 0..(n - 1)
                 PROVE  share(m + 1) = share(m) + 2 * (2 * P * (n - m))
      OBVIOUS
    <3>1. 2 * n - (m + 1) + 1 = 2 * n - m
      BY <1>1
    <3>2. QED
      BY <1>7, <3>1
  <2> HIDE DEF share
  <2>5. /\ hi[0] = 0 /\ lo[0] = 0
        /\ hi[n] = 2 * (P * D) + n * D /\ lo[n] = 2 * (P * D) - n * D
    BY <1>1, <1>7, <2>3
  <2>6. \A k \in 0..n : hi[k] \in Int /\ lo[k] \in Int
    BY <2>2
  <2>7. \A m \in 0..(n - 1) : /\ lo[m + 1] <= lo[m] + 2 * D * rest[m]
                              /\ hi[m] + 2 * D * rest[m] <= hi[m + 1]
    <3> SUFFICES ASSUME NEW m \in 0..(n - 1)
                 PROVE  /\ lo[m + 1] <= lo[m] + 2 * D * rest[m]
                        /\ hi[m] + 2 * D * rest[m] <= hi[m + 1]
      OBVIOUS
    <3>1. (m + 1) * D = m * D + D /\ m * D \in Nat
      BY <1>7
    <3>2. /\ hi[m] = share(m) + m * D /\ hi[m + 1] = share(m + 1) + (m + 1) * D
          /\ lo[m] = share(m) - m * D /\ lo[m + 1] = share(m + 1) - (m + 1) * D
          /\ rest[m] = Profit(f, m)
      BY <1>11
    <3>3. 2 * D * rest[m] = 2 * (D * rest[m]) /\ D * rest[m] \in Nat
      BY <1>7, <1>9, <3>2
    <3>4. /\ 2 * (D * rest[m]) <= 2 * (2 * P * (n - m)) + D
          /\ 2 * (2 * P * (n - m)) <= 2 * (D * rest[m]) + D
      BY <1>9, <3>2
    <3>5. share(m) \in Int /\ 2 * P * (n - m) \in Nat /\ D \in Nat
      BY <1>7, <1>11, <2>2
    <3> HIDE DEF hi, lo, rest
    <3>6. QED
      BY <2>4, <3>1, <3>2, <3>3, <3>4, <3>5
  <2>8. \A m \in 0..(n - 1) : /\ pay[m] \in Nat /\ rest[m] \in Nat
                              /\ pay[m] = base[m + 1] - base[m] + rest[m]
    <3> SUFFICES ASSUME NEW m \in 0..(n - 1)
                 PROVE  /\ pay[m] \in Nat /\ rest[m] \in Nat
                        /\ pay[m] = base[m + 1] - base[m] + rest[m]
      OBVIOUS
    <3>1. Interest(f) = 0
      BY <1>8, <2>1
    <3>2. rest[m] = Profit(f, m) /\ pay[m] = Principal(f, m) + Profit(f, m) + 0
      BY <1>5, <3>1
    <3>3. QED
      BY <1>4, <1>9, <1>11, <3>2
  <2> HIDE DEF lo, hi, rest
  <2>9. 2 * D \in Nat /\ \A k \in 0..n : base[k] \in Int
    BY <1>4, <1>7
  <2>10. /\ whole \in Nat
         /\ lo[n] <= 2 * D * (whole - base[n]) /\ 2 * D * (whole - base[n]) <= hi[n]
    BY <1>1, <1>4, <2>5, <2>6, <2>7, <2>8, <2>9, PartialSums
  <2> HIDE DEF whole
  <2>11. base[n] \in Nat
    BY <1>1, <1>4
  <2>12. ASSUME NEW d \in Nat \ {0}, NEW x \in Int, NEW p \in Nat, NEW k \in Nat,
                2 * (p * d) - k * d <= 2 * d * x, 2 * d * x <= 2 * (p * d) + k * d
         PROVE  2 * p <= 2 * x + k /\ 2 * x <= 2 * p + k
    <3>1. /\ d * (2 * p - k) <= d * (2 * x)
          /\ d * (2 * x) <= d * (2 * p + k)
      BY <2>12
    <3>2. \A u, v \in Int : d * u <= d * v => u <= v
      OBVIOUS
    <3>3. QED
      BY <3>1, <3>2
  <2>13. 2 * P <= 2 * (whole - base[n]) + n /\ 2 * (whole - base[n]) <= 2 * P + n
    <3>1. whole - base[n] \in Int
      BY <2>10, <2>11
    <3>2. QED
      BY <1>1, <1>2, <1>7, <2>5, <2>10, <2>12, <3>1
  <2>14. whole <= f.amount + P + n /\ f.amount + P <= whole + n
    BY <1>1, <1>2, <1>4, <2>10, <2>11, <2>13
  <2>15. QED
    BY <1>1, <1>2, <1>3, <1>10, <2>1, <2>10, <2>14 DEF n
<1>14. QED
  BY <1>1, <1>12, <1>13

\* A loan that is completed has repaid what was expected of it, up to a franc a month, in
\* AppRow: no write of another command and no reload comes between an instalment and the
\* sum it adds to.
THEOREM LoansRepay ==
  ASSUME ValuesAreGiven
  PROVE  Spec => []LoansRepayWhatIsExpected
<1>1. TypeOK => LoansRepayWhatIsExpected
  <2> SUFFICES ASSUME TypeOK, NEW r \in Commitments, app[r] # Absent,
                      app[r].status = "completed", Funding[r].kind # "donation"
               PROVE  /\ app[r].repaid <= TotalExpected(Funding[r]) + Funding[r].months
                      /\ TotalExpected(Funding[r]) <= app[r].repaid + Funding[r].months
    BY DEF LoansRepayWhatIsExpected
  <2>1. r \in Rows /\ r[1] = "project_funding_commitments"
    BY DEF Commitments, RowsOf
  <2>2. app[r] \in {v \in CommitmentValues : OfSchedule(r, v)}
    BY <2>1, StoreHolds, ValuesByTable DEF Holds
  <2>3. app[r].repaid = Paid(Funding[r], 0..(Funding[r].months - 1))
    BY <2>2 DEF OfSchedule
  <2>4. Funding[r] \in Fundings
    BY FundingIsGiven
  <2>5. QED
    BY <2>3, <2>4, LoanRepaid
<1>2. QED
  BY <1>1, CommandsTypeCorrect, PTL
=============================================================================
