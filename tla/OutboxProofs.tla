---------------------------- MODULE OutboxProofs ----------------------------
(***************************************************************************)
(* Theorems about Outbox, for any sets of rows, batches and administrators,*)
(* any maxRetries and any batch limit.                                     *)
(***************************************************************************)
EXTENDS Outbox, TLAPS

USE MaxRetriesAssumption, BatchLimitAssumption, HandlesAssumption

\* Due only offers rows that exist and wait.
LEMMA DueWaits ==
  ASSUME NEW w \in Workers, NEW e \in Due(w)
  PROVE  e \in Events /\ status[e] \in Claimable /\ ~processedAt[e]
BY DEF Due

\* A batch that has run a handler and not settled it runs a row it holds.
RunsWhatItHolds ==
  \A w \in Workers : running[w].outcome # "none" => running[w].row \in claimed[w]

\* The columns, the batches' local state and the history keep their
\* types; a count below maxRetries is what makes a claimed row retriable, so
\* every row read by a batch still has an attempt left.
AttemptsLeft ==
  /\ \A e \in Events : status[e] \in {"pending", "failed", "absent"} => attempts[e] < MaxRetries
  /\ \A w \in Workers : \A c \in candidates[w] \cup claimed[w] : c.attempts < MaxRetries

TypeInv == TypeOK /\ RunsWhatItHolds /\ AttemptsLeft

LEMMA TypeInvariant == Spec => []TypeInv
<1> USE DEF TypeInv, TypeOK, RunsWhatItHolds, AttemptsLeft, Statuses, Claimable, Snapshot,
            NotRunning, NoRequest
<1>1. Init => TypeInv
  BY DEF Init
<1>2. TypeInv /\ [Next]_vars => TypeInv'
  <2> SUFFICES ASSUME TypeInv, [Next]_vars PROVE TypeInv'
    OBVIOUS
  <2> USE DEF rowVars, workerVars, historyVars
  <2>1. ASSUME NEW e \in Events, Insert(e) PROVE TypeInv'
    BY <2>1 DEF Insert
  <2>2. ASSUME NEW e \in Events, EnqueueAgain(e) PROVE TypeInv'
    BY <2>2 DEF EnqueueAgain
  <2>3. ASSUME NEW e \in Events, RetryTimeComes(e) PROVE TypeInv'
    BY <2>3 DEF RetryTimeComes
  <2>4. ASSUME NEW w \in Workers, ReadCandidates(w) PROVE TypeInv'
    BY <2>4 DEF ReadCandidates, Idle, Due
  <2>5. ASSUME NEW w \in Workers, NEW c \in candidates[w], Claim(w, c) PROVE TypeInv'
    BY <2>5 DEF Claim, ClaimWins
  <2>6. ASSUME NEW w \in Workers, NEW c \in candidates[w], ClaimMisses(w, c) PROVE TypeInv'
    BY <2>6 DEF ClaimMisses
  <2>7. ASSUME NEW w \in Workers, NEW c \in claimed[w], NEW outcome \in {"ok", "error"},
               Handle(w, c, outcome)
        PROVE TypeInv'
    BY <2>7 DEF Handle
  <2>8. ASSUME NEW w \in Workers, MarkProcessed(w) PROVE TypeInv'
    BY <2>8 DEF MarkProcessed
  <2>9. ASSUME NEW w \in Workers, AcknowledgementRejected(w) PROVE TypeInv'
    BY <2>9 DEF AcknowledgementRejected
  <2>10. ASSUME NEW w \in Workers, MarkFailed(w) PROVE TypeInv'
    BY <2>10 DEF MarkFailed, StatusAfterFailure, AttemptsAfterFailure, Exhausted
  <2>11. ASSUME NEW w \in Workers, AbandonBatch(w) PROVE TypeInv'
    BY <2>11 DEF AbandonBatch
  <2>12. ASSUME NEW o \in Operators, NEW kind \in {"requeue", "ignore"}, NEW e \in Events,
                OperatorReads(o, kind, e)
         PROVE TypeInv'
    BY <2>12 DEF OperatorReads
  <2>13. ASSUME NEW o \in Operators, Requeue(o) PROVE TypeInv'
    BY <2>13 DEF Requeue, OperatorDone
  <2>14. ASSUME NEW o \in Operators, Ignore(o) PROVE TypeInv'
    BY <2>14 DEF Ignore, OperatorDone
  <2>15. CASE UNCHANGED vars
    BY <2>15 DEF vars
  <2> HIDE DEF TypeInv
  <2>16. QED
    BY <2>1, <2>2, <2>3, <2>4, <2>5, <2>6, <2>7, <2>8, <2>9, <2>10, <2>11, <2>12, <2>13,
       <2>14, <2>15 DEF Next, Produce, WorkerStep, OperatorStep, Replay
<1>3. QED
  BY <1>1, <1>2, PTL DEF Spec

\* Every column, every batch's local state and the history keep their types.
THEOREM TypeCorrect == Spec => []TypeOK
BY TypeInvariant, PTL DEF TypeInv

-----------------------------------------------------------------------------
\* claimPending's compare-and-set keeps batches apart, whatever they read and
\* when: a row that no administrator wrote over with a stale check is held by
\* at most one batch, and is "processing" while it is held.
THEOREM ClaimsAreExclusive == Spec => []ExclusiveClaim
<1> USE DEF ExclusiveClaim, TypeOK, Snapshot, Claimable, NotRunning, NoRequest
<1>1. Init => ExclusiveClaim
  BY DEF Init
<1>2. TypeOK /\ RunsWhatItHolds /\ ExclusiveClaim /\ [Next]_vars => ExclusiveClaim'
  <2> SUFFICES ASSUME TypeOK, RunsWhatItHolds, ExclusiveClaim, [Next]_vars
               PROVE  ExclusiveClaim'
    OBVIOUS
  <2> USE DEF rowVars, workerVars, historyVars, RunsWhatItHolds
  <2>1. ASSUME NEW e \in Events, Insert(e) PROVE ExclusiveClaim'
    BY <2>1 DEF Insert
  <2>2. ASSUME NEW e \in Events, EnqueueAgain(e) PROVE ExclusiveClaim'
    BY <2>2 DEF EnqueueAgain
  <2>3. ASSUME NEW e \in Events, RetryTimeComes(e) PROVE ExclusiveClaim'
    BY <2>3 DEF RetryTimeComes
  <2>4. ASSUME NEW w \in Workers, ReadCandidates(w) PROVE ExclusiveClaim'
    BY <2>4 DEF ReadCandidates, Idle, Due
  <2>5. ASSUME NEW w \in Workers, NEW c \in candidates[w], Claim(w, c) PROVE ExclusiveClaim'
    BY <2>5 DEF Claim, ClaimWins
  <2>6. ASSUME NEW w \in Workers, NEW c \in candidates[w], ClaimMisses(w, c) PROVE ExclusiveClaim'
    BY <2>6 DEF ClaimMisses
  <2>7. ASSUME NEW w \in Workers, NEW c \in claimed[w], NEW outcome \in {"ok", "error"},
               Handle(w, c, outcome)
        PROVE ExclusiveClaim'
    BY <2>7 DEF Handle
  <2>8. ASSUME NEW w \in Workers, MarkProcessed(w) PROVE ExclusiveClaim'
    BY <2>8 DEF MarkProcessed
  <2>9. ASSUME NEW w \in Workers, AcknowledgementRejected(w) PROVE ExclusiveClaim'
    BY <2>9 DEF AcknowledgementRejected
  <2>10. ASSUME NEW w \in Workers, MarkFailed(w) PROVE ExclusiveClaim'
    BY <2>10 DEF MarkFailed, StatusAfterFailure, AttemptsAfterFailure, Exhausted
  <2>11. ASSUME NEW w \in Workers, AbandonBatch(w) PROVE ExclusiveClaim'
    BY <2>11 DEF AbandonBatch
  <2>12. ASSUME NEW o \in Operators, NEW kind \in {"requeue", "ignore"}, NEW e \in Events,
                OperatorReads(o, kind, e)
        PROVE ExclusiveClaim'
    BY <2>12 DEF OperatorReads
  <2>13. ASSUME NEW o \in Operators, Requeue(o) PROVE ExclusiveClaim'
    BY <2>13 DEF Requeue, OperatorDone
  <2>14. ASSUME NEW o \in Operators, Ignore(o) PROVE ExclusiveClaim'
    BY <2>14 DEF Ignore, OperatorDone
  <2>15. CASE UNCHANGED vars
    BY <2>15 DEF vars
  <2> HIDE DEF ExclusiveClaim
  <2>16. QED
    BY <2>1, <2>2, <2>3, <2>4, <2>5, <2>6, <2>7,
       <2>8, <2>9, <2>10, <2>11, <2>12, <2>13, <2>14, <2>15
    DEF Next, Produce, WorkerStep, OperatorStep, Replay
<1>3. QED
  BY <1>1, <1>2, TypeInvariant, PTL DEF Spec, TypeInv

\* The attempt counts, in the table and in every batch's stale copy, never
\* exceed the failures that happened; "dead" means the count reached the limit.
FailuresCounted ==
  /\ \A e \in Events : attempts[e] <= failures[e]
  /\ \A w \in Workers : \A c \in candidates[w] \cup claimed[w] : c.attempts <= failures[c.id]
  /\ \A e \in Events : status[e] = "dead" => attempts[e] = MaxRetries

\* The outbox never gives a row up before maxRetries failures.
THEOREM NeverGivesUpEarly == Spec => []DeadOnlyAfterMaxRetries
<1> USE DEF FailuresCounted, TypeOK, Snapshot, Claimable, NotRunning, NoRequest
<1>1. Init => FailuresCounted
  BY DEF Init
<1>2. TypeInv /\ FailuresCounted /\ [Next]_vars => FailuresCounted'
  <2> SUFFICES ASSUME TypeInv, FailuresCounted, [Next]_vars PROVE FailuresCounted'
    OBVIOUS
  <2> USE DEF rowVars, workerVars, historyVars, TypeInv, RunsWhatItHolds, AttemptsLeft
  <2>1. ASSUME NEW e \in Events, Insert(e) PROVE FailuresCounted'
    BY <2>1 DEF Insert
  <2>2. ASSUME NEW e \in Events, EnqueueAgain(e) PROVE FailuresCounted'
    BY <2>2 DEF EnqueueAgain
  <2>3. ASSUME NEW e \in Events, RetryTimeComes(e) PROVE FailuresCounted'
    BY <2>3 DEF RetryTimeComes
  <2>4. ASSUME NEW w \in Workers, ReadCandidates(w) PROVE FailuresCounted'
    BY <2>4 DEF ReadCandidates, Idle, Due
  <2>5. ASSUME NEW w \in Workers, NEW c \in candidates[w], Claim(w, c) PROVE FailuresCounted'
    BY <2>5 DEF Claim, ClaimWins
  <2>6. ASSUME NEW w \in Workers, NEW c \in candidates[w], ClaimMisses(w, c) PROVE FailuresCounted'
    BY <2>6 DEF ClaimMisses
  <2>7. ASSUME NEW w \in Workers, NEW c \in claimed[w], NEW outcome \in {"ok", "error"},
               Handle(w, c, outcome)
        PROVE FailuresCounted'
    BY <2>7 DEF Handle
  <2>8. ASSUME NEW w \in Workers, MarkProcessed(w) PROVE FailuresCounted'
    BY <2>8 DEF MarkProcessed
  <2>9. ASSUME NEW w \in Workers, AcknowledgementRejected(w) PROVE FailuresCounted'
    BY <2>9 DEF AcknowledgementRejected
  <2>10. ASSUME NEW w \in Workers, MarkFailed(w) PROVE FailuresCounted'
    <3> DEFINE c == running[w].row
    <3>1. c \in claimed[w] /\ c \in Snapshot /\ c.attempts < MaxRetries /\ c.attempts <= failures[c.id]
      BY <2>10 DEF MarkFailed
    <3>2. /\ attempts' = [attempts EXCEPT ![c.id] = c.attempts + 1]
          /\ failures' \in [Events -> 0..MaxRetries]
          /\ failures'[c.id] >= c.attempts + 1
          /\ \A e \in Events : failures'[e] >= failures[e]
      BY <2>10, <3>1 DEF MarkFailed, AttemptsAfterFailure
    <3>3. \A e \in Events : attempts'[e] <= failures'[e]
      BY <3>1, <3>2
    <3>4. /\ candidates' = candidates
          /\ \A v \in Workers : claimed'[v] \subseteq claimed[v]
      BY <2>10 DEF MarkFailed
    <3>5. \A v \in Workers : \A d \in candidates'[v] \cup claimed'[v] : d.attempts <= failures'[d.id]
      <4> TAKE v \in Workers
      <4> TAKE d \in candidates'[v] \cup claimed'[v]
      <4>1. d \in candidates[v] \cup claimed[v] /\ d \in Snapshot
        BY <3>4
      <4>2. d.attempts <= failures[d.id] /\ d.id \in Events /\ d.attempts \in Nat
        BY <4>1
      <4>3. failures'[d.id] >= failures[d.id] /\ failures'[d.id] \in Nat /\ failures[d.id] \in Nat
        BY <3>2, <4>2
      <4>4. QED
        BY <4>2, <4>3
    <3>6. \A e \in Events : status'[e] = "dead" => attempts'[e] = MaxRetries
      <4> SUFFICES ASSUME NEW e \in Events, status'[e] = "dead" PROVE attempts'[e] = MaxRetries
        OBVIOUS
      <4>1. CASE e = c.id
        <5>1. c.attempts + 1 >= MaxRetries
          BY <2>10, <3>1, <4>1 DEF MarkFailed, StatusAfterFailure, AttemptsAfterFailure, Exhausted
        <5>2. QED
          BY <5>1, <3>1, <3>2, <4>1
      <4>2. CASE e # c.id
        BY <2>10, <3>1, <3>2, <4>2 DEF MarkFailed
      <4>3. QED
        BY <4>1, <4>2
    <3>7. QED
      BY <3>3, <3>5, <3>6
  <2>11. ASSUME NEW w \in Workers, AbandonBatch(w) PROVE FailuresCounted'
    BY <2>11 DEF AbandonBatch
  <2>12. ASSUME NEW o \in Operators, NEW kind \in {"requeue", "ignore"}, NEW e \in Events,
                OperatorReads(o, kind, e)
        PROVE FailuresCounted'
    BY <2>12 DEF OperatorReads
  <2>13. ASSUME NEW o \in Operators, Requeue(o) PROVE FailuresCounted'
    BY <2>13 DEF Requeue, OperatorDone
  <2>14. ASSUME NEW o \in Operators, Ignore(o) PROVE FailuresCounted'
    BY <2>14 DEF Ignore, OperatorDone
  <2>15. CASE UNCHANGED vars
    BY <2>15 DEF vars
  <2> HIDE DEF FailuresCounted
  <2>16. QED
    BY <2>1, <2>2, <2>3, <2>4, <2>5, <2>6, <2>7,
       <2>8, <2>9, <2>10, <2>11, <2>12, <2>13, <2>14, <2>15
    DEF Next, Produce, WorkerStep, OperatorStep, Replay
<1>3. TypeOK /\ FailuresCounted => DeadOnlyAfterMaxRetries
  <2> SUFFICES ASSUME TypeOK, FailuresCounted, NEW e \in Events, status[e] = "dead"
               PROVE  failures[e] = MaxRetries
    BY DEF DeadOnlyAfterMaxRetries
  <2>1. attempts[e] = MaxRetries /\ attempts[e] <= failures[e]
    OBVIOUS
  <2>2. failures[e] \in 0..MaxRetries
    OBVIOUS
  <2> HIDE DEF FailuresCounted, TypeOK
  <2>3. QED
    BY <2>1, <2>2
<1>4. QED
  BY <1>1, <1>2, <1>3, TypeInvariant, PTL DEF Spec, TypeInv

\* Only a row whose batch was interrupted is "processing" with no batch on it.
THEOREM OrphansWereAbandoned == Spec => []OrphanOnlyIfAbandoned
<1> USE DEF OrphanOnlyIfAbandoned, Holds, TypeOK, Snapshot, Claimable, NotRunning, NoRequest
<1>1. Init => OrphanOnlyIfAbandoned
  BY DEF Init
<1>2. TypeOK /\ RunsWhatItHolds /\ OrphanOnlyIfAbandoned /\ [Next]_vars => OrphanOnlyIfAbandoned'
  <2> SUFFICES ASSUME TypeOK, RunsWhatItHolds, OrphanOnlyIfAbandoned, [Next]_vars
               PROVE  OrphanOnlyIfAbandoned'
    OBVIOUS
  <2> USE DEF rowVars, workerVars, historyVars, RunsWhatItHolds
  <2>1. ASSUME NEW e \in Events, Insert(e) PROVE OrphanOnlyIfAbandoned'
    BY <2>1 DEF Insert
  <2>2. ASSUME NEW e \in Events, EnqueueAgain(e) PROVE OrphanOnlyIfAbandoned'
    BY <2>2 DEF EnqueueAgain
  <2>3. ASSUME NEW e \in Events, RetryTimeComes(e) PROVE OrphanOnlyIfAbandoned'
    BY <2>3 DEF RetryTimeComes
  <2>4. ASSUME NEW w \in Workers, ReadCandidates(w) PROVE OrphanOnlyIfAbandoned'
    BY <2>4 DEF ReadCandidates, Idle, Due
  <2>5. ASSUME NEW w \in Workers, NEW c \in candidates[w], Claim(w, c) PROVE OrphanOnlyIfAbandoned'
    BY <2>5 DEF Claim, ClaimWins
  <2>6. ASSUME NEW w \in Workers, NEW c \in candidates[w], ClaimMisses(w, c) PROVE OrphanOnlyIfAbandoned'
    BY <2>6 DEF ClaimMisses
  <2>7. ASSUME NEW w \in Workers, NEW c \in claimed[w], NEW outcome \in {"ok", "error"},
               Handle(w, c, outcome)
        PROVE OrphanOnlyIfAbandoned'
    BY <2>7 DEF Handle
  <2>8. ASSUME NEW w \in Workers, MarkProcessed(w) PROVE OrphanOnlyIfAbandoned'
    BY <2>8 DEF MarkProcessed
  <2>9. ASSUME NEW w \in Workers, AcknowledgementRejected(w) PROVE OrphanOnlyIfAbandoned'
    BY <2>9 DEF AcknowledgementRejected
  <2>10. ASSUME NEW w \in Workers, MarkFailed(w) PROVE OrphanOnlyIfAbandoned'
    BY <2>10 DEF MarkFailed, StatusAfterFailure, AttemptsAfterFailure, Exhausted
  <2>11. ASSUME NEW w \in Workers, AbandonBatch(w) PROVE OrphanOnlyIfAbandoned'
    BY <2>11 DEF AbandonBatch
  <2>12. ASSUME NEW o \in Operators, NEW kind \in {"requeue", "ignore"}, NEW e \in Events,
                OperatorReads(o, kind, e)
        PROVE OrphanOnlyIfAbandoned'
    BY <2>12 DEF OperatorReads
  <2>13. ASSUME NEW o \in Operators, Requeue(o) PROVE OrphanOnlyIfAbandoned'
    BY <2>13 DEF Requeue, OperatorDone
  <2>14. ASSUME NEW o \in Operators, Ignore(o) PROVE OrphanOnlyIfAbandoned'
    BY <2>14 DEF Ignore, OperatorDone
  <2>15. CASE UNCHANGED vars
    BY <2>15 DEF vars
  <2> HIDE DEF OrphanOnlyIfAbandoned
  <2>16. QED
    BY <2>1, <2>2, <2>3, <2>4, <2>5, <2>6, <2>7,
       <2>8, <2>9, <2>10, <2>11, <2>12, <2>13, <2>14, <2>15
    DEF Next, Produce, WorkerStep, OperatorStep, Replay
<1>3. QED
  BY <1>1, <1>2, TypeInvariant, PTL DEF Spec, TypeInv

-----------------------------------------------------------------------------
\* Until an acknowledgement is lost or an administrator races, a row whose
\* handler succeeded is either processed for good or about to be, by the one
\* batch that runs it; and processedAt is set on processed rows only.
SucceededOnce ==
  \A e \in Events : ~raced[e] =>
    /\ processedAt[e] <=> status[e] = "processed"
    /\ ~lostAck[e] /\ delivered[e] > 0 =>
         /\ delivered[e] = 1
         /\ \/ status[e] = "processed"
            \/ \E w \in Workers : running[w].outcome = "ok" /\ running[w].row.id = e

LEMMA SucceededOnceHolds == Spec => []SucceededOnce
<1> USE DEF SucceededOnce, TypeOK, Snapshot, Claimable, NotRunning, NoRequest
<1>1. Init => SucceededOnce
  BY DEF Init
<1>2. TypeOK /\ RunsWhatItHolds /\ ExclusiveClaim /\ SucceededOnce /\ [Next]_vars => SucceededOnce'
  <2> SUFFICES ASSUME TypeOK, RunsWhatItHolds, ExclusiveClaim, SucceededOnce, [Next]_vars
               PROVE  SucceededOnce'
    OBVIOUS
  <2> USE DEF rowVars, workerVars, historyVars, RunsWhatItHolds, ExclusiveClaim
  <2>1. ASSUME NEW e \in Events, Insert(e) PROVE SucceededOnce'
    BY <2>1 DEF Insert
  <2>2. ASSUME NEW e \in Events, EnqueueAgain(e) PROVE SucceededOnce'
    BY <2>2 DEF EnqueueAgain
  <2>3. ASSUME NEW e \in Events, RetryTimeComes(e) PROVE SucceededOnce'
    BY <2>3 DEF RetryTimeComes
  <2>4. ASSUME NEW w \in Workers, ReadCandidates(w) PROVE SucceededOnce'
    BY <2>4 DEF ReadCandidates, Idle, Due
  <2>5. ASSUME NEW w \in Workers, NEW c \in candidates[w], Claim(w, c) PROVE SucceededOnce'
    BY <2>5 DEF Claim, ClaimWins
  <2>6. ASSUME NEW w \in Workers, NEW c \in candidates[w], ClaimMisses(w, c) PROVE SucceededOnce'
    BY <2>6 DEF ClaimMisses
  <2>7. ASSUME NEW w \in Workers, NEW c \in claimed[w], NEW outcome \in {"ok", "error"},
               Handle(w, c, outcome)
        PROVE SucceededOnce'
    <3>1. c \in Snapshot /\ running[w] = NotRunning
      BY <2>7 DEF Handle
    <3>2. ~raced[c.id] => status[c.id] = "processing"
      BY <3>1
    <3>3. ~raced[c.id] /\ ~lostAck[c.id] => delivered[c.id] = 0
      <4>1. ASSUME NEW v \in Workers, running[v].outcome = "ok", running[v].row.id = c.id, ~raced[c.id]
            PROVE  FALSE
        <5>1. running[v].row \in claimed[v]
          BY <4>1
        <5>2. v = w
          BY <3>1, <4>1, <5>1
        <5>3. QED
          BY <3>1, <4>1, <5>2
      <4>2. QED
        BY <3>1, <3>2, <4>1
    <3>4. ASSUME NEW e \in Events, e # c.id, ~raced'[e], ~lostAck'[e], delivered'[e] > 0
          PROVE  /\ delivered'[e] = 1
                 /\ \/ status'[e] = "processed"
                    \/ \E v \in Workers : running'[v].outcome = "ok" /\ running'[v].row.id = e
      BY <2>7, <3>1, <3>4 DEF Handle
    <3>5. ASSUME ~raced'[c.id], ~lostAck'[c.id], delivered'[c.id] > 0
          PROVE  delivered'[c.id] = 1 /\ running'[w].outcome = "ok" /\ running'[w].row.id = c.id
      BY <2>7, <3>1, <3>3, <3>5 DEF Handle
    <3>6. \A e \in Events : ~raced'[e] => (processedAt'[e] <=> status'[e] = "processed")
      BY <2>7 DEF Handle
    <3>7. QED
      BY <3>1, <3>4, <3>5, <3>6
  <2>8. ASSUME NEW w \in Workers, MarkProcessed(w) PROVE SucceededOnce'
    BY <2>8 DEF MarkProcessed
  <2>9. ASSUME NEW w \in Workers, AcknowledgementRejected(w) PROVE SucceededOnce'
    BY <2>9 DEF AcknowledgementRejected
  <2>10. ASSUME NEW w \in Workers, MarkFailed(w) PROVE SucceededOnce'
    BY <2>10 DEF MarkFailed, StatusAfterFailure, AttemptsAfterFailure, Exhausted
  <2>11. ASSUME NEW w \in Workers, AbandonBatch(w) PROVE SucceededOnce'
    BY <2>11 DEF AbandonBatch
  <2>12. ASSUME NEW o \in Operators, NEW kind \in {"requeue", "ignore"}, NEW e \in Events,
                OperatorReads(o, kind, e)
        PROVE SucceededOnce'
    BY <2>12 DEF OperatorReads
  <2>13. ASSUME NEW o \in Operators, Requeue(o) PROVE SucceededOnce'
    BY <2>13 DEF Requeue, OperatorDone
  <2>14. ASSUME NEW o \in Operators, Ignore(o) PROVE SucceededOnce'
    BY <2>14 DEF Ignore, OperatorDone
  <2>15. CASE UNCHANGED vars
    BY <2>15 DEF vars
  <2> HIDE DEF SucceededOnce
  <2>16. QED
    BY <2>1, <2>2, <2>3, <2>4, <2>5, <2>6, <2>7,
       <2>8, <2>9, <2>10, <2>11, <2>12, <2>13, <2>14, <2>15
    DEF Next, Produce, WorkerStep, OperatorStep, Replay
<1>3. QED
  BY <1>1, <1>2, TypeInvariant, ClaimsAreExclusive, PTL DEF Spec, TypeInv

\* A second success of a handler needs a lost acknowledgement or a stale
\* administrator write.
THEOREM DuplicatesAreExplained == Spec => []DuplicateOnlyAfterLostAck
<1>1. SucceededOnce => DuplicateOnlyAfterLostAck
  BY DEF SucceededOnce, DuplicateOnlyAfterLostAck
<1>2. QED
  BY <1>1, SucceededOnceHolds, PTL

\* Only a stale administrator write leaves a waiting row that no batch takes.
THEOREM WaitingRowsStayClaimable == Spec => []WaitingRowsAreClaimable
<1>1. SucceededOnce => WaitingRowsAreClaimable
  BY DEF SucceededOnce, WaitingRowsAreClaimable, Claimable
<1>2. QED
  BY <1>1, SucceededOnceHolds, PTL

\* A processed row stays processed, unless an administrator raced.
THEOREM ProcessedStays == Spec => ProcessedIsFinal
<1> DEFINE Final == \A e \in Events :
                      status[e] = "processed" /\ ~raced'[e] => status'[e] = "processed"
<1>1. TypeOK /\ RunsWhatItHolds /\ ExclusiveClaim /\ [Next]_vars => Final
  <2> SUFFICES ASSUME TypeOK, RunsWhatItHolds, ExclusiveClaim, [Next]_vars PROVE Final
    OBVIOUS
  <2> USE DEF rowVars, workerVars, historyVars, RunsWhatItHolds, ExclusiveClaim,
              TypeOK, Snapshot, Claimable, NotRunning, NoRequest
  <2>1. ASSUME NEW e \in Events, Insert(e) PROVE Final
    BY <2>1 DEF Insert
  <2>2. ASSUME NEW e \in Events, EnqueueAgain(e) PROVE Final
    BY <2>2 DEF EnqueueAgain
  <2>3. ASSUME NEW e \in Events, RetryTimeComes(e) PROVE Final
    BY <2>3 DEF RetryTimeComes
  <2>4. ASSUME NEW w \in Workers, ReadCandidates(w) PROVE Final
    BY <2>4 DEF ReadCandidates, Idle, Due
  <2>5. ASSUME NEW w \in Workers, NEW c \in candidates[w], Claim(w, c) PROVE Final
    <3>1. c.status \in {"pending", "failed"} /\ status[c.id] = c.status
      BY <2>5 DEF Claim, ClaimWins
    <3>2. QED
      BY <2>5, <3>1 DEF Claim
  <2>6. ASSUME NEW w \in Workers, NEW c \in candidates[w], ClaimMisses(w, c) PROVE Final
    BY <2>6 DEF ClaimMisses
  <2>7. ASSUME NEW w \in Workers, NEW c \in claimed[w], NEW outcome \in {"ok", "error"},
               Handle(w, c, outcome)
        PROVE Final
    BY <2>7 DEF Handle
  <2>8. ASSUME NEW w \in Workers, MarkProcessed(w) PROVE Final
    BY <2>8 DEF MarkProcessed
  <2>9. ASSUME NEW w \in Workers, AcknowledgementRejected(w) PROVE Final
    BY <2>9 DEF AcknowledgementRejected
  <2>10. ASSUME NEW w \in Workers, MarkFailed(w) PROVE Final
    BY <2>10 DEF MarkFailed, StatusAfterFailure, AttemptsAfterFailure, Exhausted
  <2>11. ASSUME NEW w \in Workers, AbandonBatch(w) PROVE Final
    BY <2>11 DEF AbandonBatch
  <2>12. ASSUME NEW o \in Operators, NEW kind \in {"requeue", "ignore"}, NEW e \in Events,
                OperatorReads(o, kind, e)
        PROVE Final
    BY <2>12 DEF OperatorReads
  <2>13. ASSUME NEW o \in Operators, Requeue(o) PROVE Final
    BY <2>13 DEF Requeue, OperatorDone
  <2>14. ASSUME NEW o \in Operators, Ignore(o) PROVE Final
    BY <2>14 DEF Ignore, OperatorDone
  <2>15. CASE UNCHANGED vars
    BY <2>15 DEF vars
  <2> HIDE DEF Final
  <2>16. QED
    BY <2>1, <2>2, <2>3, <2>4, <2>5, <2>6, <2>7,
       <2>8, <2>9, <2>10, <2>11, <2>12, <2>13, <2>14, <2>15
    DEF Next, Produce, WorkerStep, OperatorStep, Replay
<1>2. QED
  BY <1>1, TypeInvariant, ClaimsAreExclusive, PTL DEF Spec, TypeInv, ProcessedIsFinal

-----------------------------------------------------------------------------
(* The outbox keeps its contract.                                           *)

\* A batch has run the handler of the row, which succeeded.
Succeeding(e) == \E w \in Workers : running[w].outcome = "ok" /\ running[w].row.id = e

\* The moves of OutboxContract, as pairs.
Moves == {<<"absent", "waiting">>, <<"waiting", "taken">>, <<"taken", "succeeded">>,
          <<"succeeded", "done">>, <<"succeeded", "taken">>, <<"taken", "waiting">>,
          <<"taken", "dead">>, <<"waiting", "waiting">>, <<"dead", "waiting">>,
          <<"waiting", "done">>, <<"dead", "done">>}

\* A step that moves one row, or writes over one that is not trusted any more.
MovesOnly(e) ==
  /\ \A f \in Events \ {e} : Stage'[f] = Stage[f] /\ raced'[f] = raced[f]
  /\ raced[e] => raced'[e]
  /\ raced'[e] \/ Stage'[e] = Stage[e] \/ <<Stage[e], Stage'[e]>> \in Moves

LEMMA StageOf ==
  ASSUME TypeOK, NEW e \in Events
  PROVE  /\ status[e] \in Claimable => Stage[e] = "waiting"
         /\ status[e] = "processing" => Stage[e] = IF Succeeding(e) THEN "succeeded" ELSE "taken"
         /\ status[e] = "processed" => Stage[e] = "done"
         /\ status[e] \in {"absent", "dead"} => Stage[e] = status[e]
         /\ Stage[e] \in Contract!Stages
  BY DEF TypeOK, Statuses, Claimable, Stage, Succeeding, Contract!Stages

\* The stage of a row follows from its status and whether its handler has succeeded.
LEMMA StageIsKept ==
  ASSUME NEW e \in Events, status'[e] = status[e], Succeeding(e)' = Succeeding(e)
  PROVE  Stage'[e] = Stage[e]
  BY DEF Stage, Succeeding

LEMMA MovesAreSteps ==
  ASSUME TypeOK, TypeOK', NEW e \in Events, MovesOnly(e)
  PROVE  [Contract!Next]_<<Stage, [f \in Events |-> ~raced[f]]>>
<1> DEFINE trust == [f \in Events |-> ~raced[f]]
<1>1. /\ Stage = [f \in Events |-> Stage[f]] /\ Stage' = [f \in Events |-> Stage'[f]]
      /\ Stage[e] \in Contract!Stages /\ Stage'[e] \in Contract!Stages
  <2>1. Stage = [f \in Events |-> Stage[f]] /\ Stage' = [f \in Events |-> Stage'[f]]
    BY DEF Stage
  <2>2. Stage[e] \in Contract!Stages
    BY StageOf
  <2>3. Stage'[e] \in Contract!Stages
    BY DEF TypeOK, Statuses, Claimable, Stage, Contract!Stages
  <2>4. QED
    BY <2>1, <2>2, <2>3
<1> HIDE DEF Stage
<1>2. Stage' = [Stage EXCEPT ![e] = Stage'[e]]
  BY <1>1 DEF MovesOnly
<1>3. CASE raced'[e]
  <2>1. trust' = [trust EXCEPT ![e] = FALSE]
    BY <1>3 DEF MovesOnly, TypeOK
  <2>2. QED
    BY <1>1, <1>2, <2>1 DEF Contract!Next, Contract!StaleWrite
<1>4. CASE ~raced'[e]
  <2>1. trust' = trust
    BY <1>4 DEF MovesOnly, TypeOK
  <2>2. CASE Stage'[e] = Stage[e]
    BY <1>1, <1>2, <2>1, <2>2
  <2>3. CASE <<Stage[e], Stage'[e]>> \in Moves
    BY <1>2, <2>1, <2>3
       DEF Moves, Contract!Next, Contract!Move, Contract!Submit, Contract!Take,
           Contract!Succeed, Contract!Acknowledge, Contract!LoseAck, Contract!RetryLater,
           Contract!GiveUp, Contract!Revive, Contract!Dismiss
  <2>4. QED
    BY <1>4, <2>2, <2>3 DEF MovesOnly
<1>5. QED
  BY <1>3, <1>4

\* A row that is held and trusted is "processing", and only its holder runs it.
LEMMA HeldRow ==
  ASSUME TypeOK, RunsWhatItHolds, ExclusiveClaim,
         NEW w \in Workers, NEW c \in claimed[w], ~raced[c.id]
  PROVE  /\ status[c.id] = "processing"
         /\ Succeeding(c.id) => running[w].outcome = "ok"
<1>1. c.id \in Events
  BY DEF TypeOK, Snapshot
<1>2. status[c.id] = "processing"
  BY <1>1 DEF ExclusiveClaim
<1>3. ASSUME NEW v \in Workers, running[v].outcome = "ok", running[v].row.id = c.id
      PROVE  v = w
  BY <1>1, <1>3 DEF RunsWhatItHolds, ExclusiveClaim
<1>4. QED
  BY <1>2, <1>3 DEF Succeeding

\* Every step of the outbox moves one row as the contract allows, or none at all.
LEMMA StepsMoveOneRow ==
  ASSUME TypeOK, TypeOK', RunsWhatItHolds, ExclusiveClaim, [Next]_vars
  PROVE  (\E e \in Events : MovesOnly(e)) \/ UNCHANGED <<Stage, raced>>
<1> DEFINE Goal == (\E e \in Events : MovesOnly(e)) \/ UNCHANGED <<Stage, raced>>
<1> USE DEF rowVars, workerVars, historyVars
<1>a. ASSUME UNCHANGED <<status, running, raced>> PROVE Goal
  BY <1>a DEF Stage
<1>b. ASSUME NEW e \in Events,
             \A f \in Events \ {e} : /\ status'[f] = status[f] /\ raced'[f] = raced[f]
                                     /\ Succeeding(f)' = Succeeding(f),
             raced[e] => raced'[e],
             raced'[e] \/ Stage'[e] = Stage[e] \/ <<Stage[e], Stage'[e]>> \in Moves
      PROVE  Goal
  <2>1. \A f \in Events \ {e} : Stage'[f] = Stage[f]
    BY <1>b, StageIsKept
  <2>2. MovesOnly(e)
    BY <1>b, <2>1 DEF MovesOnly
  <2>3. QED
    BY <2>2
<1>t. /\ status \in [Events -> Statuses]
      /\ running \in [Workers -> [outcome : {"ok", "error"}, row : Snapshot] \cup {NotRunning}]
      /\ \A w \in Workers : candidates[w] \subseteq Snapshot /\ claimed[w] \subseteq Snapshot
      /\ raced \in [Events -> BOOLEAN]
  BY DEF TypeOK
<1>1. ASSUME NEW e \in Events, Insert(e) PROVE Goal
  <2>1. /\ status[e] = "absent" /\ status' = [status EXCEPT ![e] = "pending"]
        /\ UNCHANGED <<running, raced>>
    BY <1>1 DEF Insert
  <2>2. \A f \in Events : Succeeding(f)' = Succeeding(f)
    BY <2>1 DEF Succeeding
  <2>3. Stage[e] = "absent" /\ Stage'[e] = "waiting"
    BY <1>t, <2>1 DEF Stage, Claimable
  <2>4. QED
    BY <1>b, <1>t, <2>1, <2>2, <2>3 DEF Moves
<1>2. ASSUME NEW e \in Events, EnqueueAgain(e) PROVE Goal
  BY <1>2, <1>a DEF EnqueueAgain
<1>3. ASSUME NEW e \in Events, RetryTimeComes(e) PROVE Goal
  BY <1>3, <1>a DEF RetryTimeComes
<1>4. ASSUME NEW w \in Workers, ReadCandidates(w) PROVE Goal
  BY <1>4, <1>a DEF ReadCandidates
<1>5. ASSUME NEW w \in Workers, NEW c \in candidates[w], Claim(w, c) PROVE Goal
  <2> DEFINE e == c.id
  <2>1. /\ e \in Events /\ status[e] \in Claimable
        /\ status' = [status EXCEPT ![e] = "processing"]
        /\ UNCHANGED <<running, raced>>
    BY <1>5, <1>t DEF Claim, ClaimWins, Snapshot
  <2>2. \A f \in Events : Succeeding(f)' = Succeeding(f)
    BY <2>1 DEF Succeeding
  <2>3. ~raced[e] => ~Succeeding(e)
    <3>1. SUFFICES ASSUME NEW v \in Workers, running[v].outcome = "ok", running[v].row.id = e,
                          ~raced[e]
                   PROVE  FALSE
      BY DEF Succeeding
    <3>2. status[e] = "processing"
      BY <3>1, HeldRow DEF RunsWhatItHolds
    <3>3. QED
      BY <2>1, <3>2 DEF Claimable
  <2>4. Stage[e] = "waiting" /\ (~raced[e] => Stage'[e] = "taken")
    BY <1>t, <2>1, <2>2, <2>3 DEF Stage, Claimable, Succeeding
  <2> HIDE DEF e
  <2>5. QED
    BY <1>b, <1>t, <2>1, <2>2, <2>4 DEF Moves
<1>6. ASSUME NEW w \in Workers, NEW c \in candidates[w], ClaimMisses(w, c) PROVE Goal
  BY <1>6, <1>a DEF ClaimMisses
<1>7. ASSUME NEW w \in Workers, NEW c \in claimed[w], NEW outcome \in {"ok", "error"},
             Handle(w, c, outcome)
      PROVE Goal
  <2> DEFINE e == c.id
  <2>1. /\ e \in Events /\ running[w] = NotRunning
        /\ running' = [running EXCEPT ![w] = [outcome |-> outcome, row |-> c]]
        /\ UNCHANGED <<status, raced>>
    BY <1>7, <1>t DEF Handle, Snapshot
  <2>2. \A f \in Events \ {e} : Succeeding(f)' = Succeeding(f)
    BY <1>t, <2>1 DEF Succeeding, NotRunning
  <2>3. Succeeding(e) => Succeeding(e)'
    BY <1>t, <2>1 DEF Succeeding, NotRunning
  <2>4. ~raced[e] => status[e] = "processing"
    BY HeldRow
  <2>5. ~raced[e] => Stage'[e] = Stage[e] \/ (Stage[e] = "taken" /\ Stage'[e] = "succeeded")
    BY <1>t, <2>1, <2>3, <2>4 DEF Stage, Claimable, Succeeding
  <2> HIDE DEF e
  <2>6. QED
    BY <1>b, <1>t, <2>1, <2>2, <2>5 DEF Moves
<1>8. ASSUME NEW w \in Workers, NEW to \in {"processed", "failed", "dead"},
             running[w].outcome \in {"ok", "error"},
             to = "processed" <=> running[w].outcome = "ok",
             status' = [status EXCEPT ![running[w].row.id] = to],
             running' = [running EXCEPT ![w] = NotRunning], UNCHANGED raced
      PROVE  Goal
  <2> DEFINE c == running[w].row
             e == c.id
  <2>1. c \in claimed[w] /\ e \in Events
    BY <1>8, <1>t DEF RunsWhatItHolds, Snapshot
  <2>2. \A f \in Events \ {e} : Succeeding(f)' = Succeeding(f)
    BY <1>t, <1>8 DEF Succeeding, NotRunning
  <2>3. ~raced[e] => /\ status[e] = "processing"
                     /\ Succeeding(e) <=> running[w].outcome = "ok"
    BY <2>1, HeldRow DEF Succeeding
  <2>4. ~raced[e] => /\ Stage[e] = IF running[w].outcome = "ok" THEN "succeeded" ELSE "taken"
                     /\ Stage'[e] = IF to = "processed" THEN "done"
                                    ELSE IF to = "dead" THEN "dead" ELSE "waiting"
    BY <1>t, <1>8, <2>1, <2>3 DEF Stage, Claimable, Succeeding
  <2> HIDE DEF e
  <2>5. QED
    BY <1>b, <1>t, <1>8, <2>1, <2>2, <2>4 DEF Moves, e
<1>9. ASSUME NEW w \in Workers, MarkProcessed(w) PROVE Goal
  BY <1>8, <1>9 DEF MarkProcessed
<1>10. ASSUME NEW w \in Workers, MarkFailed(w) PROVE Goal
  BY <1>8, <1>10 DEF MarkFailed, StatusAfterFailure
<1>11. ASSUME NEW w \in Workers, NEW r, running[w].outcome = "ok", r.outcome # "ok",
              running' = [running EXCEPT ![w] = r], UNCHANGED <<status, raced>>
       PROVE  Goal
  <2> DEFINE c == running[w].row
             e == c.id
  <2>1. c \in claimed[w] /\ e \in Events
    BY <1>11, <1>t DEF RunsWhatItHolds, Snapshot
  <2>2. \A f \in Events \ {e} : Succeeding(f)' = Succeeding(f)
    BY <1>t, <1>11 DEF Succeeding
  <2>3. Succeeding(e)
    BY <1>11 DEF Succeeding
  <2>4. ~raced[e] => status[e] = "processing"
    BY <2>1, HeldRow
  <2>5. ~raced[e] => Stage[e] = "succeeded" /\ Stage'[e] \in {"succeeded", "taken"}
    BY <1>t, <1>11, <2>1, <2>3, <2>4 DEF Stage, Claimable, Succeeding
  <2> HIDE DEF e
  <2>6. QED
    BY <1>b, <1>t, <1>11, <2>1, <2>2, <2>5 DEF Moves
<1>12. ASSUME NEW w \in Workers, AcknowledgementRejected(w) PROVE Goal
  <2> DEFINE r == [running[w] EXCEPT !.outcome = "error"]
  <2>1. /\ running[w].outcome = "ok" /\ running' = [running EXCEPT ![w] = r]
        /\ UNCHANGED <<status, raced>>
    BY <1>12 DEF AcknowledgementRejected
  <2>2. r.outcome # "ok"
    BY <1>t, <2>1 DEF NotRunning
  <2> HIDE DEF r, Goal
  <2>3. QED
    BY <1>11, <2>1, <2>2
<1>13. ASSUME NEW w \in Workers, AbandonBatch(w) PROVE Goal
  <2>1. /\ running' = [running EXCEPT ![w] = NotRunning] /\ UNCHANGED <<status, raced>>
        /\ NotRunning.outcome # "ok"
    BY <1>13 DEF AbandonBatch, NotRunning
  <2>2. CASE running[w].outcome = "ok"
    BY <1>11, <2>1, <2>2
  <2>3. CASE running[w].outcome # "ok"
    <3>1. \A f \in Events : Succeeding(f)' = Succeeding(f)
      BY <1>t, <2>1, <2>3 DEF Succeeding
    <3>2. Stage' = Stage
      BY <2>1, <3>1 DEF Stage, Succeeding
    <3>3. QED
      BY <2>1, <3>2
  <2>4. QED
    BY <2>2, <2>3
<1>14. ASSUME NEW o \in Operators, NEW kind \in {"requeue", "ignore"}, NEW e \in Events,
              OperatorReads(o, kind, e)
       PROVE Goal
  BY <1>14, <1>a DEF OperatorReads
<1>15. ASSUME NEW o \in Operators, NEW to \in {"pending", "processed"}, request[o] # NoRequest,
              status' = [status EXCEPT ![request[o].id] = to], OperatorDone(o)
       PROVE  Goal
  <2> DEFINE e == request[o].id
  <2>1. e \in Events
    BY <1>15 DEF TypeOK
  <2>2. \A f \in Events : Succeeding(f)' = Succeeding(f)
    BY <1>15 DEF OperatorDone, Succeeding
  <2>3. /\ status[e] \in {"dead", "failed"} => raced' = raced
        /\ status[e] \notin {"dead", "failed"} => raced' = [raced EXCEPT ![e] = TRUE]
    BY <1>15 DEF OperatorDone
  <2>4. status[e] \in {"dead", "failed"} =>
          /\ Stage[e] \in {"dead", "waiting"}
          /\ Stage'[e] \in {"waiting", "done"}
    BY <1>t, <1>15, <2>1 DEF Stage, Claimable
  <2>5. \A f \in Events \ {e} : status'[f] = status[f]
    BY <1>t, <1>15
  <2> HIDE DEF e
  <2>6. QED
    BY <1>b, <1>t, <2>1, <2>2, <2>3, <2>4, <2>5 DEF Moves
<1>16. ASSUME NEW o \in Operators, Requeue(o) \/ Ignore(o) PROVE Goal
  <2>1. request[o] # NoRequest
    BY <1>16 DEF Requeue, Ignore, NoRequest
  <2>2. PICK to \in {"pending", "processed"} :
          status' = [status EXCEPT ![request[o].id] = to] /\ OperatorDone(o)
    BY <1>16 DEF Requeue, Ignore
  <2> HIDE DEF Goal
  <2>3. QED
    BY <1>15, <2>1, <2>2
<1>17. CASE UNCHANGED vars
  BY <1>17, <1>a DEF vars
<1>18. Goal
  <2>1. CASE Produce \/ \E e, copy \in Events : Replay(e, copy)
    BY <1>1, <1>2, <1>3, <2>1 DEF Produce, Replay
  <2>2. ASSUME NEW w \in Workers, WorkerStep(w) \/ AbandonBatch(w) PROVE Goal
    BY <1>4, <1>5, <1>6, <1>7, <1>9, <1>10, <1>12, <1>13, <2>2 DEF WorkerStep
  <2>3. ASSUME NEW o \in Operators, OperatorStep(o) PROVE Goal
    BY <1>14, <1>16, <2>3 DEF OperatorStep
  <2>4. QED
    BY <1>17, <2>1, <2>2, <2>3 DEF Next, vars
<1>19. QED
  BY <1>18 DEF Goal

\* The batches, the clock and the administrators implement OutboxContract, row by row:
\* done only after a success or a dismissal, taken only while waiting, done for good.
THEOREM ContractIsKept == Spec => KeepsContract
<1>1. Init => Contract!Init
  BY DEF Init, Contract!Init, Stage, Claimable
<1>2. /\ TypeOK /\ RunsWhatItHolds /\ ExclusiveClaim /\ TypeOK' /\ [Next]_vars
      => [Contract!Next]_<<Stage, [e \in Events |-> ~raced[e]]>>
  <2> SUFFICES ASSUME TypeOK, RunsWhatItHolds, ExclusiveClaim, TypeOK', [Next]_vars
               PROVE  [Contract!Next]_<<Stage, [e \in Events |-> ~raced[e]]>>
    OBVIOUS
  <2>1. CASE \E e \in Events : MovesOnly(e)
    BY <2>1, MovesAreSteps
  <2>2. CASE UNCHANGED <<Stage, raced>>
    BY <2>2
  <2>3. QED
    BY <2>1, <2>2, StepsMoveOneRow
<1>3. QED
  BY <1>1, <1>2, TypeInvariant, ClaimsAreExclusive, PTL
     DEF Spec, TypeInv, KeepsContract, Contract!Spec
=============================================================================
