------------------------------- MODULE Outbox -------------------------------
(***************************************************************************)
(* The transactional outbox: rows of the OutboxEvent table, the batches    *)
(* that claim and handle them (the auto processor of the API process, the  *)
(* worker CLI and the admin "process now" endpoint all run                 *)
(* OutboxProcessorService.processPendingBatch), and the administrators who *)
(* requeue, ignore or replay an event.  Every await on the database ends a *)
(* step, so batches and administrators interleave as they do in Postgres.  *)
(*                                                                         *)
(* Each column of the table that steers the code is a function on the      *)
(* event's identifier.  nextRetryAt is only compared with now(), and       *)
(* availableAt, read when it is null, is then in the past: retryAt records *)
(* that comparison as "null", "future" or "due".                           *)
(***************************************************************************)
EXTENDS Integers, FiniteSets

CONSTANTS
  Events,       \* identifiers of the rows that may be enqueued
  Workers,      \* concurrent callers of processPendingBatch
  Operators,    \* administrators acting through the outbox controller
  MaxRetries,   \* OutboxEvent.maxRetries, the same for every row here
  BatchLimit,   \* the limit of one batch
  Handles       \* Handles[w]: the rows the filter of w lets it take

ASSUME MaxRetriesAssumption == MaxRetries \in Nat \ {0}
ASSUME BatchLimitAssumption == BatchLimit \in Nat \ {0}
ASSUME HandlesAssumption == Handles \in [Workers -> SUBSET Events]

VARIABLES
  status,       \* OutboxEvent.status, or "absent" before the row exists
  attempts,     \* OutboxEvent.attemptCount (= retries)
  processedAt,  \* whether OutboxEvent.processedAt is set
  retryAt,      \* nextRetryAt compared with now()
  candidates,   \* claimPending: rows read and not yet tried, per worker
  claimed,      \* processPendingBatch: rows claimed and not yet settled
  running,      \* the row whose handler has run, with its outcome
  request,      \* what an administrator read and is about to write
  delivered,    \* history: how often the handler succeeded (2 = more)
  failures,     \* history: failed attempts, up to MaxRetries
  lostAck,      \* history: a success whose "processed" was never written
  abandoned,    \* history: a claimed row was dropped by its worker
  raced         \* history: an operator wrote over a row no longer dead/failed

rowVars     == <<status, attempts, processedAt, retryAt>>
workerVars  == <<candidates, claimed, running>>
historyVars == <<delivered, failures, lostAck, abandoned, raced>>
vars == <<rowVars, workerVars, request, historyVars>>

Statuses == {"absent", "pending", "failed", "processing", "processed", "dead"}
Claimable == {"pending", "failed"}
Snapshot == [id : Events, status : Claimable, attempts : 0..MaxRetries]
NotRunning == [outcome |-> "none"]
NoRequest == [kind |-> "none"]

TypeOK ==
  /\ status \in [Events -> Statuses]
  /\ attempts \in [Events -> 0..MaxRetries]
  /\ processedAt \in [Events -> BOOLEAN]
  /\ retryAt \in [Events -> {"null", "future", "due"}]
  /\ candidates \in [Workers -> SUBSET Snapshot]
  /\ claimed \in [Workers -> SUBSET Snapshot]
  /\ running \in [Workers -> [outcome : {"ok", "error"}, row : Snapshot] \cup {NotRunning}]
  /\ request \in [Operators -> [kind : {"requeue", "ignore"}, id : Events] \cup {NoRequest}]
  /\ delivered \in [Events -> 0..2]
  /\ failures \in [Events -> 0..MaxRetries]
  /\ lostAck \in [Events -> BOOLEAN]
  /\ abandoned \in [Events -> BOOLEAN]
  /\ raced \in [Events -> BOOLEAN]

Init ==
  /\ status = [e \in Events |-> "absent"]
  /\ attempts = [e \in Events |-> 0]
  /\ processedAt = [e \in Events |-> FALSE]
  /\ retryAt = [e \in Events |-> "null"]
  /\ candidates = [w \in Workers |-> {}]
  /\ claimed = [w \in Workers |-> {}]
  /\ running = [w \in Workers |-> NotRunning]
  /\ request = [o \in Operators |-> NoRequest]
  /\ delivered = [e \in Events |-> 0]
  /\ failures = [e \in Events |-> 0]
  /\ lostAck = [e \in Events |-> FALSE]
  /\ abandoned = [e \in Events |-> FALSE]
  /\ raced = [e \in Events |-> FALSE]

-----------------------------------------------------------------------------
(* Producers: OutboxService.enqueue, and the same upsert made inside        *)
(* PlatformPersistenceService.persistRows.                                  *)

Insert(e) ==
  /\ status[e] = "absent"
  /\ status' = [status EXCEPT ![e] = "pending"]
  /\ retryAt' = [retryAt EXCEPT ![e] = "due"]
  /\ UNCHANGED <<attempts, processedAt, workerVars, request, historyVars>>

\* A second enqueue under the same idempotency key rewrites payload and
\* schedule and leaves status, attempts and processedAt as they are.
EnqueueAgain(e) ==
  /\ status[e] # "absent"
  /\ retryAt' = [retryAt EXCEPT ![e] = "due"]
  /\ UNCHANGED <<status, attempts, processedAt, workerVars, request, historyVars>>

\* The clock reaches nextRetryAt.
RetryTimeComes(e) ==
  /\ retryAt[e] = "future"
  /\ retryAt' = [retryAt EXCEPT ![e] = "due"]
  /\ UNCHANGED <<status, attempts, processedAt, workerVars, request, historyVars>>

-----------------------------------------------------------------------------
(* A batch: claimPending, then the handling loop of processPendingBatch.    *)

Due(w) == {e \in Handles[w] : /\ status[e] \in Claimable
                              /\ ~processedAt[e]
                              /\ retryAt[e] # "future"}

Idle(w) == candidates[w] = {} /\ claimed[w] = {} /\ running[w] = NotRunning

\* findMany: any batch of due rows up to the limit (the order of the query
\* is abstracted to a free choice).
ReadCandidates(w) ==
  /\ Idle(w)
  /\ \E batch \in SUBSET Due(w) :
       /\ batch # {}
       /\ Cardinality(batch) <= BatchLimit
       /\ Cardinality(batch) = BatchLimit \/ batch = Due(w)
       /\ candidates' = [candidates EXCEPT ![w] =
            {[id |-> e, status |-> status[e], attempts |-> attempts[e]] : e \in batch}]
  /\ UNCHANGED <<rowVars, claimed, running, request, historyVars>>

\* updateMany with a where clause on the status that was read.
ClaimWins_ByIdOnly(c) == TRUE
ClaimWins_AnyStatus(c) == ~processedAt[c.id]
ClaimWins(c) == status[c.id] = c.status /\ ~processedAt[c.id]

Claim(w, c) ==
  /\ c \in candidates[w]
  /\ candidates' = [candidates EXCEPT ![w] = @ \ {c}]
  /\ ClaimWins(c)
  /\ status' = [status EXCEPT ![c.id] = "processing"]
  /\ claimed' = [claimed EXCEPT ![w] = @ \cup {c}]
  /\ UNCHANGED <<attempts, processedAt, retryAt, running, request, historyVars>>

ClaimMisses(w, c) ==
  /\ c \in candidates[w]
  /\ candidates' = [candidates EXCEPT ![w] = @ \ {c}]
  /\ ~ClaimWins(c)
  /\ UNCHANGED <<rowVars, claimed, running, request, historyVars>>

\* The handler runs once all claims have been tried, and returns or throws.
Handle(w, c, outcome) ==
  /\ candidates[w] = {}
  /\ running[w] = NotRunning
  /\ c \in claimed[w]
  /\ running' = [running EXCEPT ![w] = [outcome |-> outcome, row |-> c]]
  /\ delivered' = IF outcome = "ok" /\ delivered[c.id] < 2
                  THEN [delivered EXCEPT ![c.id] = @ + 1] ELSE delivered
  /\ UNCHANGED <<rowVars, candidates, claimed, request, failures, lostAck, abandoned, raced>>

\* update({ where: { id } }): the row is written whatever its status is now.
MarkProcessed(w) ==
  /\ running[w].outcome = "ok"
  /\ LET c == running[w].row IN
       /\ status' = [status EXCEPT ![c.id] = "processed"]
       /\ processedAt' = [processedAt EXCEPT ![c.id] = TRUE]
       /\ retryAt' = [retryAt EXCEPT ![c.id] = "null"]
       /\ claimed' = [claimed EXCEPT ![w] = @ \ {c}]
  /\ running' = [running EXCEPT ![w] = NotRunning]
  /\ UNCHANGED <<attempts, candidates, request, historyVars>>

\* That update is inside the try block: when it rejects, the catch clause
\* treats the delivered event as a failed one.
AcknowledgementRejected(w) ==
  /\ running[w].outcome = "ok"
  /\ running' = [running EXCEPT ![w].outcome = "error"]
  /\ lostAck' = [lostAck EXCEPT ![running[w].row.id] = TRUE]
  /\ UNCHANGED <<rowVars, candidates, claimed, request, delivered, failures, abandoned, raced>>

\* The attempt count comes from the row as it was read before the claim.
AttemptsAfterFailure_NotCounted(c) == c.attempts
AttemptsAfterFailure(c) == c.attempts + 1

Exhausted(c) == AttemptsAfterFailure(c) >= MaxRetries

StatusAfterFailure_Kept(c) == IF Exhausted(c) THEN "dead" ELSE status[c.id]
StatusAfterFailure(c) == IF Exhausted(c) THEN "dead" ELSE "failed"

MarkFailed(w) ==
  /\ running[w].outcome = "error"
  /\ LET c == running[w].row IN
       /\ status' = [status EXCEPT ![c.id] = StatusAfterFailure(c)]
       /\ attempts' = [attempts EXCEPT ![c.id] = AttemptsAfterFailure(c)]
       /\ retryAt' = [retryAt EXCEPT ![c.id] = IF Exhausted(c) THEN "null" ELSE "future"]
       /\ claimed' = [claimed EXCEPT ![w] = @ \ {c}]
       /\ failures' = IF failures[c.id] < MaxRetries
                      THEN [failures EXCEPT ![c.id] = @ + 1] ELSE failures
  /\ running' = [running EXCEPT ![w] = NotRunning]
  /\ UNCHANGED <<processedAt, candidates, request, delivered, lostAck, abandoned, raced>>

\* A claim or the update of the catch clause rejects, or the process exits:
\* the batch ends and what it had claimed stays "processing" in the table.
AbandonBatch(w) ==
  /\ ~Idle(w)
  /\ candidates' = [candidates EXCEPT ![w] = {}]
  /\ claimed' = [claimed EXCEPT ![w] = {}]
  /\ running' = [running EXCEPT ![w] = NotRunning]
  /\ abandoned' = [e \in Events |-> abandoned[e] \/ \E c \in claimed[w] : c.id = e]
  /\ lostAck' = [e \in Events |-> \/ lostAck[e]
                                  \/ running[w].outcome = "ok" /\ running[w].row.id = e]
  /\ UNCHANGED <<rowVars, request, delivered, failures, raced>>

-----------------------------------------------------------------------------
(* Administrators: requeueEvent and ignoreEvent read the row, check its     *)
(* status and then update it by id alone.                                   *)

OperatorReads(o, kind, e) ==
  /\ request[o] = NoRequest
  /\ status[e] \in {"dead", "failed"}
  /\ request' = [request EXCEPT ![o] = [kind |-> kind, id |-> e]]
  /\ UNCHANGED <<rowVars, workerVars, historyVars>>

OperatorDone(o) ==
  /\ request' = [request EXCEPT ![o] = NoRequest]
  /\ raced' = IF status[request[o].id] \in {"dead", "failed"} THEN raced
              ELSE [raced EXCEPT ![request[o].id] = TRUE]
  /\ UNCHANGED <<workerVars, delivered, failures, lostAck, abandoned>>

Requeue(o) ==
  /\ request[o].kind = "requeue"
  /\ LET e == request[o].id IN
       /\ status' = [status EXCEPT ![e] = "pending"]
       /\ attempts' = [attempts EXCEPT ![e] = 0]
       /\ processedAt' = [processedAt EXCEPT ![e] = FALSE]
       /\ retryAt' = [retryAt EXCEPT ![e] = "due"]
  /\ OperatorDone(o)

Ignore(o) ==
  /\ request[o].kind = "ignore"
  /\ LET e == request[o].id IN
       /\ status' = [status EXCEPT ![e] = "processed"]
       /\ processedAt' = [processedAt EXCEPT ![e] = TRUE]
       /\ retryAt' = [retryAt EXCEPT ![e] = "null"]
  /\ attempts' = attempts
  /\ OperatorDone(o)

\* replayEvent: a new row, under a fresh key, with the payload of a row that
\* exists in any status.
Replay(e, copy) ==
  /\ Operators # {}
  /\ status[e] # "absent"
  /\ Insert(copy)

-----------------------------------------------------------------------------
WorkerStep(w) ==
  \/ ReadCandidates(w)
  \/ \E c \in candidates[w] : Claim(w, c) \/ ClaimMisses(w, c)
  \/ \E c \in claimed[w], outcome \in {"ok", "error"} : Handle(w, c, outcome)
  \/ MarkProcessed(w)
  \/ AcknowledgementRejected(w)
  \/ MarkFailed(w)

OperatorStep(o) ==
  \/ \E kind \in {"requeue", "ignore"}, e \in Events : OperatorReads(o, kind, e)
  \/ Requeue(o)
  \/ Ignore(o)

Produce == \E e \in Events : Insert(e) \/ EnqueueAgain(e) \/ RetryTimeComes(e)

Next ==
  \/ Produce
  \/ \E w \in Workers : WorkerStep(w) \/ AbandonBatch(w)
  \/ \E o \in Operators : OperatorStep(o)
  \/ \E e, copy \in Events : Replay(e, copy)

Spec == Init /\ [][Next]_vars

\* What may not go on for ever: administrators who requeue and ignore, and batches that
\* are interrupted before they have claimed a row.
Disturbance ==
  \/ \E o \in Operators : OperatorStep(o)
  \/ \E w \in Workers : claimed[w] = {} /\ AbandonBatch(w)

\* The timer, the worker and the clock keep running.
FairSpec ==
  /\ Spec
  /\ \A w \in Workers : WF_vars(WorkerStep(w))
  /\ \A e \in Events : WF_vars(RetryTimeComes(e))
  /\ <>[][~Disturbance]_vars

\* The same where nothing of that kind ever happens, for larger instances.
QuietNext ==
  \/ Produce
  \/ \E w \in Workers : WorkerStep(w) \/ (claimed[w] # {} /\ AbandonBatch(w))
  \/ \E e, copy \in Events : Replay(e, copy)

QuietSpec ==
  /\ Init
  /\ [][QuietNext]_vars
  /\ \A w \in Workers : WF_vars(WorkerStep(w))
  /\ \A e \in Events : WF_vars(RetryTimeComes(e))

-----------------------------------------------------------------------------
(* Properties.                                                              *)

Holds(w, e) == \E c \in claimed[w] : c.id = e

\* The compare-and-set of claimPending gives a row to one batch at a time,
\* however stale the batch's read of the row was, unless an administrator's
\* requeue or ignore was written over a row that had moved on since it was
\* checked.  A row that is held is in status "processing".
ExclusiveClaim ==
  \A e \in Events : ~raced[e] =>
    \A v, w \in Workers : \A c \in claimed[v], d \in claimed[w] :
      c.id = e /\ d.id = e => v = w /\ c = d /\ status[e] = "processing"

\* A handler succeeds twice for one row only when the acknowledgement of a
\* success was lost (processPendingBatch catches its own update's rejection,
\* or the process died before it) or an administrator's write was stale.
DuplicateOnlyAfterLostAck ==
  \A e \in Events : delivered[e] = 2 => lostAck[e] \/ raced[e]

\* A row is given up ("dead") only after at least maxRetries real failures:
\* a stale attempt count makes the outbox retry more often, never less.
\* Failures before a requeue count, as the stale count may predate it.
DeadOnlyAfterMaxRetries ==
  \A e \in Events : status[e] = "dead" => failures[e] = MaxRetries

\* A row stays "processing" with nobody working on it only when a batch that
\* had claimed it was interrupted.
OrphanOnlyIfAbandoned ==
  \A e \in Events : status[e] = "processing" =>
    abandoned[e] \/ \E w \in Workers : Holds(w, e)

\* A row that waits for a retry can be claimed: claimPending skips rows whose
\* processedAt is set, and only a stale administrator write leaves one so.
WaitingRowsAreClaimable ==
  \A e \in Events : status[e] \in Claimable /\ processedAt[e] => raced[e]

\* "processed" is final: neither a late failure of another batch nor a second
\* enqueue under the same key takes a row back, unless an administrator raced.
ProcessedIsFinal ==
  [][\A e \in Events : status[e] = "processed" /\ ~raced'[e] => status'[e] = "processed"]_vars

\* Row by row the outbox keeps OutboxContract: done only after a success or a
\* dismissal, taken only while waiting, done for good.
Stage == [e \in Events |->
  CASE status[e] \in Claimable -> "waiting"
    [] status[e] = "processing" ->
         IF \E w \in Workers : running[w].outcome = "ok" /\ running[w].row.id = e
         THEN "succeeded" ELSE "taken"
    [] status[e] = "processed" -> "done"
    [] OTHER -> status[e]]
Contract == INSTANCE OutboxContract
              WITH stage <- Stage, trusted <- [e \in Events |-> ~raced[e]]
KeepsContract == Contract!Spec

\* Every row that waits is eventually processed or dead, or was in a batch
\* that was interrupted, or an administrator's stale write left it as no batch can
\* claim it: concurrent batches whose stale counts push attemptCount back cannot do
\* so forever.
EventuallySettled ==
  \A e \in Events :
    status[e] \in Claimable ~>
      status[e] \in {"processed", "dead"} \/ abandoned[e] \/ raced[e]
=============================================================================
