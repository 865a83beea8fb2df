--------------------------- MODULE OutboxContract ---------------------------
(***************************************************************************)
(* What the outbox promises of each row, whoever processes it: a row is    *)
(* done only after its handler succeeded in the attempt that is being      *)
(* settled, or because an administrator dismissed it while it was waiting  *)
(* or dead; only a row that waits is taken; done is final.  The promise    *)
(* stops for a row over which an administrator wrote with a stale check    *)
(* (trusted becomes FALSE).                                                *)
(***************************************************************************)
CONSTANT Events

VARIABLES stage, trusted

Stages == {"absent", "waiting", "taken", "succeeded", "done", "dead"}

Init ==
  /\ stage = [e \in Events |-> "absent"]
  /\ trusted = [e \in Events |-> TRUE]

Move(e, from, to) ==
  /\ stage[e] \in from
  /\ stage' = [stage EXCEPT ![e] = to]
  /\ UNCHANGED trusted

Submit(e)      == Move(e, {"absent"}, "waiting")
Take(e)        == Move(e, {"waiting"}, "taken")
Succeed(e)     == Move(e, {"taken"}, "succeeded")
Acknowledge(e) == Move(e, {"succeeded"}, "done")
LoseAck(e)     == Move(e, {"succeeded"}, "taken")
RetryLater(e)  == Move(e, {"taken"}, "waiting")
GiveUp(e)      == Move(e, {"taken"}, "dead")
Revive(e)      == Move(e, {"waiting", "dead"}, "waiting")
Dismiss(e)     == Move(e, {"waiting", "dead"}, "done")

StaleWrite(e) ==
  /\ trusted' = [trusted EXCEPT ![e] = FALSE]
  /\ \E s \in Stages : stage' = [stage EXCEPT ![e] = s]

Next == \E e \in Events :
  \/ Submit(e) \/ Take(e) \/ Succeed(e) \/ Acknowledge(e) \/ LoseAck(e)
  \/ RetryLater(e) \/ GiveUp(e) \/ Revive(e) \/ Dismiss(e) \/ StaleWrite(e)

Spec == Init /\ [][Next]_<<stage, trusted>>
=============================================================================
