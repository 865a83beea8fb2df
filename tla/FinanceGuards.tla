---------------------------- MODULE FinanceGuards ----------------------------
(***************************************************************************)
(* The state graphs of backend/src/payments/finance-domain-guards.ts, and  *)
(* how a command (assertFinanceTransition) and a provider or a replay      *)
(* (resolveMonotonicFinanceTransition) may move along one of them.  A      *)
(* graph is a function from its known states to the sets of successors.    *)
(***************************************************************************)

TransactionGraph ==
    [initiated        |-> {"pending_provider", "failed"},
     pending_provider |-> {"processing", "confirmed", "failed"},
     processing       |-> {"confirmed", "failed"},
     confirmed        |-> {"refunded", "reconciled"},
     failed           |-> {"pending_provider"},
     refunded         |-> {},
     reconciled       |-> {}]

EscrowGraph ==
    [awaiting_funding |-> {"funded", "refunded"},
     funded           |-> {"assigned", "released", "refunded"},
     assigned         |-> {"in_progress", "released", "refunded"},
     in_progress      |-> {"delivery_review", "released", "refunded"},
     delivery_review  |-> {"released", "refunded"},
     released         |-> {},
     refunded         |-> {}]

PayoutGraph ==
    [pending   |-> {"approved", "rejected", "cancelled"},
     approved  |-> {"paid", "rejected"},
     paid      |-> {},
     rejected  |-> {},
     cancelled |-> {}]

SubscriptionGraph ==
    [trialing  |-> {"active", "cancelled", "expired"},
     active    |-> {"active", "past_due", "cancelled", "expired"},
     past_due  |-> {"active", "cancelled", "expired"},
     expired   |-> {"active"},
     cancelled |-> {}]

InvoiceGraph ==
    [pending   |-> {"paid", "overdue", "cancelled"},
     overdue   |-> {"paid", "cancelled"},
     paid      |-> {},
     cancelled |-> {}]

PaymentIntentGraph ==
    [initiated        |-> {"pending_provider", "confirmed", "failed", "cancelled"},
     pending_provider |-> {"processing", "confirmed", "failed", "cancelled"},
     processing       |-> {"confirmed", "failed", "cancelled"},
     confirmed        |-> {},
     failed           |-> {},
     cancelled        |-> {},
     expired          |-> {}]

-----------------------------------------------------------------------------

Known(graph, s) == s \in DOMAIN graph

Terminal(graph, s) == graph[s] = {}

\* canReachFinanceState: every set of states that is closed under the edges and holds
\* the first state holds the second.
CanReach(graph, from, to) ==
    /\ Known(graph, from) /\ Known(graph, to)
    /\ \A closed \in SUBSET DOMAIN graph :
          /\ from \in closed
          /\ \A s \in closed : graph[s] \subseteq closed
          => to \in closed

\* assertFinanceTransition does not throw.
MayTransition(graph, current, next) ==
    /\ Known(graph, current) /\ Known(graph, next)
    /\ next = current \/ next \in graph[current]

Ahead(graph, current, s) == CanReach(graph, current, s) /\ ~CanReach(graph, s, current)

\* The decision of resolveMonotonicFinanceTransition for a known attempted state, given
\* what the two searches answered.
DecisionFrom(graph, current, attempted, forward, backward) ==
    IF ~Known(graph, current) THEN "bootstrap"
    ELSE IF attempted = current THEN "noop"
    ELSE IF attempted \in graph[current] THEN "advance"
    ELSE IF forward /\ ~backward THEN "advance_reachable"
    ELSE IF Terminal(graph, current) THEN "preserve_terminal"
    ELSE IF backward /\ ~forward THEN "preserve_regression"
    ELSE "preserve_conflict"

Decision(graph, current, attempted) ==
    DecisionFrom(graph, current, attempted,
                 CanReach(graph, current, attempted), CanReach(graph, attempted, current))

\* Mutant: only direct successors are taken.
StateAfter_DirectOnly(decision, current, attempted) ==
    IF decision \in {"bootstrap", "noop", "advance"} THEN attempted ELSE current

\* The nextState of a resolution.
StateAfter(decision, current, attempted) ==
    IF decision \in {"bootstrap", "noop", "advance", "advance_reachable"}
    THEN attempted ELSE current

Resolved(graph, current, attempted) ==
    StateAfter(Decision(graph, current, attempted), current, attempted)
=============================================================================
