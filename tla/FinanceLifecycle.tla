-------------------------- MODULE FinanceLifecycle --------------------------
(***************************************************************************)
(* The life of one stored finance state under the guards of FinanceGuards: *)
(* reports of a provider arrive late, twice and in any order, and commands *)
(* come in between.                                                        *)
(***************************************************************************)
EXTENDS FinanceGuards

CONSTANTS Machines,   \* the graphs to consider
          Unknown     \* a stored value that is no state (a row without one)

ASSUME UnknownIsNoState == \A g \in Machines : Unknown \notin DOMAIN g

ASSUME GraphsAreClosed ==
    \A g \in Machines : \A s \in DOMAIN g : g[s] \in SUBSET DOMAIN g

VARIABLES graph,      \* the graph of this state, fixed
          current,    \* the stored state
          reported    \* history: the states reported so far

vars == <<graph, current, reported>>

Init ==
    /\ graph \in Machines
    /\ current \in DOMAIN graph \cup {Unknown}
    /\ reported = {}

\* A webhook, a reconciliation or a synchronisation reports a state; one the graph does
\* not know is an error ("Etat cible ... inconnu").
Report(s) ==
    /\ Known(graph, s)
    /\ current' = Resolved(graph, current, s)
    /\ reported' = reported \cup {s}
    /\ UNCHANGED graph

\* A command of an administrator passes assertFinanceTransition.
Transition(s) ==
    /\ MayTransition(graph, current, s)
    /\ current' = s
    /\ UNCHANGED <<graph, reported>>

Names == UNION {DOMAIN g : g \in Machines}

Next == \E s \in Names : Report(s) \/ Transition(s)

Spec == Init /\ [][Next]_vars

-----------------------------------------------------------------------------

\* Type invariant.
TypeOK ==
    /\ graph \in Machines
    /\ current \in DOMAIN graph \cup {Unknown}
    /\ reported \in SUBSET DOMAIN graph

\* Late and reordered reports lose nothing: no state that was ever reported is
\* strictly ahead of the stored one, whatever the order of arrival.
NothingAheadIsLost ==
    \A s \in reported : ~Ahead(graph, current, s)

\* Monotony: the stored state only moves to states the graph reaches from it, and
\* never leaves a terminal one ("never leaves a terminal state when a late webhook
\* arrives", finance-domain-guards.spec.ts).
OnlyMovesForward ==
    [][current # Unknown =>
          /\ CanReach(graph, current, current')
          /\ Terminal(graph, current) => current' = current]_vars
=============================================================================
