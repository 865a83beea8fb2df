---------------------------- MODULE FinanceReach ----------------------------
(***************************************************************************)
(* FinanceLifecycle with resolveMonotonicFinanceTransition run in its      *)
(* steps: the two calls of canReachFinanceState, each a depth-first search *)
(* whose recursive calls share one set of visited states and stop at the   *)
(* first success, and the decision from their answers.  Nothing else runs  *)
(* between these steps, the function being synchronous.                    *)
(***************************************************************************)
EXTENDS FinanceLifecycle, FiniteSets, Naturals, Sequences

CONSTANT None   \* no resolution under way

ASSUME NoneIsNoState == \A g \in Machines : None \notin DOMAIN g

\* The graphs are object literals.
ASSUME GraphsAreFinite == \A g \in Machines : IsFiniteSet(DOMAIN g)

VARIABLES attempted,  \* the reported state under resolution, or None
          answers,    \* the answers of its searches so far: forward, then backward
          calls,      \* the calls of the search under way, innermost first: of each, the
                      \* candidates it has not tried yet (`some` over graph[from])
          visited     \* the Set that these calls share

searchVars == <<attempted, answers, calls, visited>>
allVars == <<vars, searchVars>>

ReachInit ==
    /\ Init
    /\ attempted = None
    /\ answers = <<>>
    /\ calls = <<>>
    /\ visited = {}

\* An unknown stored state (bootstrap) and the stored one again (noop) need no search.
Immediate(s) == ~Known(graph, current) \/ s = current

ReportAtOnce(s) ==
    /\ attempted = None
    /\ Immediate(s)
    /\ Report(s)
    /\ UNCHANGED searchVars

\* Any other report calls canReachFinanceState(graph, current, attempted) first.
BeginReport(s) ==
    /\ attempted = None
    /\ Known(graph, s)
    /\ ~Immediate(s)
    /\ attempted' = s
    /\ calls' = <<{current}>>
    /\ UNCHANGED <<vars, answers, visited>>

Target == IF answers = <<>> THEN attempted ELSE current

\* The outermost call returns: the second search starts, with a Set of its own.
Answer(found) ==
    /\ answers' = Append(answers, found)
    /\ calls' = IF answers = <<>> THEN <<{attempted}>> ELSE <<>>
    /\ visited' = {}

\* Mutant: the successors are marked as visited together with their state.
Call_MarkSuccessors(c) ==
    /\ calls # <<>>
    /\ c \in Head(calls)
    /\ IF c = Target THEN Answer(TRUE)
       ELSE LET caller == <<Head(calls) \ {c}>> \o Tail(calls)
            IN  /\ calls' = IF c \in visited THEN caller ELSE <<graph[c]>> \o caller
                /\ visited' = visited \cup {c} \cup graph[c]
                /\ UNCHANGED answers
    /\ UNCHANGED <<vars, attempted>>

\* The innermost call calls itself on a candidate.  Finding the target ends every call;
\* a visited candidate answers false; another one is marked and its successors are tried.
Call(c) ==
    /\ calls # <<>>
    /\ c \in Head(calls)
    /\ IF c = Target THEN Answer(TRUE)
       ELSE LET caller == <<Head(calls) \ {c}>> \o Tail(calls)
            IN  /\ calls' = IF c \in visited THEN caller ELSE <<graph[c]>> \o caller
                /\ visited' = visited \cup {c}
                /\ UNCHANGED answers
    /\ UNCHANGED <<vars, attempted>>

\* No candidate of the innermost call is left: it returns false to its caller.
Return ==
    /\ calls # <<>>
    /\ Head(calls) = {}
    /\ IF Tail(calls) = <<>> THEN Answer(FALSE)
       ELSE calls' = Tail(calls) /\ UNCHANGED <<answers, visited>>
    /\ UNCHANGED <<vars, attempted>>

\* Both searches have answered: the decision, and the state is stored.
Decide ==
    /\ attempted # None
    /\ calls = <<>>
    /\ current' = StateAfter(
                      DecisionFrom(graph, current, attempted, answers[1], answers[2]),
                      current, attempted)
    /\ reported' = reported \cup {attempted}
    /\ attempted' = None
    /\ answers' = <<>>
    /\ UNCHANGED <<graph, calls, visited>>

Command(s) ==
    /\ attempted = None
    /\ Transition(s)
    /\ UNCHANGED searchVars

ReachNext ==
    \/ \E s \in Names : ReportAtOnce(s) \/ BeginReport(s) \/ Command(s) \/ Call(s)
    \/ Return
    \/ Decide

ReachSpec == ReachInit /\ [][ReachNext]_allVars

-----------------------------------------------------------------------------

\* The two searches answer reachability: sharing the visited states between branches
\* hides no path, and neither do cycles.
SearchIsReachability ==
    /\ Len(answers) > 0 => answers[1] = CanReach(graph, current, attempted)
    /\ Len(answers) > 1 => answers[2] = CanReach(graph, attempted, current)

\* A cycle cannot exhaust the call stack: at most as many calls are open as there are
\* states in the graph.
RecursionIsBounded == Len(calls) <= Cardinality(DOMAIN graph)

\* The candidates still to try, each with the depth of its call.
Untried(g, q) ==
    {u \in (1 .. Len(q)) \X DOMAIN g : u[2] \in q[Len(q) + 1 - u[1]]}

Unvisited == Cardinality(DOMAIN graph \ visited)
Work == Cardinality(Untried(graph, calls)) + Len(calls)

\* Every search ends, whatever cycles it meets: each of its steps answers, or leaves fewer
\* states unvisited, or as many and fewer candidates and calls.
SearchesComeToAnEnd ==
    [][calls # <<>> =>
          \/ Len(answers) < Len(answers') /\ Len(answers') <= 2
          \/ answers' = answers /\ Unvisited' < Unvisited
          \/ answers' = answers /\ Unvisited' = Unvisited /\ Work' < Work]_allVars
=============================================================================
