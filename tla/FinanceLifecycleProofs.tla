----------------------- MODULE FinanceLifecycleProofs -----------------------
(***************************************************************************)
(* Theorems about FinanceLifecycle, for every state graph.                 *)
(***************************************************************************)
EXTENDS FinanceReach, FiniteSetTheorems, TLAPS

USE UnknownIsNoState, GraphsAreClosed

\* Reachability is reflexive, follows the edges and is transitive.
LEMMA ReachSelf ==
  ASSUME NEW g, NEW s \in DOMAIN g
  PROVE  CanReach(g, s, s)
BY DEF CanReach, Known

LEMMA ReachEdge ==
  ASSUME NEW g \in Machines, NEW s \in DOMAIN g, NEW t \in g[s]
  PROVE  t \in DOMAIN g /\ CanReach(g, s, t)
BY DEF CanReach, Known

LEMMA ReachTransitive ==
  ASSUME NEW g, NEW s, NEW t, NEW u, CanReach(g, s, t), CanReach(g, t, u)
  PROVE  CanReach(g, s, u)
BY DEF CanReach, Known

\* Nothing but itself is reached from a terminal state.
LEMMA ReachFromTerminal ==
  ASSUME NEW g, NEW s, NEW t, CanReach(g, s, t), Terminal(g, s)
  PROVE  t = s
<1>1. {s} \in SUBSET DOMAIN g
  BY DEF CanReach, Known
<1>2. t \in {s}
  BY <1>1 DEF CanReach, Terminal
<1>3. QED
  BY <1>2

\* Resolution keeps a known state or moves it forward, by an edge or strictly ahead.
LEMMA ResolvedCases ==
  ASSUME NEW g \in Machines, NEW c, NEW a \in DOMAIN g
  PROVE  /\ Resolved(g, c, a) \in {c, a}
         /\ c \in DOMAIN g => CanReach(g, c, Resolved(g, c, a))
         /\ c \notin DOMAIN g => Resolved(g, c, a) = a
         /\ c \in DOMAIN g /\ Ahead(g, c, a) => Resolved(g, c, a) = a
<1>1. CASE c \notin DOMAIN g
  BY <1>1 DEF Resolved, StateAfter, Decision, DecisionFrom, Known, Ahead
<1>2. CASE c \in DOMAIN g
  <2>1. Resolved(g, c, a) = a => a = c \/ a \in g[c] \/ Ahead(g, c, a)
    BY <1>2 DEF Resolved, StateAfter, Decision, DecisionFrom, Known, Ahead
  <2>2. Resolved(g, c, a) \in {c, a}
    BY DEF Resolved, StateAfter
  <2>3. CanReach(g, c, Resolved(g, c, a))
    BY <1>2, <2>1, <2>2, ReachSelf, ReachEdge DEF Ahead
  <2>4. Ahead(g, c, a) => Resolved(g, c, a) = a
    BY <1>2 DEF Resolved, StateAfter, Decision, DecisionFrom, Known, Ahead
  <2>5. QED
    BY <1>2, <2>2, <2>3, <2>4
<1>3. QED
  BY <1>1, <1>2

LEMMA TypeIsStable == TypeOK /\ [Next]_vars => TypeOK'
<1> SUFFICES ASSUME TypeOK, [Next]_vars PROVE TypeOK'
  OBVIOUS
<1> USE DEF TypeOK
<1>1. ASSUME NEW s, Report(s) PROVE TypeOK'
  <2>1. s \in DOMAIN graph /\ graph' = graph
    BY <1>1 DEF Report, Known
  <2>2. current' \in {current, s}
    BY <1>1, <2>1, ResolvedCases DEF Report
  <2>3. QED
    BY <1>1, <2>1, <2>2 DEF Report
<1>2. ASSUME NEW s, Transition(s) PROVE TypeOK'
  BY <1>2 DEF Transition, MayTransition, Known
<1>3. CASE UNCHANGED vars
  BY <1>3 DEF vars
<1>4. QED
  BY <1>1, <1>2, <1>3 DEF Next

\* The stored state stays a state of its graph, or none until the first report.
THEOREM TypeCorrect == Spec => []TypeOK
<1>1. Init => TypeOK
  BY DEF Init, TypeOK
<1>2. QED
  BY <1>1, TypeIsStable, PTL DEF Spec

\* A state that is not ahead of the stored one is not ahead of what it moves to.
LEMMA ForwardKeepsAhead ==
  ASSUME NEW g, NEW c, NEW n, NEW s, CanReach(g, c, n), ~Ahead(g, c, s)
  PROVE  ~Ahead(g, n, s)
BY ReachTransitive DEF Ahead

\* Late and reordered reports lose nothing, whatever the graph.
THEOREM ReportsAreNotLost == Spec => []NothingAheadIsLost
<1> DEFINE Inv == /\ NothingAheadIsLost
                  /\ current = Unknown => reported = {}
<1>1. Init => Inv
  BY DEF Init, NothingAheadIsLost
<1>2. TypeOK /\ Inv /\ [Next]_vars => Inv'
  <2> SUFFICES ASSUME TypeOK, Inv, [Next]_vars PROVE Inv'
    OBVIOUS
  <2> USE DEF TypeOK, NothingAheadIsLost
  <2>1. ASSUME NEW a, Report(a) PROVE Inv'
    <3>1. a \in DOMAIN graph /\ graph' = graph /\ current' = Resolved(graph, current, a)
          /\ reported' = reported \cup {a}
      BY <2>1 DEF Report, Known
    <3>2. current' # Unknown
      BY <3>1, ResolvedCases
    <3>3. CASE current = Unknown
      BY <3>1, <3>3, ResolvedCases DEF Ahead
    <3>4. CASE current \in DOMAIN graph
      <4>1. CanReach(graph, current, current')
        BY <3>1, <3>4, ResolvedCases
      <4>2. \A s \in reported : ~Ahead(graph, current', s)
        BY <4>1, ForwardKeepsAhead
      <4>3. ~Ahead(graph, current', a)
        <5>1. CASE Ahead(graph, current, a)
          BY <5>1, <3>1, <3>4, ResolvedCases DEF Ahead
        <5>2. CASE ~Ahead(graph, current, a)
          BY <5>2, <4>1, ForwardKeepsAhead
        <5>3. QED
          BY <5>1, <5>2
      <4>4. QED
        BY <3>1, <3>2, <4>2, <4>3
    <3>5. QED
      BY <3>3, <3>4
  <2>2. ASSUME NEW s, Transition(s) PROVE Inv'
    <3>1. /\ s \in DOMAIN graph /\ current \in DOMAIN graph
          /\ graph' = graph /\ current' = s /\ reported' = reported
          /\ s = current \/ s \in graph[current]
      BY <2>2 DEF Transition, MayTransition, Known
    <3>2. CanReach(graph, current, s)
      BY <3>1, ReachSelf, ReachEdge
    <3>3. \A r \in reported : ~Ahead(graph, s, r)
      BY <3>2, ForwardKeepsAhead
    <3>4. QED
      BY <3>1, <3>3
  <2>3. CASE UNCHANGED vars
    BY <2>3 DEF vars
  <2>4. QED
    BY <2>1, <2>2, <2>3 DEF Next
<1>3. QED
  BY <1>1, <1>2, TypeCorrect, PTL DEF Spec

\* Monotony, whatever the graph: every step goes to a reachable state, a terminal
\* state is final.
THEOREM LifecycleIsMonotone == Spec => OnlyMovesForward
<1> DEFINE Forward == current # Unknown =>
                         /\ CanReach(graph, current, current')
                         /\ Terminal(graph, current) => current' = current
<1>1. TypeOK /\ [Next]_vars => Forward
  <2> SUFFICES ASSUME TypeOK, [Next]_vars, current # Unknown
               PROVE  CanReach(graph, current, current')
    BY ReachFromTerminal
  <2>1. current \in DOMAIN graph /\ graph \in Machines
    BY DEF TypeOK
  <2>2. ASSUME NEW s, Report(s) PROVE CanReach(graph, current, current')
    BY <2>1, <2>2, ResolvedCases DEF Report, Known
  <2>3. ASSUME NEW s, Transition(s) PROVE CanReach(graph, current, current')
    BY <2>1, <2>3, ReachSelf, ReachEdge DEF Transition, MayTransition, Known
  <2>4. CASE UNCHANGED vars
    BY <2>1, <2>4, ReachSelf DEF vars
  <2>5. QED
    BY <2>2, <2>3, <2>4 DEF Next
<1>2. QED
  BY <1>1, TypeCorrect, PTL DEF Spec, OnlyMovesForward

-----------------------------------------------------------------------------

(***************************************************************************)
(* The steps of a resolution: what the searches answer, how deep they      *)
(* recurse, and that they do what FinanceLifecycle says of a report.       *)
(***************************************************************************)

USE NoneIsNoState, GraphsAreFinite

\* The candidates that the open calls have still to try.
Pending(q) == UNION {q[i] : i \in 1 .. Len(q)}

LEMMA PendingEmpty == Pending(<<>>) = {}
BY DEF Pending

LEMMA PendingPush ==
  ASSUME NEW S, NEW q \in Seq(S), NEW x \in S
  PROVE  /\ <<x>> \o q \in Seq(S) /\ <<x>> \o q # <<>>
         /\ Len(<<x>> \o q) = Len(q) + 1
         /\ Head(<<x>> \o q) = x /\ Tail(<<x>> \o q) = q
         /\ Pending(<<x>> \o q) = x \cup Pending(q)
<1> DEFINE p == <<x>> \o q
<1>1. p \in Seq(S) /\ Len(p) = Len(q) + 1 /\ p # <<>>
  OBVIOUS
<1>2. p[1] = x /\ \A i \in 1 .. Len(q) : p[i + 1] = q[i]
  OBVIOUS
<1>3. Head(p) = x /\ Tail(p) = q
  OBVIOUS
<1>4. Pending(p) = x \cup Pending(q)
  <2> HIDE DEF p
  <2>1. Pending(p) \subseteq x \cup Pending(q)
    <3>1. ASSUME NEW i \in 1 .. Len(p) PROVE p[i] \subseteq x \cup Pending(q)
      <4>1. CASE i = 1
        BY <1>2, <4>1
      <4>2. CASE i # 1
        <5>1. i - 1 \in 1 .. Len(q) /\ i = (i - 1) + 1
          BY <1>1, <4>2
        <5>2. p[i] = q[i - 1]
          BY <1>2, <5>1
        <5>3. QED
          BY <5>1, <5>2 DEF Pending
      <4>3. QED
        BY <4>1, <4>2
    <3>2. QED
      BY <3>1 DEF Pending
  <2>2. x \subseteq Pending(p)
    BY <1>1, <1>2 DEF Pending
  <2>3. Pending(q) \subseteq Pending(p)
    <3>1. ASSUME NEW i \in 1 .. Len(q) PROVE q[i] \subseteq Pending(p)
      <4>1. i + 1 \in 1 .. Len(p) /\ p[i + 1] = q[i]
        BY <1>1, <1>2
      <4>2. QED
        BY <4>1 DEF Pending
    <3>2. QED
      BY <3>1 DEF Pending
  <2>4. QED
    BY <2>1, <2>2, <2>3
<1>5. QED
  BY <1>1, <1>3, <1>4

LEMMA PendingHead ==
  ASSUME NEW S, NEW q \in Seq(S), q # <<>>
  PROVE  /\ Head(q) \in S /\ Tail(q) \in Seq(S)
         /\ Len(Tail(q)) = Len(q) - 1 /\ Len(q) \in Nat
         /\ Pending(q) = Head(q) \cup Pending(Tail(q))
<1>1. Head(q) \in S /\ Tail(q) \in Seq(S) /\ Len(Tail(q)) = Len(q) - 1 /\ Len(q) \in Nat
  OBVIOUS
<1>2. q = <<Head(q)>> \o Tail(q)
  BY <1>1
<1>3. QED
  BY <1>1, <1>2, PendingPush

LEMMA PendingReplace ==
  ASSUME NEW S, NEW q \in Seq(S), q # <<>>, NEW x \in S
  PROVE  /\ <<x>> \o Tail(q) \in Seq(S) /\ <<x>> \o Tail(q) # <<>>
         /\ Len(<<x>> \o Tail(q)) = Len(q)
         /\ Pending(<<x>> \o Tail(q)) = x \cup Pending(Tail(q))
<1> DEFINE t == Tail(q)
<1>1. t \in Seq(S) /\ Len(t) = Len(q) - 1 /\ Len(q) \in Nat
  BY PendingHead
<1> HIDE DEF t
<1>2. /\ <<x>> \o t \in Seq(S) /\ <<x>> \o t # <<>>
      /\ Len(<<x>> \o t) = Len(t) + 1
      /\ Pending(<<x>> \o t) = x \cup Pending(t)
  BY <1>1, PendingPush
<1>3. QED
  BY <1>1, <1>2 DEF t

\* What a search from a state has established, with the calls q open and v visited: the
\* first state and every successor of a visited one is visited or will be tried, all of
\* them are reached, and each open call but the outermost has visited a state of its own.
Explored(g, source, target, q, v) ==
  /\ q \in Seq(SUBSET DOMAIN g)
  /\ v \in SUBSET DOMAIN g
  /\ source \in v \cup Pending(q)
  /\ \A s \in v \cup Pending(q) : CanReach(g, source, s)
  /\ \A s \in v : g[s] \subseteq v \cup Pending(q)
  /\ target \notin v
  /\ Len(q) <= Cardinality(v) + 1

LEMMA SearchBegins ==
  ASSUME NEW g \in Machines, NEW source \in DOMAIN g, NEW target
  PROVE  Explored(g, source, target, <<{source}>>, {})
<1> DEFINE one == <<{source}>>
<1>1. one \in Seq(SUBSET DOMAIN g) /\ Len(one) = 1 /\ one[1] = {source}
  OBVIOUS
<1> HIDE DEF one
<1>2. Pending(one) = {source}
  BY <1>1 DEF Pending
<1>3. Len(one) <= Cardinality({}) + 1
  BY <1>1, FS_EmptySet
<1>4. QED
  BY <1>1, <1>2, <1>3, ReachSelf DEF Explored, one

\* The call on a visited candidate answers false.
LEMMA SearchSkips ==
  ASSUME NEW g \in Machines, NEW source, NEW target, NEW q, NEW v,
         Explored(g, source, target, q, v), q # <<>>, NEW c \in Head(q), c \in v
  PROVE  Explored(g, source, target, <<Head(q) \ {c}>> \o Tail(q), v \cup {c})
<1> DEFINE S == SUBSET DOMAIN g
           h == Head(q) \ {c}
           p == <<h>> \o Tail(q)
<1>1. /\ Head(q) \in S /\ Tail(q) \in Seq(S)
      /\ Len(Tail(q)) = Len(q) - 1 /\ Len(q) \in Nat
      /\ Pending(q) = Head(q) \cup Pending(Tail(q))
  BY PendingHead DEF Explored
<1>2. h \in S
  BY <1>1
<1>3. p \in Seq(S) /\ Len(p) = Len(q) /\ Pending(p) = h \cup Pending(Tail(q))
  <2> HIDE DEF h
  <2>1. q \in Seq(S)
    BY DEF Explored
  <2> HIDE DEF S
  <2>2. QED
    BY <1>2, <2>1, PendingReplace
<1>4. v \cup {c} = v /\ v \cup Pending(p) = v \cup Pending(q)
  BY <1>1, <1>3
<1> HIDE DEF p
<1>5. QED
  BY <1>3, <1>4 DEF Explored, p, h

\* The call on another candidate marks it and has its successors to try.
LEMMA SearchVisits ==
  ASSUME NEW g \in Machines, NEW source, NEW target, NEW q, NEW v,
         Explored(g, source, target, q, v), q # <<>>, NEW c \in Head(q), c \notin v,
         c # target
  PROVE  Explored(g, source, target, <<g[c]>> \o (<<Head(q) \ {c}>> \o Tail(q)), v \cup {c})
<1> DEFINE S == SUBSET DOMAIN g
           h == Head(q) \ {c}
           p == <<h>> \o Tail(q)
           r == <<g[c]>> \o p
<1>1. /\ Head(q) \in S /\ Tail(q) \in Seq(S)
      /\ Len(Tail(q)) = Len(q) - 1 /\ Len(q) \in Nat
      /\ Pending(q) = Head(q) \cup Pending(Tail(q))
  BY PendingHead DEF Explored
<1>2. c \in DOMAIN g /\ h \in S /\ g[c] \in S
  BY <1>1
<1>3. p \in Seq(S) /\ Len(p) = Len(q) /\ Pending(p) = h \cup Pending(Tail(q))
  <2> HIDE DEF h
  <2>1. q \in Seq(S)
    BY DEF Explored
  <2> HIDE DEF S
  <2>2. QED
    BY <1>2, <2>1, PendingReplace
<1>4. r \in Seq(S) /\ Len(r) = Len(q) + 1 /\ Pending(r) = g[c] \cup Pending(p)
  <2> HIDE DEF p, S
  <2>1. r \in Seq(S) /\ Len(r) = Len(p) + 1 /\ Pending(r) = g[c] \cup Pending(p)
    BY <1>2, <1>3, PendingPush
  <2>2. QED
    BY <1>3, <2>1
<1>5. v \cup Pending(q) \cup g[c] = (v \cup {c}) \cup Pending(r)
  BY <1>1, <1>3, <1>4
<1> HIDE DEF r
<1>6. Cardinality(v \cup {c}) = Cardinality(v) + 1 /\ Cardinality(v) \in Nat
  BY <1>2, FS_Subset, FS_AddElement, FS_CardinalityType DEF Explored
<1>7. CanReach(g, source, c)
  BY <1>1 DEF Explored
<1>8. \A s \in (v \cup {c}) \cup Pending(r) : CanReach(g, source, s)
  <2>1. ASSUME NEW s \in g[c] PROVE CanReach(g, source, s)
    BY <1>2, <1>7, <2>1, ReachEdge, ReachTransitive
  <2>2. QED
    BY <1>5, <2>1 DEF Explored
<1>9. \A s \in v \cup {c} : g[s] \subseteq (v \cup {c}) \cup Pending(r)
  BY <1>5 DEF Explored
<1>10. source \in (v \cup {c}) \cup Pending(r) /\ target \notin v \cup {c}
  BY <1>5 DEF Explored
<1>11. Len(r) <= Cardinality(v \cup {c}) + 1 /\ v \cup {c} \in SUBSET DOMAIN g
  BY <1>1, <1>2, <1>4, <1>6 DEF Explored
<1>12. Explored(g, source, target, r, v \cup {c})
  BY <1>4, <1>8, <1>9, <1>10, <1>11 DEF Explored
<1>13. QED
  BY <1>12 DEF r

\* A call that has tried every candidate returns to its caller.
LEMMA SearchReturns ==
  ASSUME NEW g \in Machines, NEW source, NEW target, NEW q, NEW v,
         Explored(g, source, target, q, v), q # <<>>, Head(q) = {}
  PROVE  Explored(g, source, target, Tail(q), v)
<1>1. /\ Tail(q) \in Seq(SUBSET DOMAIN g) /\ Len(Tail(q)) = Len(q) - 1 /\ Len(q) \in Nat
      /\ Pending(q) = Pending(Tail(q))
  BY PendingHead DEF Explored
<1>2. Cardinality(v) \in Nat
  BY FS_Subset, FS_CardinalityType DEF Explored
<1>3. QED
  BY <1>1, <1>2 DEF Explored

\* The target among the candidates is reached.
LEMMA SearchFinds ==
  ASSUME NEW g \in Machines, NEW source, NEW target, NEW q, NEW v,
         Explored(g, source, target, q, v), q # <<>>, target \in Head(q)
  PROVE  CanReach(g, source, target)
BY PendingHead DEF Explored

\* When no call is left the visited states are closed under the edges and lack the target.
LEMMA SearchFails ==
  ASSUME NEW g \in Machines, NEW source, NEW target, NEW q, NEW v,
         Explored(g, source, target, q, v), q # <<>>, Head(q) = {}, Tail(q) = <<>>
  PROVE  ~CanReach(g, source, target)
<1>1. Pending(q) = {}
  BY PendingHead, PendingEmpty DEF Explored
<1>2. v \in SUBSET DOMAIN g /\ source \in v /\ (\A s \in v : g[s] \subseteq v) /\ target \notin v
  BY <1>1 DEF Explored
<1>3. QED
  BY <1>2 DEF CanReach

\* At most as many calls are open as there are states.
LEMMA SearchIsShallow ==
  ASSUME NEW g \in Machines, NEW source, NEW target \in DOMAIN g, NEW q, NEW v,
         Explored(g, source, target, q, v)
  PROVE  Len(q) <= Cardinality(DOMAIN g)
<1>1. IsFiniteSet(DOMAIN g) /\ v \in SUBSET (DOMAIN g) /\ target \notin v
  BY DEF Explored
<1>2. IsFiniteSet(v) /\ Cardinality(v) \in Nat /\ Cardinality(DOMAIN g) \in Nat
  BY <1>1, FS_Subset, FS_CardinalityType
<1>3. Cardinality(v) < Cardinality(DOMAIN g)
  BY <1>1, <1>2, FS_Subset
<1>4. Len(q) \in Nat
  BY DEF Explored
<1>5. QED
  BY <1>2, <1>3, <1>4 DEF Explored

Forward == CanReach(graph, current, attempted)
Backward == CanReach(graph, attempted, current)

Resolving == attempted \in DOMAIN graph /\ current \in DOMAIN graph

\* No resolution, the forward search, the backward search, or both answers.
IsIdle == attempted = None /\ calls = <<>> /\ answers = <<>> /\ visited = {}

SearchesForward ==
  /\ Resolving /\ calls # <<>>
  /\ answers = <<>>
  /\ Explored(graph, current, attempted, calls, visited)

SearchesBackward ==
  /\ Resolving /\ calls # <<>>
  /\ answers \in Seq(BOOLEAN) /\ Len(answers) = 1
  /\ answers[1] = Forward
  /\ Explored(graph, attempted, current, calls, visited)

HasAnswers ==
  /\ Resolving /\ calls = <<>> /\ visited = {}
  /\ answers \in Seq(BOOLEAN) /\ Len(answers) = 2
  /\ answers[1] = Forward /\ answers[2] = Backward

Progress == IsIdle \/ SearchesForward \/ SearchesBackward \/ HasAnswers

\* With the right answers the decision is the one of the abstract report.
LEMMA DecisionsAgree ==
  ASSUME HasAnswers
  PROVE  Resolved(graph, current, attempted)
           = StateAfter(DecisionFrom(graph, current, attempted, answers[1], answers[2]),
                        current, attempted)
BY DEF HasAnswers, Forward, Backward, Resolved, Decision

\* A step of a resolution is a report when it decides, and nothing to the stored state
\* before.
LEMMA StepsRefine == TypeOK /\ Progress /\ [ReachNext]_allVars => [Next]_vars
<1> SUFFICES ASSUME TypeOK, Progress, [ReachNext]_allVars PROVE [Next]_vars
  OBVIOUS
<1>1. ASSUME NEW s \in Names, ReportAtOnce(s) PROVE Next
  BY <1>1 DEF ReportAtOnce, Next
<1>2. ASSUME NEW s, BeginReport(s) PROVE UNCHANGED vars
  BY <1>2 DEF BeginReport
<1>3. ASSUME NEW s \in Names, Command(s) PROVE Next
  BY <1>3 DEF Command, Next
<1>4. ASSUME NEW s, Call(s) PROVE UNCHANGED vars
  BY <1>4 DEF Call
<1>5. CASE Return
  BY <1>5 DEF Return
<1>6. CASE Decide
  <2>1. HasAnswers
    BY <1>6 DEF Decide, Progress, IsIdle, SearchesForward, SearchesBackward
  <2>2. attempted \in DOMAIN graph /\ attempted \in Names
    BY <2>1 DEF HasAnswers, Resolving, TypeOK, Names
  <2>3. Report(attempted)
    BY <1>6, <2>1, <2>2, DecisionsAgree DEF Report, Decide, Known
  <2>4. QED
    BY <2>2, <2>3 DEF Next
<1>7. CASE UNCHANGED allVars
  BY <1>7 DEF allVars
<1>8. QED
  BY <1>1, <1>2, <1>3, <1>4, <1>5, <1>6, <1>7 DEF ReachNext

\* The answer of the forward search opens the backward one, whose answer is the last.
LEMMA ForwardAnswers ==
  ASSUME TypeOK, SearchesForward, NEW found \in BOOLEAN, found = Forward,
         Answer(found), UNCHANGED <<vars, attempted>>
  PROVE  SearchesBackward'
<1> USE DEF SearchesForward, Resolving, vars
<1>1. answers' = <<found>> /\ calls' = <<{attempted}>> /\ visited' = {}
  BY DEF Answer
<1>2. answers' \in Seq(BOOLEAN) /\ Len(answers') = 1 /\ answers'[1] = found
  BY <1>1
<1>3. found = Forward'
  BY DEF Forward
<1>4. Explored(graph, attempted, current, calls', visited')
  BY <1>1, SearchBegins DEF TypeOK
<1>5. calls' # <<>>
  BY <1>1
<1>6. QED
  BY <1>2, <1>3, <1>4, <1>5 DEF SearchesBackward

LEMMA BackwardAnswers ==
  ASSUME SearchesBackward, NEW found \in BOOLEAN, found = Backward,
         Answer(found), UNCHANGED <<vars, attempted>>
  PROVE  HasAnswers'
<1> USE DEF Resolving, vars
<1>1. answers # <<>> /\ answers \in Seq(BOOLEAN) /\ Len(answers) = 1 /\ answers[1] = Forward
  <2>1. answers \in Seq(BOOLEAN) /\ Len(answers) = 1 /\ answers[1] = Forward
    BY DEF SearchesBackward
  <2>2. answers # <<>>
    BY <2>1
  <2>3. QED
    BY <2>1, <2>2
<1>2. answers' = Append(answers, found) /\ calls' = <<>> /\ visited' = {}
  BY <1>1 DEF Answer
<1>3. /\ answers' \in Seq(BOOLEAN) /\ Len(answers') = 2
      /\ answers'[1] = answers[1] /\ answers'[2] = found
  BY <1>1, <1>2
<1>4. answers'[1] = Forward' /\ answers'[2] = Backward'
  BY <1>1, <1>3 DEF Forward, Backward
<1>5. Resolving'
  BY DEF SearchesBackward
<1>6. QED
  BY <1>2, <1>3, <1>4, <1>5 DEF HasAnswers

\* Every step of a search keeps what it has established, or answers what it should.
LEMMA CallProgress ==
  ASSUME TypeOK, Progress, NEW c, Call(c)
  PROVE  Progress'
<1> DEFINE caller == <<Head(calls) \ {c}>> \o Tail(calls)
           deeper == <<graph[c]>> \o caller
<1>1. /\ calls # <<>> /\ c \in Head(calls) /\ UNCHANGED <<vars, attempted>>
      /\ graph \in Machines /\ UNCHANGED <<graph, current>>
  BY DEF Call, TypeOK, vars
<1>2. c = Target => Answer(TRUE)
  BY DEF Call
<1>3. c # Target =>
        /\ calls' = (IF c \in visited THEN caller ELSE deeper)
        /\ visited' = visited \cup {c}
        /\ UNCHANGED answers
  BY DEF Call
<1>4. caller # <<>> /\ deeper # <<>>
  OBVIOUS
<1>5. ASSUME NEW source, NEW target, Explored(graph, source, target, calls, visited),
             Target = target, c # Target
      PROVE  Explored(graph, source, target, calls', visited') /\ calls' # <<>>
  <2>1. CASE c \in visited
    <3>1. Explored(graph, source, target, caller, visited \cup {c})
      BY <1>1, <1>5, <2>1, SearchSkips
    <3> HIDE DEF caller
    <3>2. QED
      BY <1>3, <1>4, <1>5, <2>1, <3>1
  <2>2. CASE c \notin visited
    <3>1. Explored(graph, source, target, deeper, visited \cup {c})
      BY <1>1, <1>5, <2>2, SearchVisits
    <3> HIDE DEF deeper
    <3>2. QED
      BY <1>3, <1>4, <1>5, <2>2, <3>1
  <2>3. QED
    BY <2>1, <2>2
<1> HIDE DEF caller, deeper
<1>6. CASE SearchesForward
  <2>1. /\ Explored(graph, current, attempted, calls, visited)
        /\ answers = <<>> /\ Target = attempted /\ Resolving
    BY <1>6 DEF SearchesForward, Target
  <2>2. CASE c = Target
    <3>1. Forward
      BY <1>1, <2>1, <2>2, SearchFinds DEF Forward
    <3>2. QED
      BY <1>1, <1>2, <1>6, <2>2, <3>1, ForwardAnswers DEF Progress
  <2>3. CASE c # Target
    <3>1. Explored(graph, current, attempted, calls', visited') /\ calls' # <<>>
      BY <1>5, <2>1, <2>3
    <3>2. QED
      BY <1>1, <1>3, <2>1, <2>3, <3>1 DEF Progress, SearchesForward, Resolving
  <2>4. QED
    BY <2>2, <2>3
<1>7. CASE SearchesBackward
  <2>1. /\ Explored(graph, attempted, current, calls, visited)
        /\ Target = current /\ Resolving
    BY <1>7 DEF SearchesBackward, Target
  <2>2. CASE c = Target
    <3>1. Backward
      BY <1>1, <2>1, <2>2, SearchFinds DEF Backward
    <3>2. QED
      BY <1>1, <1>2, <1>7, <2>2, <3>1, BackwardAnswers DEF Progress
  <2>3. CASE c # Target
    <3>1. Explored(graph, attempted, current, calls', visited') /\ calls' # <<>>
      BY <1>5, <2>1, <2>3
    <3>2. UNCHANGED answers
      BY <1>3, <2>3
    <3>3. QED
      BY <1>1, <1>7, <3>1, <3>2 DEF Progress, SearchesBackward, Resolving, Forward
  <2>4. QED
    BY <2>2, <2>3
<1>8. QED
  BY <1>1, <1>6, <1>7 DEF Progress, IsIdle, HasAnswers

LEMMA ReturnProgress ==
  ASSUME TypeOK, Progress, Return
  PROVE  Progress'
<1>1. /\ calls # <<>> /\ Head(calls) = {} /\ UNCHANGED <<vars, attempted>>
      /\ graph \in Machines /\ UNCHANGED <<graph, current>>
  BY DEF Return, TypeOK, vars
<1>2. Tail(calls) = <<>> => Answer(FALSE)
  BY DEF Return
<1>3. Tail(calls) # <<>> => calls' = Tail(calls) /\ UNCHANGED <<answers, visited>>
  BY DEF Return
<1>4. CASE SearchesForward
  <2>1. Explored(graph, current, attempted, calls, visited)
    BY <1>4 DEF SearchesForward
  <2>2. CASE Tail(calls) = <<>>
    <3>1. FALSE = Forward
      BY <1>1, <2>1, <2>2, SearchFails DEF Forward
    <3>2. QED
      BY <1>1, <1>2, <1>4, <2>2, <3>1, ForwardAnswers DEF Progress
  <2>3. CASE Tail(calls) # <<>>
    <3>1. Explored(graph, current, attempted, Tail(calls), visited)
      BY <1>1, <2>1, SearchReturns
    <3>2. QED
      BY <1>1, <1>3, <1>4, <2>3, <3>1 DEF Progress, SearchesForward, Resolving
  <2>4. QED
    BY <2>2, <2>3
<1>5. CASE SearchesBackward
  <2>1. Explored(graph, attempted, current, calls, visited)
    BY <1>5 DEF SearchesBackward
  <2>2. CASE Tail(calls) = <<>>
    <3>1. FALSE = Backward
      BY <1>1, <2>1, <2>2, SearchFails DEF Backward
    <3>2. QED
      BY <1>1, <1>2, <1>5, <2>2, <3>1, BackwardAnswers DEF Progress
  <2>3. CASE Tail(calls) # <<>>
    <3>1. Explored(graph, attempted, current, Tail(calls), visited)
      BY <1>1, <2>1, SearchReturns
    <3>2. QED
      BY <1>1, <1>3, <1>5, <2>3, <3>1 DEF Progress, SearchesBackward, Resolving, Forward
  <2>4. QED
    BY <2>2, <2>3
<1>6. QED
  BY <1>1, <1>4, <1>5 DEF Progress, IsIdle, HasAnswers

LEMMA ReachInvariant == ReachSpec => [](TypeOK /\ Progress)
<1>1. ReachInit => TypeOK /\ Progress
  BY DEF ReachInit, Init, TypeOK, Progress, IsIdle
<1>2. TypeOK /\ Progress /\ [ReachNext]_allVars => TypeOK' /\ Progress'
  <2> SUFFICES ASSUME TypeOK, Progress, [ReachNext]_allVars PROVE TypeOK' /\ Progress'
    OBVIOUS
  <2>1. TypeOK'
    BY StepsRefine, TypeIsStable
  <2> SUFFICES Progress'
    BY <2>1
  <2>2. attempted = None => IsIdle
    BY DEF TypeOK, Progress, IsIdle, SearchesForward, SearchesBackward, HasAnswers, Resolving
  <2>3. ASSUME NEW s, ReportAtOnce(s) PROVE Progress'
    BY <2>2, <2>3 DEF ReportAtOnce, searchVars, Progress, IsIdle
  <2>4. ASSUME NEW s, BeginReport(s) PROVE Progress'
    <3>1. /\ IsIdle /\ current \in DOMAIN graph /\ s \in DOMAIN graph
          /\ attempted' = s /\ calls' = <<{current}>>
          /\ UNCHANGED <<graph, current, answers, visited>>
      BY <2>2, <2>4 DEF BeginReport, Immediate, Known, vars
    <3>2. Explored(graph', current', attempted', calls', visited')
      BY <3>1, SearchBegins DEF TypeOK, IsIdle
    <3>3. QED
      BY <3>1, <3>2 DEF Progress, SearchesForward, Resolving, IsIdle
  <2>5. ASSUME NEW s, Command(s) PROVE Progress'
    BY <2>2, <2>5 DEF Command, searchVars, Progress, IsIdle
  <2>6. ASSUME NEW s, Call(s) PROVE Progress'
    BY <2>6, CallProgress
  <2>7. CASE Return
    BY <2>7, ReturnProgress
  <2>8. CASE Decide
    <3>1. HasAnswers
      BY <2>8 DEF Decide, Progress, IsIdle, SearchesForward, SearchesBackward
    <3>2. QED
      BY <2>8, <3>1 DEF Decide, HasAnswers, Progress, IsIdle
  <2>9. CASE UNCHANGED allVars
    BY <2>9 DEF allVars, vars, searchVars, Progress, IsIdle, SearchesForward,
                SearchesBackward, HasAnswers, Resolving, Forward, Backward
  <2>10. QED
    BY <2>3, <2>4, <2>5, <2>6, <2>7, <2>8, <2>9 DEF ReachNext
<1>3. QED
  BY <1>1, <1>2, PTL DEF ReachSpec

\* The searches of canReachFinanceState answer reachability, in whatever order a call
\* tries the successors and whatever cycles the graph has.
THEOREM SearchesAnswer == ReachSpec => []SearchIsReachability
<1>1. Progress => SearchIsReachability
  BY DEF Progress, IsIdle, SearchesForward, SearchesBackward, HasAnswers,
         SearchIsReachability, Forward, Backward
<1>2. QED
  BY <1>1, ReachInvariant, PTL

\* The recursion is never deeper than the graph has states.
THEOREM SearchesAreShallow == ReachSpec => []RecursionIsBounded
<1>1. TypeOK /\ Progress => RecursionIsBounded
  <2> SUFFICES ASSUME TypeOK, Progress PROVE RecursionIsBounded
    OBVIOUS
  <2>1. CASE calls = <<>>
    <3>1. Len(calls) = 0 /\ Cardinality(DOMAIN graph) \in Nat
      BY <2>1, FS_CardinalityType DEF TypeOK
    <3>2. QED
      BY <3>1 DEF RecursionIsBounded
  <2>2. CASE SearchesForward
    BY <2>2, SearchIsShallow DEF SearchesForward, Resolving, TypeOK, RecursionIsBounded
  <2>3. CASE SearchesBackward
    BY <2>3, SearchIsShallow DEF SearchesBackward, Resolving, TypeOK, RecursionIsBounded
  <2>4. QED
    BY <2>1, <2>2, <2>3 DEF Progress, IsIdle, HasAnswers
<1>2. QED
  BY <1>1, ReachInvariant, PTL

\* Refinement: resolveMonotonicFinanceTransition run step by step does what FinanceLifecycle
\* says in one step, with reachability in place of the searches.
THEOREM StepsImplementReports == ReachSpec => Spec
<1>1. ReachInit => Init
  BY DEF ReachInit
<1>2. QED
  BY <1>1, ReachInvariant, StepsRefine, PTL DEF ReachSpec, Spec

\* What is proved of reports in one step holds of the searches too.
THEOREM SearchesLoseNothing == ReachSpec => []NothingAheadIsLost /\ OnlyMovesForward
BY StepsImplementReports, ReportsAreNotLost, LifecycleIsMonotone

-----------------------------------------------------------------------------

\* The measure of a search is a number.
LEMMA UntriedIsFinite ==
  ASSUME NEW g \in Machines, NEW q \in Seq(SUBSET DOMAIN g)
  PROVE  IsFiniteSet(Untried(g, q)) /\ Cardinality(Untried(g, q)) \in Nat
<1>1. Len(q) \in Nat
  OBVIOUS
<1>2. IsFiniteSet(1 .. Len(q))
  BY <1>1, FS_Interval
<1>3. IsFiniteSet((1 .. Len(q)) \X DOMAIN g)
  BY <1>2, FS_Product
<1>4. Untried(g, q) \in SUBSET ((1 .. Len(q)) \X DOMAIN g)
  BY DEF Untried
<1>5. QED
  BY <1>3, <1>4, FS_Subset, FS_CardinalityType

\* A candidate that is tried leaves its place.
LEMMA UntriedSkips ==
  ASSUME NEW g \in Machines, NEW q \in Seq(SUBSET DOMAIN g), q # <<>>, NEW c \in Head(q),
         NEW p, p = <<Head(q) \ {c}>> \o Tail(q)
  PROVE  /\ Len(p) = Len(q)
         /\ Cardinality(Untried(g, p)) < Cardinality(Untried(g, q))
<1>1. Len(q) \in Nat /\ Len(q) > 0 /\ Head(q) = q[1] /\ c \in DOMAIN g
  OBVIOUS
<1>2. /\ p \in Seq(SUBSET DOMAIN g) /\ Len(p) = Len(q)
      /\ p[1] = q[1] \ {c}
      /\ \A i \in 2 .. Len(q) : p[i] = q[i]
  BY <1>1
<1>3. <<Len(q), c>> \in Untried(g, q) /\ <<Len(q), c>> \notin Untried(g, p)
  BY <1>1, <1>2 DEF Untried
<1>4. Untried(g, p) \subseteq Untried(g, q)
  <2> SUFFICES ASSUME NEW u \in Untried(g, p) PROVE u \in Untried(g, q)
    OBVIOUS
  <2>1. u \in (1 .. Len(q)) \X DOMAIN g /\ u[2] \in p[Len(q) + 1 - u[1]]
    BY <1>2 DEF Untried
  <2>2. u[1] \in 1 .. Len(q) /\ Len(q) + 1 - u[1] \in 1 .. Len(q)
    BY <1>1, <2>1
  <2>3. p[Len(q) + 1 - u[1]] \subseteq q[Len(q) + 1 - u[1]]
    BY <1>1, <1>2, <2>2
  <2>4. QED
    BY <2>1, <2>3 DEF Untried
<1>5. /\ IsFiniteSet(Untried(g, q)) /\ Cardinality(Untried(g, q)) \in Nat
      /\ Cardinality(Untried(g, p)) \in Nat
  BY <1>2, UntriedIsFinite
<1>6. Untried(g, p) # Untried(g, q)
  BY <1>3
<1> DEFINE A == Untried(g, q)
           B == Untried(g, p)
<1>7. Cardinality(B) <= Cardinality(A) /\ (Cardinality(A) = Cardinality(B) => A = B)
  <2>1. B \in SUBSET A
    BY <1>4
  <2> HIDE DEF A, B
  <2>2. IsFiniteSet(A)
    BY <1>5 DEF A
  <2>3. QED
    BY <2>1, <2>2, FS_Subset
<1>8. QED
  BY <1>2, <1>5, <1>6, <1>7

\* A call that returns has none.
LEMMA UntriedReturns ==
  ASSUME NEW g, NEW q \in Seq(SUBSET DOMAIN g), q # <<>>, Head(q) = {}
  PROVE  Len(Tail(q)) = Len(q) - 1 /\ Untried(g, Tail(q)) = Untried(g, q)
<1> DEFINE t == Tail(q)
<1>1. Len(q) \in Nat /\ Len(q) > 0 /\ q[1] = {}
  OBVIOUS
<1>2. Len(t) = Len(q) - 1 /\ \A i \in 1 .. Len(t) : t[i] = q[i + 1]
  OBVIOUS
<1> HIDE DEF t
<1>3. ASSUME NEW u \in (1 .. Len(q)) \X DOMAIN g
      PROVE  u \in Untried(g, t) <=> u \in Untried(g, q)
  <2>1. u[1] \in 1 .. Len(q)
    OBVIOUS
  <2>2. CASE u[1] = Len(q)
    <3>1. q[Len(q) + 1 - u[1]] = {} /\ u[1] \notin 1 .. Len(t)
      BY <1>1, <1>2, <2>2
    <3>2. QED
      BY <3>1 DEF Untried
  <2>3. CASE u[1] # Len(q)
    <3>1. u[1] \in 1 .. Len(t) /\ Len(t) + 1 - u[1] \in 1 .. Len(t)
      BY <1>1, <1>2, <2>1, <2>3
    <3>2. t[Len(t) + 1 - u[1]] = q[Len(q) + 1 - u[1]]
      BY <1>1, <1>2, <2>1, <3>1
    <3>3. u \in (1 .. Len(t)) \X DOMAIN g
      BY <3>1
    <3>4. QED
      BY <3>2, <3>3 DEF Untried
  <2>4. QED
    BY <2>2, <2>3
<1>4. Untried(g, t) \subseteq (1 .. Len(q)) \X DOMAIN g
  BY <1>1, <1>2 DEF Untried
<1>5. Untried(g, q) \subseteq (1 .. Len(q)) \X DOMAIN g
  BY DEF Untried
<1>6. QED
  BY <1>2, <1>3, <1>4, <1>5 DEF t

\* What holds while a search is under way.
LEMMA SearchUnderWay ==
  ASSUME TypeOK, Progress, calls # <<>>
  PROVE  /\ graph \in Machines /\ attempted # None
         /\ calls \in Seq(SUBSET DOMAIN graph) /\ visited \in SUBSET DOMAIN graph
         /\ answers \in Seq(BOOLEAN) /\ Len(answers) \in {0, 1}
<1>1. graph \in Machines /\ DOMAIN graph \subseteq Names
  BY DEF TypeOK, Names
<1>2. CASE SearchesForward
  <2>1. answers \in Seq(BOOLEAN) /\ Len(answers) = 0
    <3>1. answers = <<>>
      BY <1>2 DEF SearchesForward
    <3>2. QED
      BY <3>1
  <2>2. attempted \in DOMAIN graph
    BY <1>2 DEF SearchesForward, Resolving
  <2>3. calls \in Seq(SUBSET DOMAIN graph) /\ visited \in SUBSET DOMAIN graph
    BY <1>2 DEF SearchesForward, Explored
  <2>4. QED
    BY <1>1, <2>1, <2>2, <2>3, NoneIsNoState
<1>3. CASE SearchesBackward
  <2>1. answers \in Seq(BOOLEAN) /\ Len(answers) = 1
    BY <1>3 DEF SearchesBackward
  <2>2. attempted \in DOMAIN graph
    BY <1>3 DEF SearchesBackward, Resolving
  <2>3. calls \in Seq(SUBSET DOMAIN graph) /\ visited \in SUBSET DOMAIN graph
    BY <1>3 DEF SearchesBackward, Explored
  <2>4. QED
    BY <1>1, <2>1, <2>2, <2>3, NoneIsNoState
<1>4. QED
  BY <1>2, <1>3 DEF Progress, IsIdle, HasAnswers

LEMMA OneMore == \A n \in {0, 1} : n < n + 1 /\ n + 1 <= 2
OBVIOUS

\* An answer ends a search.
LEMMA AnswerIsNext ==
  ASSUME answers \in Seq(BOOLEAN), Len(answers) \in {0, 1}, NEW b \in BOOLEAN, Answer(b)
  PROVE  Len(answers) < Len(answers') /\ Len(answers') <= 2
<1>1. answers' = Append(answers, b)
  BY DEF Answer
<1>2. Len(Append(answers, b)) = Len(answers) + 1
  OBVIOUS
<1>3. Len(answers') = Len(answers) + 1
  BY <1>1, <1>2
<1>4. QED
  BY <1>3, OneMore, Zenon

\* Every step of a search brings its end closer.
LEMMA CallComesCloser ==
  ASSUME TypeOK, Progress, NEW c, Call(c)
  PROVE  \/ Len(answers) < Len(answers') /\ Len(answers') <= 2
         \/ answers' = answers /\ Unvisited' < Unvisited
         \/ answers' = answers /\ Unvisited' = Unvisited /\ Work' < Work
<1>1. calls # <<>> /\ c \in Head(calls) /\ graph' = graph
  BY DEF Call, vars
<1>2. /\ graph \in Machines
      /\ calls \in Seq(SUBSET DOMAIN graph) /\ visited \in SUBSET DOMAIN graph
      /\ answers \in Seq(BOOLEAN) /\ Len(answers) \in {0, 1}
  BY <1>1, SearchUnderWay
<1>3. CASE c = Target
  BY <1>2, <1>3, AnswerIsNext DEF Call
<1>4. CASE c # Target /\ c \in visited
  <2> DEFINE q == calls'
  <2>1. /\ q = <<Head(calls) \ {c}>> \o Tail(calls)
        /\ visited' = visited /\ answers' = answers
    BY <1>4 DEF Call
  <2>2. q \in Seq(SUBSET DOMAIN graph)
    BY <1>1, <1>2, <2>1
  <2> DEFINE before == Cardinality(Untried(graph, calls))
             after == Cardinality(Untried(graph, q))
  <2>3. Len(q) = Len(calls) /\ after < before
    <3> HIDE DEF q
    <3>1. QED
      BY <1>1, <1>2, <2>1, UntriedSkips
  <2>4. Len(calls) \in Nat /\ after \in Nat /\ before \in Nat
    <3>1. Len(calls) \in Nat
      BY <1>2
    <3> HIDE DEF q
    <3>2. QED
      BY <1>2, <2>2, <3>1, UntriedIsFinite
  <2>5. Work = before + Len(calls) /\ Work' = after + Len(q)
    BY <1>1 DEF Work
  <2>6. Work' < Work
    <3> HIDE DEF before, after, q
    <3>1. QED
      BY <2>3, <2>4, <2>5
  <2>7. Unvisited' = Unvisited
    BY <1>1, <2>1 DEF Unvisited
  <2>8. QED
    BY <2>1, <2>6, <2>7
<1>5. CASE c # Target /\ c \notin visited
  <2>1. visited' = visited \cup {c} /\ answers' = answers
    BY <1>5 DEF Call
  <2> DEFINE rest == DOMAIN graph \ visited
             left == rest \ {c}
  <2>2. c \in rest
    BY <1>1, <1>2, <1>5
  <2>3. IsFiniteSet(rest)
    BY <1>2, FS_Difference
  <2>4. DOMAIN graph' \ visited' = left
    BY <1>1, <2>1
  <2>5. Unvisited = Cardinality(rest) /\ Unvisited' = Cardinality(left)
    BY <2>4 DEF Unvisited
  <2>6. Cardinality(left) = Cardinality(rest) - 1 /\ Cardinality(rest) \in Nat
    <3> HIDE DEF rest
    <3>1. QED
      BY <2>2, <2>3, FS_RemoveElement, FS_CardinalityType
  <2>7. Unvisited' < Unvisited
    <3> HIDE DEF left, rest
    <3>1. QED
      BY <2>5, <2>6
  <2>8. QED
    BY <2>1, <2>7
<1>6. QED
  BY <1>3, <1>4, <1>5

LEMMA ReturnComesCloser ==
  ASSUME TypeOK, Progress, Return
  PROVE  \/ Len(answers) < Len(answers') /\ Len(answers') <= 2
         \/ answers' = answers /\ Unvisited' < Unvisited
         \/ answers' = answers /\ Unvisited' = Unvisited /\ Work' < Work
<1>1. calls # <<>> /\ Head(calls) = {} /\ graph' = graph
  BY DEF Return, vars
<1>2. /\ graph \in Machines /\ calls \in Seq(SUBSET DOMAIN graph)
      /\ answers \in Seq(BOOLEAN) /\ Len(answers) \in {0, 1}
  BY <1>1, SearchUnderWay
<1>3. CASE Tail(calls) = <<>>
  BY <1>2, <1>3, AnswerIsNext DEF Return
<1>4. CASE Tail(calls) # <<>>
  <2> DEFINE untried == Cardinality(Untried(graph, calls))
  <2>1. calls' = Tail(calls) /\ visited' = visited /\ answers' = answers
    BY <1>4 DEF Return
  <2>2. Len(calls') = Len(calls) - 1 /\ Untried(graph, calls') = Untried(graph, calls)
    BY <1>1, <1>2, <2>1, UntriedReturns
  <2>3. Len(calls) \in Nat /\ untried \in Nat
    <3>1. Len(calls) \in Nat
      BY <1>2
    <3>2. QED
      BY <1>2, <3>1, UntriedIsFinite
  <2>4. Work = untried + Len(calls) /\ Work' = untried + Len(calls')
    BY <1>1, <2>2 DEF Work
  <2>5. Work' < Work
    <3> HIDE DEF untried
    <3>1. QED
      BY <2>2, <2>3, <2>4
  <2>6. Unvisited' = Unvisited
    BY <1>1, <2>1 DEF Unvisited
  <2>7. QED
    BY <2>1, <2>5, <2>6
<1>5. QED
  BY <1>3, <1>4

\* Termination, without fairness: a search under way makes no step but its own, and each
\* decreases a measure that cannot decrease for ever.
THEOREM SearchesEnd == ReachSpec => SearchesComeToAnEnd
<1> DEFINE Closer == \/ Len(answers) < Len(answers') /\ Len(answers') <= 2
                     \/ answers' = answers /\ Unvisited' < Unvisited
                     \/ answers' = answers /\ Unvisited' = Unvisited /\ Work' < Work
<1>1. TypeOK /\ Progress /\ [ReachNext]_allVars
        => [calls # <<>> => Closer]_allVars
  <2> SUFFICES ASSUME TypeOK, Progress, ReachNext, calls # <<>> PROVE Closer
    OBVIOUS
  <2> HIDE DEF Closer
  <2>1. attempted # None
    BY SearchUnderWay
  <2>2. (\E s \in Names : Call(s)) \/ Return
    BY <2>1 DEF ReachNext, ReportAtOnce, BeginReport, Command, Decide
  <2>3. QED
    BY <2>2, CallComesCloser, ReturnComesCloser DEF Closer
<1>2. QED
  BY <1>1, ReachInvariant, PTL DEF ReachSpec, SearchesComeToAnEnd

=============================================================================
