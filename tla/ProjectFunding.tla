--------------------------- MODULE ProjectFunding ---------------------------
(***************************************************************************)
(* One project, its funding round, the commitments of one partner and the  *)
(* tracking card of the pair: project-funding.service.ts and the commands  *)
(* of the owner in project-center.  Every command is one section of        *)
(* AppStore.  Rows that are only ever appended (notifications, history,    *)
(* investors, actions, flags) are left out; a collaboration card is        *)
(* appended, kept and removed exactly as the tracking card is.             *)
(***************************************************************************)
EXTENDS StoreTables, FundingSchedule

CONSTANTS Funding,      \* [rows of commitments -> what the partner offers]
          StartFunding  \* what the project had raised before

ProjectTables == {"projects", "project_funding_rounds", "project_tracking",
                  "project_funding_commitments"}
Project == <<"projects", "p">>
Round   == <<"project_funding_rounds", "p">>
Commitments == RowsOf("project_funding_commitments")
Cards       == RowsOf("project_tracking")

ASSUME FundingIsGiven == Funding \in [Commitments -> Fundings] /\ StartFunding \in Nat
ASSUME CommitmentsAreFinite == IsFiniteSet(Commitments)

\* The rows that hold a sum of activated commitments do so in a field "total".
ProjectValues == [status : {"incubation", "archive"}, total : Nat]
RoundValues   == [total : Nat]
CardValues    == [total : Nat, committed : Nat]
CommitmentValues ==
    [status : {"pending_c2p_validation", "approved_contract_ready", "rejected", "active",
               "completed"},
     periods : SUBSET (0..59), repaid : Nat]

\* What the row of a commitment holds: instalments of its schedule and, of a loan that is
\* completed, what they come to together.
OfSchedule(r, v) ==
    LET f == Funding[r]
        schedule == 0..(f.months - 1)
    IN /\ v.periods \subseteq schedule
       /\ v.status = "completed" /\ f.kind # "donation" => v.repaid = Paid(f, schedule)

\* requireCommitment with the status a command asks for.
Is(r, status) == memory[r] # Absent /\ memory[r].status = status

\* requireOpenProject.
ProjectIsOpen == memory[Project] # Absent /\ memory[Project].status # "archive"

NewCard(c, committed) ==
    IF In(memory, "project_tracking") = {}
    THEN [r \in {New("project_tracking", c)} |-> [total |-> 0, committed |-> committed]]
    ELSE NoRows

Write(c, f) == Collect(c, Put(memory, f), DOMAIN f)
Drop(c, gone) == Collect(c, Remove(memory, gone), gone)
Refused(c) == Pass(c, "answered")

-----------------------------------------------------------------------------

\* The partner offers; the card of the pair is appended unless the store has one.
CreateCommitment(c) ==
    /\ call[c].op = "createCommitment" /\ Ready(c)
    /\ LET r == New("project_funding_commitments", c)
           offer == [status |-> "pending_c2p_validation", periods |-> {}, repaid |-> 0]
           card == NewCard(c, Funding[r].amount)
       IN IF ProjectIsOpen
          THEN Write(c, [x \in {r} \cup DOMAIN card |-> IF x = r THEN offer ELSE card[x]])
          ELSE Refused(c)

\* An administrator approves or rejects.
ReviewCommitment(c) ==
    /\ call[c].op = "reviewCommitment" /\ Ready(c)
    /\ IF Is(call[c].on, "pending_c2p_validation")
       THEN Write(c, [r \in {call[c].on} |-> [memory[r] EXCEPT !.status = call[c].status]])
       ELSE Refused(c)

\* The rows an activation adds the amount to: the round if the store has it, the first
\* card if the store has one.
Totals == {Project} \cup In(memory, "project_funding_rounds")
          \cup (IF In(memory, "project_tracking") = {} THEN {}
                ELSE {Find(memory, "project_tracking")})

Activated(r) == [memory[r] EXCEPT !.status = "active", !.repaid = 0]
Credited(x, amount) ==
    IF x \in Cards THEN [memory[x] EXCEPT !.total = @ + amount, !.committed = 0]
                   ELSE [memory[x] EXCEPT !.total = @ + amount]

\* Mutant: the contract may be active already.
ActivateCommitment_Again(c) ==
    /\ call[c].op = "activateCommitment" /\ Ready(c)
    /\ LET r == call[c].on IN
       IF Is(r, "approved_contract_ready") \/ Is(r, "active")
       THEN IF ProjectIsOpen
            THEN Write(c, [x \in {r} \cup Totals |->
                     IF x = r THEN Activated(r) ELSE Credited(x, Funding[r].amount)])
            ELSE Throw(c, Put(memory, [x \in {r} |-> Activated(r)]), {r})
       ELSE Refused(c)

\* Mutant: the activated commitment is not among the rows to persist.
ActivateCommitment_NotCollected(c) ==
    /\ call[c].op = "activateCommitment" /\ Ready(c)
    /\ LET r == call[c].on IN
       IF Is(r, "approved_contract_ready")
       THEN IF ProjectIsOpen
            THEN Collect(c, Put(memory, [x \in {r} \cup Totals |->
                     IF x = r THEN Activated(r) ELSE Credited(x, Funding[r].amount)]), Totals)
            ELSE Throw(c, Put(memory, [x \in {r} |-> Activated(r)]), {r})
       ELSE Refused(c)

\* The transfer is confirmed.  The commitment is active in the store before
\* requireOpenProject can throw.
ActivateCommitment(c) ==
    /\ call[c].op = "activateCommitment" /\ Ready(c)
    /\ LET r == call[c].on IN
       IF Is(r, "approved_contract_ready")
       THEN IF ProjectIsOpen
            THEN Write(c, [x \in {r} \cup Totals |->
                     IF x = r THEN Activated(r) ELSE Credited(x, Funding[r].amount)])
            ELSE Throw(c, Put(memory, [x \in {r} |-> Activated(r)]), {r})
       ELSE Refused(c)

\* An instalment of the schedule is confirmed, once; the last one completes the
\* commitment.
MarkInstallmentPaid(c) ==
    /\ call[c].op = "markInstallmentPaid" /\ Ready(c)
    /\ LET f == Funding[call[c].on]
           schedule == 0..(f.months - 1)
           periods == memory[call[c].on].periods \cup {call[c].period}
           status == IF periods = schedule THEN "completed" ELSE "active"
       IN IF /\ Is(call[c].on, "active")
             /\ call[c].period \in schedule \ memory[call[c].on].periods
          THEN Write(c, [r \in {call[c].on} |-> [status |-> status, periods |-> periods,
                                                 repaid |-> Paid(f, periods)]])
          ELSE Refused(c)

\* The owner changes title, description and status; the whole row is persisted.
UpdateOwnerProject(c) ==
    /\ call[c].op = "updateOwnerProject" /\ Ready(c)
    /\ IF memory[Project] # Absent
       THEN Write(c, [r \in {Project} |-> [memory[r] EXCEPT !.status = call[c].status]])
       ELSE Refused(c)

\* applyDataDeleteCascade: round and cards go with the project, commitments stay.
DeleteOwnerProject(c) ==
    /\ call[c].op = "deleteOwnerProject" /\ Ready(c)
    /\ IF memory[Project] # Absent
       THEN Drop(c, {Project} \cup In(memory, "project_funding_rounds")
                              \cup In(memory, "project_tracking"))
       ELSE Refused(c)

\* A partner follows the project; an archived one too.
ExpressPartnerInterest(c) ==
    /\ call[c].op = "expressPartnerInterest" /\ Ready(c)
    /\ IF memory[Project] # Absent THEN Write(c, NewCard(c, 0)) ELSE Refused(c)

ProjectSection(c) ==
    \/ CreateCommitment(c) \/ ReviewCommitment(c) \/ ActivateCommitment(c)
    \/ MarkInstallmentPaid(c) \/ UpdateOwnerProject(c) \/ DeleteOwnerProject(c)
    \/ ExpressPartnerInterest(c)

-----------------------------------------------------------------------------

\* Commitments whose amounts the project has received, according to s.
Counted(s) == {r \in Commitments : s[r] # Absent /\ s[r].status \in {"active", "completed"}}
CountedAmount(s) == SumFunctionOnSet([r \in Commitments |-> Funding[r].amount], Counted(s))

\* The rows that hold a sum of them agree with it.
FundingAgrees(s) ==
    /\ s[Project].total = StartFunding + CountedAmount(s)
    /\ s[Round] # Absent => s[Round].total = CountedAmount(s)
    /\ SumFunction([r \in In(s, "project_tracking") |-> s[r].total]) = CountedAmount(s)

ProjectRows == {r \in Rows : r[1] \in ProjectTables}
\* Nothing is in flight, and no row of the project was put back, left unsaved or overtaken.
ProjectSettled == \A r \in ProjectRows : Pending(r) = {} /\ r \notin Dirty

\* What a project has raised is what its active and completed commitments are worth,
\* in the project, in its round and on the cards: rows of three tables that every
\* activation rewrites from the values it finds in the store, while other commands
\* persist whole rows of their own and a reload reads these tables one by one.
FundingIsCounted == ProjectSettled /\ app[Project] # Absent => FundingAgrees(app)

\* A loan that is completed has repaid what was expected of it: the instalments are
\* rounded one by one, half a franc at most for the principal, the profit and the
\* interest of each month, and the last principal makes up for the others.
LoansRepayWhatIsExpected ==
    \A r \in Commitments :
        LET f == Funding[r] IN
        app[r] # Absent /\ app[r].status = "completed" /\ f.kind # "donation" =>
            /\ app[r].repaid <= TotalExpected(f) + f.months
            /\ TotalExpected(f) <= app[r].repaid + f.months
=============================================================================
