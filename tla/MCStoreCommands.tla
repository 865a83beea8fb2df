--------------------------- MODULE MCStoreCommands ---------------------------
(***************************************************************************)
(* Scenarios of three calls each, on one project with two commitments, on  *)
(* one course with one learner, on a payout request and on a transaction.  *)
(***************************************************************************)
EXTENDS StoreCommands, TLC, Sequences

\* Commitment "0" is the partner's first, "1" and "2" are those of the calls.
P(r) == <<"project_funding_commitments", r>>

Offer        == [op |-> "createCommitment"]
Accept(r)    == [op |-> "reviewCommitment", on |-> P(r), status |-> "approved_contract_ready"]
Reject(r)    == [op |-> "reviewCommitment", on |-> P(r), status |-> "rejected"]
Activate(r)  == [op |-> "activateCommitment", on |-> P(r)]
Month(r, m)  == [op |-> "markInstallmentPaid", on |-> P(r), period |-> m]
Update(st)   == [op |-> "updateOwnerProject", status |-> st]
RemoveProject == [op |-> "deleteOwnerProject"]
Follow       == [op |-> "expressPartnerInterest"]

Buy      == [op |-> "purchaseCourse"]
Wave     == [op |-> "purchaseWithExternalPayment"]
Enrol    == [op |-> "enrollLearner"]
Learn(n) == [op |-> "updateCourseProgress", progress |-> n]
Hand(g)  == [op |-> "submitExam", grade |-> g]
Grade(g) == [op |-> "gradeSubmission", grade |-> g]
Redo     == [op |-> "requestResubmission"]
Sit      == [op |-> "startQuiz"]
Ease     == [op |-> "updateExam", mark |-> 1]
Turn(st) == [op |-> "changeStatus", status |-> st]
Erase    == [op |-> "deleteExam"]
List     == [op |-> "getCertificates"]
Deliver  == [op |-> "issueCertificate"]
Revoke   == [op |-> "revokeCertificate"]

\* Transaction "0" is the payment; its refunds have the rows "1" and "2".
PayoutRow == <<"payout_requests", "0">>
T(r) == <<"payment_transactions", r>>

Ask        == [op |-> "createPayoutRequest", on |-> PayoutRow]
Mark(st)   == [op |-> "adminUpdatePayoutStatus", on |-> PayoutRow, status |-> st]
Repay(key) == [op |-> "adminRefundTransaction", on |-> T("0"), refund |-> T(key)]

\* A call that finds no row and only answers.
Nothing    == Mark("paid")

MCCalls == {"1", "2", "3"}
Ids == MCCalls \cup {"0"}
MCRows == {Project, Round, Exam, P("0"), P("1"), P("2"), PayoutRow, T("0"), T("1"), T("2")}
    \cup ({"project_tracking", "course_enrollments", "certificates"} \X Ids)
    \cup ({"submissions"} \X {"0", "1", "2"}) \cup ({"exam_sessions"} \X {"2", "3"})

\* TLC asks for values one by one and never enumerates them.
MCValues == ProjectValues \cup RoundValues \cup CardValues \cup CommitmentValues
            \cup EnrollmentValues \cup ExamValues \cup SubmissionValues \cup SessionValues
            \cup CertificateValues \cup PayoutValues \cup TransactionValues
\* To keep the instance small, the projection is read at once, after the other rows.
MCProjected == {{Project} \cup RowsOf("project_funding_rounds") \cup RowsOf("project_tracking")}

MCFunding == [r \in {P("0"), P("1"), P("2")} |->
                 IF r = P("0") THEN [kind |-> "interest_loan", amount |-> 101, months |-> 2]
                               ELSE [kind |-> "profit_share_loan", amount |-> 50, months |-> 3]]

\* The rows a scenario starts from.
Start(f) == [r \in MCRows |-> IF r \in DOMAIN f THEN f[r] ELSE Absent]

Offered(status, periods) == [status |-> status, periods |-> periods, repaid |-> 0]
Opened(status, total) ==
    Project :> [status |-> status, total |-> StartFunding + total] @@ Round :> [total |-> total]
Card(total) == <<"project_tracking", "0">> :> [total |-> total, committed |-> 0]

Fresh    == Start(Opened("incubation", 0))
Offers   == Start(Opened("incubation", 0) @@ Card(0)
                  @@ P("0") :> Offered("pending_c2p_validation", {}))
Approved == Start(Opened("incubation", 0) @@ Card(0)
                  @@ P("0") :> Offered("approved_contract_ready", {})
                  @@ P("1") :> Offered("approved_contract_ready", {}))
Archived == Start(Opened("archive", 0) @@ Card(0)
                  @@ P("0") :> Offered("approved_contract_ready", {}))
Active   == Start(Opened("incubation", 101) @@ Card(101)
                  @@ P("0") :> Offered("active", {})
                  @@ P("1") :> Offered("approved_contract_ready", {}))

Evaluation(status, quiz) == Exam :> [status |-> status, mark |-> 2, quiz |-> quiz]
Learner(progress, exam) ==
    <<"course_enrollments", "0">> :> [progress |-> progress, payment |-> "none"]
    @@ <<"certificates", "0">> :> [status |-> "in_progress",
           seen |-> [lessons |-> progress = 100, exam |-> exam]]
Work(status, grade) ==
    <<"submissions", "0">> :> [status |-> status, grade |-> grade, attempt |-> 1]

Course      == Start(Evaluation("ongoing", FALSE))
Studying    == Start(Evaluation("ongoing", FALSE) @@ Learner(0, "not_submitted"))
Quizzing    == Start(Evaluation("ongoing", TRUE) @@ Learner(100, "not_submitted"))
Learnt      == Start(Evaluation("ongoing", FALSE) @@ Learner(100, "not_submitted"))
\* Seeded enrollments have no certificate.
Seeded      == Start(Evaluation("ongoing", FALSE) @@ Work("graded", 1)
                     @@ <<"course_enrollments", "0">> :> [progress |-> 100, payment |-> "none"])
Handed1     == Start(Evaluation("ongoing", FALSE) @@ Learner(100, "pending_review")
                     @@ Work("pending", 0))

Requested(status) == Start(PayoutRow :> [status |-> status])
Settled           == Start(T("0") :> [type |-> "payment"])

Three(a, b, c) == [i \in MCCalls |-> CASE i = "1" -> a [] i = "2" -> b [] i = "3" -> c]
From(rows, calls) == [calls |-> calls, rows |-> rows]

MCScenarios ==
    {From(Offers, Three(Offer, Accept("0"), Reject("0"))),
     From(Approved, Three(Activate("0"), Activate("1"), Nothing)),
     From(Approved, Three(Activate("0"), RemoveProject, Follow)),
     From(Archived, Three(Activate("0"), Update("incubation"), Activate("0"))),
     From(Active, Three(Month("0", 0), Month("0", 1), Update("archive"))),
     From(Course, Three(Buy, Buy, Wave)),
     From(Course, Three(Buy, Enrol, Learn(100))),
     From(Learnt, Three(Hand(1), Grade(2), Ease)),
     From(Quizzing, Three(Hand(1), Hand(2), Redo)),
     From(Quizzing, Three(Hand(1), Sit, Sit)),
     From(Seeded, Three(Ease, List, Nothing)),
     From(Handed1, Three(Learn(0), Deliver, Revoke)),
     From(Studying, Three(Erase, Learn(100), Turn("upcoming"))),
     From(Fresh, Three(Ask, Ask, Mark("approved"))),
     From(Requested("pending"), Three(Mark("approved"), Mark("paid"), Mark("rejected"))),
     From(Requested("approved"), Three(Mark("paid"), Mark("paid"), Mark("rejected"))),
     From(Settled, Three(Repay("1"), Repay("2"), Nothing))}
=============================================================================
