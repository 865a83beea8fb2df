--------------------------- MODULE StoreCommands ---------------------------
(***************************************************************************)
(* The project, learning and payment commands on one store: their          *)
(* sections and the transactions, reloads and restarts of AppStore.        *)
(* StoreSpec of AppStore is the abstract specification: whatever its       *)
(* sections do, a command collects every row it changes.                   *)
(***************************************************************************)
EXTENDS ProjectFunding, CoursePurchase, PaymentCommands

CONSTANT Scenarios      \* the calls that clients make, and the rows they start from

\* What a row holds, by its table.
RowValues(r) ==
    CASE r[1] = "projects"               -> ProjectValues
      [] r[1] = "project_funding_rounds" -> RoundValues
      [] r[1] = "project_tracking"       -> CardValues
      [] r[1] = "project_funding_commitments" ->
             {v \in CommitmentValues : OfSchedule(r, v)}
      [] r[1] = "course_enrollments"     -> EnrollmentValues
      [] r[1] = "exams"                  -> ExamValues
      [] r[1] = "submissions"            -> SubmissionValues
      [] r[1] = "exam_sessions"          -> SessionValues
      [] r[1] = "certificates"           -> CertificateValues
      [] r[1] = "payout_requests"        -> PayoutValues
      [] r[1] = "payment_transactions"   -> TransactionValues

Holds(s, rows) == \A r \in rows : s[r] \in RowValues(r) \cup {Absent}

\* The rows that a call k of c appends are among Rows, and its inputs are those that the
\* handler accepts.
CallIsWellFormed(c, k) ==
    /\ {New("course_enrollments", c), New("certificates", c)} \subseteq Rows
    /\ k.op \in {"createCommitment", "expressPartnerInterest"} =>
           New("project_tracking", c) \in Rows
    /\ k.op = "createCommitment" => New("project_funding_commitments", c) \in Rows
    /\ k.op \in {"reviewCommitment", "activateCommitment", "markInstallmentPaid"} =>
           k.on \in Commitments
    /\ k.op = "reviewCommitment" => k.status \in {"approved_contract_ready", "rejected"}
    /\ k.op = "updateOwnerProject" => k.status \in {"incubation", "archive"}
    /\ k.op = "updateCourseProgress" => k.progress \in 0..100
    /\ k.op = "submitExam" => New("submissions", c) \in Rows
    /\ k.op \in {"submitExam", "gradeSubmission"} => k.grade \in Nat
    /\ k.op = "startQuiz" => New("exam_sessions", c) \in Rows
    /\ k.op = "updateExam" => k.mark \in Nat
    /\ k.op \in {"createPayoutRequest", "adminUpdatePayoutStatus"} => k.on \in PayoutRows
    /\ k.op = "adminRefundTransaction" => {k.on, k.refund} \subseteq TransactionRows

\* Who has offered something has a card, and there is one.
HasItsCard(s) ==
    /\ \A r1, r2 \in In(s, "project_tracking") : r1 = r2
    /\ In(s, "project_tracking") = {} => In(s, "project_funding_commitments") = {}

\* What clients find at first: one row of each kind, one session for an attempt, no
\* session or commitment that is still to be appended, no payout that was paid, a project
\* that has raised what its commitments are worth, no work or certificate without an
\* enrollment, and no certificate issued before it is earned.
StartsWell(s) ==
    /\ \A t \in {"submissions", "certificates", "course_enrollments"} :
           \A r1, r2 \in In(s.rows, t) : r1 = r2
    /\ \A r1, r2 \in In(s.rows, "exam_sessions") :
           s.rows[r1].attempt = s.rows[r2].attempt => r1 = r2
    /\ \A c \in Calls : New("exam_sessions", c) \notin In(s.rows, "exam_sessions")
    /\ \A r \in In(s.rows, "payout_requests") : s.rows[r].status # "paid"
    /\ \A c \in Calls : s.calls[c].op = "createCommitment" =>
           s.rows[New("project_funding_commitments", c)] = Absent
    /\ s.rows[Project] # Absent => FundingAgrees(s.rows) /\ HasItsCard(s.rows)
    /\ Enrolled(s.rows) \/ In(s.rows, "certificates") \cup In(s.rows, "submissions") = {}
    /\ \A k \in In(s.rows, "certificates") :
           s.rows[k].status = "issued" => {"lessons", "exam"} \subseteq Shown(s.rows)

\* The row of a refund is that of its transaction and request.
RefundRowsDiffer(calls) ==
    \A c, d \in Calls :
        /\ {calls[c].op, calls[d].op} = {"adminRefundTransaction"}
        /\ calls[c].refund = calls[d].refund
        => calls[c].on = calls[d].on

ASSUME OneProjectAndExam == {Project, Round, Exam} \subseteq Rows

ASSUME ScenariosAreWellFormed ==
    \A s \in Scenarios :
        /\ DOMAIN s.calls = Calls
        /\ \A c \in Calls : CallIsWellFormed(c, s.calls[c])
        /\ RefundRowsDiffer(s.calls)
        /\ s.rows \in Tables /\ Holds(s.rows, Rows)
        /\ StartsWell(s)

vars == <<storeVars, purchaseVars, paymentVars, earned, call>>

CommandsInit ==
    /\ \E s \in Scenarios :
        /\ app = s.rows
        /\ call = s.calls
    /\ StoreInit
    /\ found = [c \in Calls |-> NoRow]
    /\ charged = FALSE
    /\ paying = [c \in Calls |-> FALSE]
    /\ paidOut = {} /\ credited = {}
    /\ beside = [c \in Calls |-> {}]
    /\ earned = Shown(app)

CommandsNext ==
    /\ \/ \E c \in Calls :
            \/ ProjectSection(c) /\ UNCHANGED <<purchaseVars, paymentVars>>
            \/ LearningSection(c) /\ UNCHANGED <<purchaseVars, paymentVars>>
            \/ PurchaseSection(c) /\ UNCHANGED paymentVars
            \/ PaymentSection(c) /\ UNCHANGED purchaseVars
            \/ ~paying[c] /\ Finish(c) /\ UNCHANGED <<purchaseVars, paymentVars>>
       \/ (Reload \/ Restart) /\ UNCHANGED <<purchaseVars, paymentVars>>
    /\ Observe
    /\ UNCHANGED call

Spec == CommandsInit /\ [][CommandsNext]_vars

-----------------------------------------------------------------------------

\* Type invariant.
TypeOK ==
    /\ StoreTypeOK
    /\ Holds(app, Rows) /\ Holds(memory, Rows)
    /\ snapshot # NoSnapshot => Holds(snapshot, Rows)
    /\ \A c \in Calls : Holds(batch[c], DOMAIN batch[c])
    /\ found \in [Calls -> EnrollmentRows \cup {NoRow}]
    /\ charged \in BOOLEAN
    /\ paying \in [Calls -> BOOLEAN]
    /\ paidOut \in SUBSET PayoutRows /\ credited \in SUBSET Calls
    /\ beside \in [Calls -> SUBSET Calls]
    /\ earned \in SUBSET {"lessons", "exam", "decided"}

\* Every command collects for its transaction every row its section has changed, with
\* the value the store has then, before it awaits or answers; what it leaves behind
\* when it throws is the exception AppStore records.
CollectsWhatItChanges == StoreSpec
=============================================================================
