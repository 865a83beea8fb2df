------------------------ MODULE CourseCertification ------------------------
(***************************************************************************)
(* One certifying course with one evaluation, one learner: progress,       *)
(* submissions, corrections, and the certificate that every change         *)
(* recomputes (syncCourseCertificate, data-certification.ts).  The         *)
(* commands are those of learning.service.ts, learning-access.service.ts,  *)
(* exam-lifecycle.service.ts, learning-assessments-command.service.ts and  *)
(* formateur-learners.service.ts; each is one section of AppStore.  The    *)
(* quiz of the course player, attendance and the lessons that make up the  *)
(* progress are left out.                                                  *)
(***************************************************************************)
EXTENDS StoreTables

CONSTANT MaxAttempts    \* max_attempts of the evaluation

ASSUME AttemptsAreGiven == MaxAttempts \in Nat \ {0}

VARIABLE earned         \* history: SUBSET {"lessons", "exam", "decided"}

LearningTables == {"course_enrollments", "exams", "submissions", "exam_sessions",
                   "certificates"}
Exam == <<"exams", "e">>

ExamStatuses == {"upcoming", "ongoing", "graded", "closed"}
Payments == {"none", "wallet", "external"}

EnrollmentValues  == [progress : 0..100, payment : Payments]
ExamValues        == [status : ExamStatuses, mark : Nat, quiz : BOOLEAN]
SubmissionValues  == [status : {"pending", "graded", "resubmit"}, grade : Nat, attempt : Nat]
SessionValues     == [attempt : Nat]
Requirements      == [lessons : BOOLEAN, exam : {"none", "passed", "resubmit", "pending_review",
                                                 "failed", "not_submitted"}]
CertificateValues == [status : {"in_progress", "issued", "revoked"}, seen : Requirements]

-----------------------------------------------------------------------------

\* computeCertificationRequirements on the store s: an evaluation that was deleted asks
\* for nothing any more.
ExamRequirement(s) ==
    LET subs == In(s, "submissions")
        graded == {r \in subs : s[r].status = "graded"}
    IN CASE s[Exam] = Absent -> "none"
         [] s[Exam] # Absent /\ \E r \in graded : s[r].grade >= s[Exam].mark -> "passed"
         [] OTHER -> IF \E r \in subs : s[r].status = "resubmit" THEN "resubmit"
                     ELSE IF \E r \in subs : s[r].status = "pending" THEN "pending_review"
                     ELSE IF graded # {} THEN "failed" ELSE "not_submitted"

Required(s) == [lessons |-> s[Find(s, "course_enrollments")].progress = 100,
                exam    |-> ExamRequirement(s)]

\* Mutant: an evaluation that waits for its correction does not hold the certificate back.
Met_Pending(req) == req.lessons /\ req.exam \in {"none", "passed", "pending_review"}

Met(req) == req.lessons /\ req.exam \in {"none", "passed"}

\* Mutant: only an issued certificate is final.
Final_Issued == {"issued"}

\* Delivered and revoked certificates: only an instructor changes them.
Final == {"issued", "revoked"}

\* syncCourseCertificate: the certificate rows to write, none when the learner is not
\* enrolled, the certificate is final, or nothing it depends on has changed.
Certified(s, c) ==
    LET old == Find(s, "certificates")
        req == Required(s)
        new == [status |-> IF Met(req) THEN "issued" ELSE "in_progress", seen |-> req]
    IN IF In(s, "course_enrollments") = {} THEN NoRows
       ELSE IF In(s, "certificates") = {} THEN [r \in {New("certificates", c)} |-> new]
       ELSE IF s[old].status \in Final \/ s[old] = new THEN NoRows
       ELSE [r \in {old} |-> new]

\* A section that writes the rows of f and with them the certificate of the store then,
\* and collects the rows in also as they are.
WriteCertified(c, f, also) ==
    LET s == Put(memory, f)
        k == Certified(s, c)
    IN Collect(c, Put(s, k), DOMAIN f \cup DOMAIN k \cup also)

\* includeDerivedExam: the evaluation, which the command has not changed, is written too.
DerivedExam == In(memory, "exams")

NotFound(c) == Pass(c, "answered")

-----------------------------------------------------------------------------

\* updateApprenantCourseProgress and updateApprenantLessonProgress.
UpdateCourseProgress(c) ==
    /\ call[c].op = "updateCourseProgress" /\ Ready(c)
    /\ IF In(memory, "course_enrollments") # {}
       THEN LET r == Find(memory, "course_enrollments") IN
            WriteCertified(c, [x \in {r} |-> [memory[r] EXCEPT !.progress = call[c].progress]], {})
       ELSE NotFound(c)

CanRetry(sub) ==
    \/ sub.status = "resubmit"
    \/ /\ memory[Exam].quiz /\ sub.status = "graded"
       /\ sub.grade < memory[Exam].mark /\ sub.attempt < MaxAttempts

\* A quiz is graded when it is submitted, other work waits for its correction.
Handed(c, attempt) == [status |-> IF memory[Exam].quiz THEN "graded" ELSE "pending",
                       grade |-> IF memory[Exam].quiz THEN call[c].grade ELSE 0,
                       attempt |-> attempt]

\* submitApprenantExam: a first submission is appended, another attempt patches it.
SubmitExam(c) ==
    /\ call[c].op = "submitExam" /\ Ready(c)
    /\ LET subs == In(memory, "submissions")
           old == Find(memory, "submissions")
       IN IF memory[Exam] # Absent /\ memory[Exam].status = "ongoing"
             /\ In(memory, "course_enrollments") # {}
             /\ (subs = {} \/ CanRetry(memory[old]))
          THEN WriteCertified(c, IF subs = {} THEN [r \in {New("submissions", c)} |-> Handed(c, 1)]
                                 ELSE [r \in {old} |-> Handed(c, memory[old].attempt + 1)],
                              DerivedExam)
          ELSE NotFound(c)

\* gradeFormateurSubmission and requestFormateurResubmission, from whatever status.
Submission == Find(memory, "submissions")

Correct(c, corrected) ==
    IF In(memory, "submissions") # {} /\ memory[Exam] # Absent
    THEN WriteCertified(c, [r \in {Submission} |-> corrected], DerivedExam)
    ELSE NotFound(c)

GradeSubmission(c) ==
    /\ call[c].op = "gradeSubmission" /\ Ready(c)
    /\ Correct(c, [memory[Submission] EXCEPT !.status = "graded", !.grade = call[c].grade])

RequestResubmission(c) ==
    /\ call[c].op = "requestResubmission" /\ Ready(c)
    /\ Correct(c, [memory[Submission] EXCEPT !.status = "resubmit"])

\* Mutant: the session of an earlier start is not looked up.
StartQuiz_Always(c) ==
    /\ call[c].op = "startQuiz" /\ Ready(c)
    /\ LET attempt == IF In(memory, "submissions") = {} THEN 1
                      ELSE memory[Find(memory, "submissions")].attempt + 1
       IN IF memory[Exam] # Absent /\ memory[Exam].status = "ongoing"
          THEN Collect(c, Put(memory, [r \in {New("exam_sessions", c)} |->
                                       [attempt |-> attempt]]), {New("exam_sessions", c)})
          ELSE NotFound(c)

\* startQuiz opens one session per attempt: its deadline is fixed at the first opening.
StartQuiz(c) ==
    /\ call[c].op = "startQuiz" /\ Ready(c)
    /\ LET attempt == IF In(memory, "submissions") = {} THEN 1
                      ELSE memory[Find(memory, "submissions")].attempt + 1
           found == \E r \in In(memory, "exam_sessions") : memory[r].attempt = attempt
       IN IF memory[Exam] # Absent /\ memory[Exam].status = "ongoing" /\ ~found
          THEN Collect(c, Put(memory, [r \in {New("exam_sessions", c)} |->
                                       [attempt |-> attempt]]), {New("exam_sessions", c)})
          ELSE NotFound(c)

\* updateExam: the pass mark changes, and with it the certificates.
UpdateExam(c) ==
    /\ call[c].op = "updateExam" /\ Ready(c)
    /\ IF memory[Exam] # Absent
       THEN WriteCertified(c, [r \in {Exam} |-> [memory[r] EXCEPT !.mark = call[c].mark]], {})
       ELSE NotFound(c)

Transitions == [upcoming |-> {"ongoing"}, ongoing |-> {"closed", "upcoming"},
                closed |-> {"ongoing"}, graded |-> {"ongoing", "closed"}]

\* changeStatus: an evaluation with submissions is not unpublished.
ChangeStatus(c) ==
    /\ call[c].op = "changeStatus" /\ Ready(c)
    /\ IF /\ memory[Exam] # Absent
          /\ call[c].status \in Transitions[memory[Exam].status]
          /\ call[c].status = "upcoming" => In(memory, "submissions") = {}
       THEN Collect(c, Put(memory, [r \in {Exam} |-> [memory[r] EXCEPT !.status = call[c].status]]),
                    {Exam})
       ELSE NotFound(c)

\* deleteFormateurExam: the submissions go too, sessions and certificates stay.
DeleteExam(c) ==
    /\ call[c].op = "deleteExam" /\ Ready(c)
    /\ LET gone == {Exam} \cup In(memory, "submissions") IN
       IF memory[Exam] # Absent THEN Collect(c, Remove(memory, gone), gone) ELSE NotFound(c)

\* A learner who lists his certificates has them recomputed.
GetCertificates(c) ==
    /\ call[c].op = "getCertificates" /\ Ready(c)
    /\ IF DOMAIN Certified(memory, c) = {} THEN Pass(c, "answered")
       ELSE WriteCertified(c, NoRows, {})

\* issueCertificate and deleteCertificate: the instructor decides.
Decide(c, status) ==
    IF In(memory, "certificates") # {}
    THEN LET r == Find(memory, "certificates") IN
         Collect(c, [memory EXCEPT ![r].status = status], {r})
    ELSE NotFound(c)

IssueCertificate(c)  == call[c].op = "issueCertificate" /\ Ready(c) /\ Decide(c, "issued")
RevokeCertificate(c) == call[c].op = "revokeCertificate" /\ Ready(c) /\ Decide(c, "revoked")

LearningSection(c) ==
    \/ UpdateCourseProgress(c) \/ SubmitExam(c) \/ GradeSubmission(c)
    \/ RequestResubmission(c) \/ StartQuiz(c) \/ UpdateExam(c) \/ ChangeStatus(c)
    \/ DeleteExam(c) \/ GetCertificates(c) \/ IssueCertificate(c) \/ RevokeCertificate(c)

-----------------------------------------------------------------------------

LearningRows == {r \in Rows : r[1] \in LearningTables}

\* What a store shows of what a certificate asks for.
Shown(s) == IF In(s, "course_enrollments") = {} THEN {}
            ELSE (IF Required(s).lessons THEN {"lessons"} ELSE {})
                 \cup (IF Required(s).exam \in {"none", "passed"} THEN {"exam"} ELSE {})

\* Conjoined with every step: what AppRow has shown, and whether the instructor decided.
Observe == earned' = earned \cup Shown(app')
                     \cup (IF \E c \in Calls : /\ call[c].op = "issueCertificate"
                                               /\ phase'[c] = "persisting"
                           THEN {"decided"} ELSE {})

\* A certificate that AppRow shows as issued was earned or decided: AppRow has shown
\* every lesson completed at some time and the evaluation passed (or deleted) at some
\* time, or the instructor delivered it; unless a row it was computed from was put back,
\* unsaved or overtaken.  The sections compute it from the store, before anything of
\* what they have found there is known to be persisted.
CertificateIsEarned ==
    (\A r \in LearningRows : Pending(r) = {} /\ r \notin Dirty) =>
        \A r \in In(app, "certificates") :
            app[r].status = "issued" => "decided" \in earned \/ {"lessons", "exam"} \subseteq earned

\* One learner has one submission, one session per attempt, one certificate and one
\* enrollment in AppRow: each is looked up in the store and then appended, so that two
\* can exist only when a reload took the first one out of the store again.
OneOfEach ==
    /\ \A t \in {"submissions", "certificates", "course_enrollments"} :
           Cardinality(In(app, t) \ stale) <= 1
    /\ \A r1, r2 \in In(app, "exam_sessions") \ stale :
           app[r1].attempt = app[r2].attempt => r1 = r2

\* What an instructor or the platform has delivered or revoked stays so ("an issued
\* certificate is never taken back by a later recomputation", "never re-delivered
\* automatically"): no command but the instructor's own changes it in AppRow, unless a
\* reload had put the certificate back or its transaction was overtaken.
FinalCertificatesStay ==
    [][\A c \in Calls, r \in RowsOf("certificates") :
        /\ phase[c] = "persisting" /\ r \in DOMAIN batch[c]
        /\ call[c].op \notin {"issueCertificate", "revokeCertificate"}
        /\ app[r] # Absent /\ app[r].status \in Final
        => app'[r] = app[r] \/ r \in Dirty']_storeVars
=============================================================================
