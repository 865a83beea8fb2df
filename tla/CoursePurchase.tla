--------------------------- MODULE CoursePurchase ---------------------------
(***************************************************************************)
(* How the learner of CourseCertification gets into the course when it has *)
(* a price: purchaseApprenantCourse, the purchase with a completed         *)
(* external payment and the enrollment by the instructor, all three of     *)
(* learning-access.service.ts.  A purchase looks for an enrollment, awaits *)
(* the wallet command under the key course_purchase:user:course, and goes  *)
(* on with what it found before the await.                                 *)
(***************************************************************************)
EXTENDS CourseCertification

CONSTANT NoRow          \* "no enrollment was found"

VARIABLES
    found,      \* [Calls -> the enrollment a purchase found before it awaits, or NoRow]
    charged     \* the wallet operation course_purchase:user:course is completed

purchaseVars == <<found, charged>>

Enrolled(s) == In(s, "course_enrollments") # {}
Enrollment(s) == Find(s, "course_enrollments")
IsPaid(s) == Enrolled(s) /\ s[Enrollment(s)].payment # "none"

\* createEnrollment returns the enrollment it finds, as it is, or appends one with its
\* certificate.
CreateEnrollment(c, payment) ==
    IF Enrolled(memory) THEN Pass(c, "answered")
    ELSE WriteCertified(c, [r \in {New("course_enrollments", c)} |->
                            [progress |-> 0, payment |-> payment]], {})

\* patchAppRows by identifier: nothing when the store has lost the row, and then nothing
\* is persisted either.
PayEnrollment(c, r, payment) ==
    LET f == [x \in {r} \cap In(memory, "course_enrollments") |->
              [memory[x] EXCEPT !.payment = payment]]
    IN Collect(c, Put(memory, f), DOMAIN f)

-----------------------------------------------------------------------------

\* The section before the await.
Purchase(c) ==
    /\ call[c].op = "purchaseCourse" /\ Ready(c)
    /\ IF IsPaid(memory)
       THEN Pass(c, "answered") /\ UNCHANGED found
       ELSE /\ Pass(c, "waiting")
            /\ found' = [found EXCEPT ![c] = IF Enrolled(memory) THEN Enrollment(memory)
                                             ELSE NoRow]
    /\ UNCHANGED charged

\* withdrawWallet: the operation of this key is completed now or was completed before;
\* the answer may be lost.
Charge(c) ==
    /\ call[c].op = "purchaseCourse"
    /\ charged' = TRUE
    /\ Settle(c, "resuming") \/ Settle(c, "failed")
    /\ UNCHANGED found

\* Insufficient funds, a conflict, a time limit.
ChargeFails(c) == call[c].op = "purchaseCourse" /\ Settle(c, "failed") /\ UNCHANGED purchaseVars

\* Mutant: the enrollment is patched if the store has one, else nothing is appended.
PurchaseGoesOn_NoCreate(c) ==
    /\ call[c].op = "purchaseCourse" /\ phase[c] = "resuming"
    /\ IF found[c] # NoRow THEN PayEnrollment(c, found[c], "wallet") ELSE Pass(c, "answered")
    /\ UNCHANGED purchaseVars

\* The section after the await.
PurchaseGoesOn(c) ==
    /\ call[c].op = "purchaseCourse" /\ phase[c] = "resuming"
    /\ IF found[c] # NoRow THEN PayEnrollment(c, found[c], "wallet")
                           ELSE CreateEnrollment(c, "wallet")
    /\ UNCHANGED purchaseVars

\* A completed payment of the learner pays the course; nothing marks it as used.
PurchaseWithExternalPayment(c) ==
    /\ call[c].op = "purchaseWithExternalPayment" /\ Ready(c)
    /\ IF IsPaid(memory) THEN Pass(c, "answered")
       ELSE IF Enrolled(memory) THEN PayEnrollment(c, Enrollment(memory), "external")
       ELSE CreateEnrollment(c, "external")
    /\ UNCHANGED purchaseVars

\* enrollLearnerAsInstructor: nothing is paid.
EnrollLearner(c) ==
    /\ call[c].op = "enrollLearner" /\ Ready(c)
    /\ CreateEnrollment(c, "none")
    /\ UNCHANGED purchaseVars

PurchaseSection(c) ==
    \/ Purchase(c) \/ Charge(c) \/ ChargeFails(c) \/ PurchaseGoesOn(c)
    \/ PurchaseWithExternalPayment(c) \/ EnrollLearner(c)

-----------------------------------------------------------------------------

EnrollmentRows == RowsOf("course_enrollments")

\* A learner whose purchase was answered is enrolled: what was charged under the key of
\* the purchase is followed by an enrollment in AppRow, found before the await, after it,
\* or appended then; unless an enrollment was put back, unsaved or overtaken.
PaidIsEnrolled ==
    (\A r \in EnrollmentRows : Pending(r) = {} /\ r \notin Dirty) =>
        \A c \in Calls :
            call[c].op = "purchaseCourse" /\ phase[c] = "answered" /\ charged => Enrolled(app)
=============================================================================
