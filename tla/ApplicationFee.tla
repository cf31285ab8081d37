----------------------------- MODULE ApplicationFee -----------------------------
(***************************************************************************)
(* An application's fee from the order to the refund: ReporterOnboarding   *)
(* and ReporterRefund on the same row of reporter_payments.                *)
(*                                                                         *)
(* ReporterOnboarding holds the columns of the order and the capture       *)
(* (booking), ReporterRefund those of the refund.  To the onboarding a     *)
(* refund is queued or not; what has become of it is the refund's.  The    *)
(* two meet in the decision: the transaction that rejects or cancels the   *)
(* application is the one that queues the refund.                          *)
(***************************************************************************)
EXTENDS ReporterRefund

CONSTANTS Checkouts, Starts, Orders, References,
          NoOrder, TemporaryOrder, NoReference, TemporaryReference

VARIABLES application, booking, made, shown, paid,
          sessions, sent, results, processed, checkout, start

Onboarding == INSTANCE ReporterOnboarding_proofs WITH payment <- booking

onboardingVars == <<application, booking, made, shown, paid,
                    sessions, sent, results, processed, checkout, start>>
feeVars        == <<vars, onboardingVars>>

\* The onboarding's view of the refund: queued, or not.
SameFee ==
    booking.refund_status =
        IF refund_status = "not_eligible" THEN "not_eligible" ELSE "refund_pending"

FeeInit == Init /\ Onboarding!Init

\* reject_reporter_application and mark_overdue_reporter_application.
RefuseAndQueue == (Onboarding!Reject \/ Onboarding!MarkOverdue) /\ QueueRefund

FeeNext ==
    /\ \/ RefuseAndQueue
       \/ Onboarding!Next /\ UNCHANGED vars
       \/ Next /\ UNCHANGED onboardingVars
    /\ SameFee'

FeeSpec == FeeInit /\ [][FeeNext]_feeVars

(* ----------------------------- properties ------------------------------ *)

\* The application's half is a behaviour of ReporterOnboarding and the refund's one of
\* ReporterRefund: what each was shown to keep by itself, the row keeps under both.
EachFeeByItself == Onboarding!Spec /\ Spec

\* Money is on its way back only to an applicant who was rejected or cancelled, and whose
\* fee was booked: no refund of any attempt, by any worker, is ever made of the fee of a
\* reporter or of an application that is still open.
OnlyUnearnedFeesGoBack ==
    \A r \in RefundIds : Exists(r) =>
        application.status \in {"rejected", "cancelled"} /\ booking.status = "captured"
=================================================================================
