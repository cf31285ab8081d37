------------------------- MODULE ReporterOnboarding -------------------------
(***************************************************************************)
(* One reporter application, from its draft to the decision about it.      *)
(*                                                                         *)
(* Two rows carry it: reporter_applications and reporter_payments.  They   *)
(* are changed by                                                          *)
(*   - requests for an order to pay (payment.service.ts,                   *)
(*     createReporterOrder), which reserve the payment row, find or make   *)
(*     an order at Razorpay, and store it;                                 *)
(*   - confirmations of a capture, from the checkout page or a webhook;    *)
(*   - requests to start an identity check (application.service.ts,        *)
(*     startKycSession), and the identity provider's signed results;       *)
(*   - administrators, who approve or reject, and the daily lifecycle job, *)
(*     which cancels what was not completed in time;                       *)
(*   - the preview's stand-ins for payment and identity check.             *)
(* Each database function is one transaction and one action, and so is     *)
(* each provider call.  Requests may stop between any two steps.           *)
(*                                                                         *)
(* Time is abstract: "live" is the five-minute lease of a reservation, and *)
(* the completion deadline is ahead or has passed.  A request is           *)
(* identified with the reservation token it drew.                          *)
(***************************************************************************)
EXTENDS Naturals, FiniteSets

CONSTANTS Checkouts,           \* requests for an order
          Starts,              \* requests to start an identity check
          Orders,              \* ids Razorpay may give to orders
          References,          \* references the identity provider may give
          NoToken,             \* a reservation token is null
          NoOrder,             \* razorpay_order_id is null
          TemporaryOrder,      \* the id of the preview's dummy order
          NoReference,         \* kyc_reference is null
          TemporaryReference   \* the reference of the preview's dummy check

ASSUME IdsDiffer ==
    /\ NoToken \notin Checkouts \cup Starts
    /\ NoOrder \notin Orders /\ TemporaryOrder \notin Orders
    /\ NoReference \notin References /\ TemporaryReference \notin References

VARIABLES
    application,  \* the row of reporter_applications
    payment,      \* the row of reporter_payments; status "none" if there is none
    made,         \* orders that exist at Razorpay, all with this payment's receipt
    shown,        \* orders the applicant was asked to pay
    paid,         \* orders the applicant has paid
    sessions,     \* identity checks that exist at the provider
    sent,         \* identity checks the applicant was sent to
    results,      \* results the provider has signed
    processed,    \* webhook_events that are processed
    checkout,     \* where each request for an order is
    start         \* where each request for an identity check is

razorpay == <<made, shown, paid>>
kyc      == <<sessions, sent, results, processed>>
vars     == <<application, payment, razorpay, kyc, checkout, start>>

Statuses == {"draft", "payment_pending", "kyc_pending", "under_review",
             "approved", "rejected", "cancelled"}
Decided  == {"approved", "rejected", "cancelled"}
Results  == References \X {"verified", "failed"}

Application ==
    [status : Statuses,
     kyc_status : {"not_started", "pending", "verified", "failed"},
     kyc_reference : References \cup {NoReference, TemporaryReference},
     kyc_start_token : Starts \cup {NoToken},
     live : BOOLEAN,
     completion_deadline : {"null", "ahead", "passed"}]

Payment ==
    [status : {"none", "order_creating", "order_created", "captured"},
     provider : {"razorpay", "temporary"},
     order : Orders \cup {NoOrder, TemporaryOrder},
     token : Checkouts \cup {NoToken},
     live : BOOLEAN,
     refund_status : {"not_eligible", "refund_pending"}]

CheckoutState == [pc : {"idle", "find", "create", "complete"},
                  order : Orders \cup {NoOrder}]
StartState == [pc : {"idle", "create", "complete", "release"},
               reference : References \cup {NoReference}]

CheckoutIdle == [pc |-> "idle", order |-> NoOrder]
StartIdle    == [pc |-> "idle", reference |-> NoReference]

Init ==
    /\ application = [status |-> "draft", kyc_status |-> "not_started",
                      kyc_reference |-> NoReference, kyc_start_token |-> NoToken,
                      live |-> FALSE, completion_deadline |-> "null"]
    /\ payment = [status |-> "none", provider |-> "razorpay", order |-> NoOrder,
                  token |-> NoToken, live |-> FALSE, refund_status |-> "not_eligible"]
    /\ made = {} /\ shown = {} /\ paid = {}
    /\ sessions = {} /\ sent = {} /\ results = {} /\ processed = {}
    /\ checkout = [c \in Checkouts |-> CheckoutIdle]
    /\ start = [s \in Starts |-> StartIdle]

BeforePayment == application.status \in {"draft", "payment_pending"}

-----------------------------------------------------------------------------
(* An order to pay.                                                         *)

\* reserve_reporter_order claims the payment row.  A row whose order exists
\* is answered with that order, which the applicant then sees again; the
\* other answers (paid, busy, invalid) change nothing.
ReserveOrder(c) ==
    /\ checkout[c].pc = "idle"
    /\ BeforePayment
    /\ \/ payment.status = "none"
       \/ payment.status = "order_creating" /\ ~payment.live
    /\ payment' = [payment EXCEPT !.status = "order_creating", !.order = NoOrder,
                                  !.token = c, !.live = TRUE]
    /\ application' = [application EXCEPT !.status = "payment_pending"]
    /\ checkout' = [checkout EXCEPT ![c].pc = "find"]
    /\ UNCHANGED <<razorpay, kyc, start>>

\* findOrderByReceipt: none, one, or an error if there are more, for ever.
FindOrder(c) ==
    /\ checkout[c].pc = "find"
    /\ \/ /\ made = {}
          /\ checkout' = [checkout EXCEPT ![c].pc = "create"]
       \/ \E o \in Orders :
             /\ made = {o}
             /\ checkout' = [checkout EXCEPT ![c] = [pc |-> "complete", order |-> o]]
       \/ /\ \A o \in Orders : made # {o}
          /\ made # {}
          /\ checkout' = [checkout EXCEPT ![c] = CheckoutIdle]
    /\ UNCHANGED <<application, payment, razorpay, kyc, start>>

\* createOrder carries no idempotency key: every call that reaches Razorpay
\* makes an order.  The answer may be lost; the reservation is then kept.
CreateOrder(c) ==
    /\ checkout[c].pc = "create"
    /\ \E o \in Orders \ made :
          /\ made' = made \cup {o}
          /\ \/ checkout' = [checkout EXCEPT ![c] = [pc |-> "complete", order |-> o]]
             \/ checkout' = [checkout EXCEPT ![c] = CheckoutIdle]
    /\ UNCHANGED <<application, payment, shown, paid, kyc, start>>

\* Mutant: the reservation is not compared.
CompleteOrderUnfenced(c) ==
    /\ checkout[c].pc = "complete"
    /\ payment' = [payment EXCEPT !.status = "order_created", !.order = checkout[c].order,
                                  !.token = NoToken, !.live = FALSE]
    /\ shown' = shown \cup {checkout[c].order}
    /\ checkout' = [checkout EXCEPT ![c] = CheckoutIdle]
    /\ UNCHANGED <<application, made, paid, kyc, start>>

\* complete_reporter_order stores the order, which is then shown, unless the
\* reservation was taken over.
CompleteOrder(c) ==
    /\ checkout[c].pc = "complete"
    /\ checkout' = [checkout EXCEPT ![c] = CheckoutIdle]
    /\ IF payment.status = "order_creating" /\ payment.token = c
       THEN /\ payment' = [payment EXCEPT !.status = "order_created",
                                          !.order = checkout[c].order,
                                          !.token = NoToken, !.live = FALSE]
            /\ shown' = shown \cup {checkout[c].order}
       ELSE UNCHANGED <<payment, shown>>
    /\ UNCHANGED <<application, made, paid, kyc, start>>

\* A call fails without an effect, or the request dies.
CheckoutStops(c) ==
    /\ checkout[c].pc # "idle"
    /\ checkout' = [checkout EXCEPT ![c] = CheckoutIdle]
    /\ UNCHANGED <<application, payment, razorpay, kyc, start>>

OrderLeaseLapses ==
    /\ payment.live
    /\ payment' = [payment EXCEPT !.live = FALSE]
    /\ UNCHANGED <<application, razorpay, kyc, checkout, start>>

-----------------------------------------------------------------------------
(* The payment.                                                             *)

\* The applicant pays an order on the checkout page.
PayOrder(o) ==
    /\ o \in shown \ paid
    /\ paid' = paid \cup {o}
    /\ UNCHANGED <<application, payment, made, shown, kyc, checkout, start>>

\* apply_reporter_payment, called by verifyCheckoutPayment and by the capture
\* webhooks, any number of times: only the first confirmation has an effect.
CapturePayment(o) ==
    /\ o \in paid
    /\ payment.order = o
    /\ payment.status = "order_created"
    /\ application.status = "payment_pending"
    /\ payment' = [payment EXCEPT !.status = "captured"]
    /\ application' = [application EXCEPT !.status = "kyc_pending",
                                          !.completion_deadline = "ahead"]
    /\ UNCHANGED <<razorpay, kyc, checkout, start>>

\* complete_temporary_reporter_payment
TemporaryPayment ==
    /\ payment.status = "none"
    /\ BeforePayment
    /\ payment' = [payment EXCEPT !.status = "captured", !.provider = "temporary",
                                  !.order = TemporaryOrder]
    /\ application' = [application EXCEPT !.status = "kyc_pending",
                                          !.completion_deadline = "ahead"]
    /\ UNCHANGED <<razorpay, kyc, checkout, start>>

\* waive_demo_reporter_application_payment, for the demonstration account.
WaivePayment ==
    /\ payment.status = "none"
    /\ BeforePayment
    /\ application' = [application EXCEPT !.status = "kyc_pending",
                                          !.completion_deadline = "ahead"]
    /\ UNCHANGED <<payment, razorpay, kyc, checkout, start>>

-----------------------------------------------------------------------------
(* The identity check.                                                      *)

Starting == application.kyc_start_token # NoToken /\ application.live
NotVerified == application.kyc_status \in {"not_started", "pending", "failed"}

\* reserve_reporter_kyc_start
ReserveKycStart(s) ==
    /\ start[s].pc = "idle"
    /\ application.status = "kyc_pending"
    /\ NotVerified
    /\ ~Starting
    /\ application' = [application EXCEPT !.kyc_start_token = s, !.live = TRUE]
    /\ start' = [start EXCEPT ![s].pc = "create"]
    /\ UNCHANGED <<payment, razorpay, kyc, checkout>>

\* createSession at the provider: it succeeds, or fails with or without
\* having made a session, and then the reservation is given back.
CreateSession(s) ==
    /\ start[s].pc = "create"
    /\ \/ \E r \in References \ sessions :
             /\ sessions' = sessions \cup {r}
             /\ start' = [start EXCEPT ![s] = [pc |-> "complete", reference |-> r]]
       \/ /\ sessions' \in {sessions} \cup {sessions \cup {r} : r \in References}
          /\ start' = [start EXCEPT ![s].pc = "release"]
    /\ UNCHANGED <<application, payment, razorpay, sent, results, processed, checkout>>

\* complete_reporter_kyc_start: the new session replaces the one before, and
\* the applicant is sent to it.
CompleteKycStart(s) ==
    LET reference == start[s].reference
    IN  /\ start[s].pc = "complete"
        /\ IF /\ application.status = "kyc_pending"
              /\ NotVerified
              /\ application.kyc_start_token = s
           THEN /\ application' = [application EXCEPT
                                     !.kyc_reference = reference,
                                     !.kyc_status = "pending",
                                     !.kyc_start_token = NoToken, !.live = FALSE]
                /\ sent' = sent \cup {reference}
                /\ start' = [start EXCEPT ![s] = StartIdle]
           ELSE /\ start' = [start EXCEPT ![s].pc = "release"]
                /\ UNCHANGED <<application, sent>>
        /\ UNCHANGED <<payment, razorpay, sessions, results, processed, checkout>>

\* release_reporter_kyc_start, after any failure.
ReleaseKycStart(s) ==
    /\ start[s].pc = "release"
    /\ start' = [start EXCEPT ![s] = StartIdle]
    /\ application' =
          IF application.status = "kyc_pending" /\ application.kyc_start_token = s
          THEN [application EXCEPT !.kyc_start_token = NoToken, !.live = FALSE]
          ELSE application
    /\ UNCHANGED <<payment, razorpay, kyc, checkout>>

StartStops(s) ==
    /\ start[s].pc # "idle"
    /\ start' = [start EXCEPT ![s] = StartIdle]
    /\ UNCHANGED <<application, payment, razorpay, kyc, checkout>>

StartLeaseLapses ==
    /\ application.live
    /\ application' = [application EXCEPT !.live = FALSE]
    /\ UNCHANGED <<payment, razorpay, kyc, checkout, start>>

\* The applicant goes through a session, any the applicant was ever sent to,
\* and the provider signs a result; one that failed may be tried again.
CheckIdentity(r) ==
    /\ r \in sent
    /\ <<r, "verified">> \notin results
    /\ \E outcome \in {"verified", "failed"} : results' = results \cup {<<r, outcome>>}
    /\ UNCHANGED <<application, payment, razorpay, sessions, sent, processed,
                   checkout, start>>

\* Mutant: a result counts for the application whatever session it is from.
MatchesAny(r) == application.kyc_reference \in References

\* The application is looked up by the session's reference.
Matches(r) == application.kyc_reference = r

\* A result counts while the check is open and no new one is being started.
AcceptsResult ==
    /\ application.status = "kyc_pending"
    /\ application.kyc_status \in {"pending", "failed"}
    /\ ~Starting

\* Where a result leaves the application.
StatusAfter(outcome) == IF outcome = "verified" THEN "under_review" ELSE "kyc_pending"

\* A delivery of a signed result: claim_kyc_webhook_event and
\* complete_kyc_webhook_event.  The completion checks again whatever the claim
\* has read, so the two are one action.  A result that is not accepted marks
\* its event failed, and a repeated delivery of it is looked at again.
DeliverResult(e) ==
    /\ e \in results \ processed
    /\ Matches(e[1])
    /\ AcceptsResult
    /\ application' = [application EXCEPT
                         !.status = StatusAfter(e[2]),
                         !.kyc_status = e[2],
                         !.kyc_start_token = NoToken, !.live = FALSE]
    /\ processed' = processed \cup {e}
    /\ UNCHANGED <<payment, razorpay, sessions, sent, results, checkout, start>>

-----------------------------------------------------------------------------
(* The decision.                                                            *)

\* Mutant: it is enough that no refund was queued.
FeeIsNotReturned == payment.refund_status = "not_eligible"

FeeIsHeld == payment.status = "captured" /\ payment.refund_status = "not_eligible"

\* approve_reporter_application
Approve ==
    /\ application.status = "under_review"
    /\ application.kyc_status = "verified"
    /\ FeeIsHeld
    /\ application' = [application EXCEPT !.status = "approved"]
    /\ UNCHANGED <<payment, razorpay, kyc, checkout, start>>

\* complete_temporary_reporter_kyc_approval
TemporaryApproval ==
    /\ application.status = "kyc_pending"
    /\ payment.provider = "temporary"
    /\ FeeIsHeld
    /\ application' = [application EXCEPT !.status = "approved",
                                          !.kyc_status = "verified",
                                          !.kyc_reference = TemporaryReference]
    /\ UNCHANGED <<payment, razorpay, kyc, checkout, start>>

\* reject_reporter_application queues the refund of the fee.
Reject ==
    /\ application.status = "under_review"
    /\ FeeIsHeld
    /\ application' = [application EXCEPT !.status = "rejected"]
    /\ payment' = [payment EXCEPT !.refund_status = "refund_pending"]
    /\ UNCHANGED <<razorpay, kyc, checkout, start>>

DeadlinePasses ==
    /\ application.completion_deadline = "ahead"
    /\ application' = [application EXCEPT !.completion_deadline = "passed"]
    /\ UNCHANGED <<payment, razorpay, kyc, checkout, start>>

\* Mutant: the job trusts the deadline alone, and cancels what has moved on.
OverdueByDeadline == application.completion_deadline = "passed"

\* Mutant: an identity check that was started keeps the application open.
OverdueIfNotStarted ==
    /\ application.status = "kyc_pending"
    /\ application.completion_deadline = "passed"
    /\ application.kyc_status = "not_started"

\* The application was not completed in time.
Overdue ==
    /\ application.status = "kyc_pending"
    /\ application.completion_deadline = "passed"

\* mark_overdue_reporter_application, called by claim_reporter_lifecycle.
MarkOverdue ==
    /\ Overdue
    /\ FeeIsHeld
    /\ application' = [application EXCEPT !.status = "cancelled"]
    /\ payment' = [payment EXCEPT !.refund_status = "refund_pending"]
    /\ UNCHANGED <<razorpay, kyc, checkout, start>>

CheckoutStep(c) == ReserveOrder(c) \/ FindOrder(c) \/ CreateOrder(c)
                     \/ CompleteOrder(c) \/ CheckoutStops(c)

StartStep(s) == ReserveKycStart(s) \/ CreateSession(s) \/ CompleteKycStart(s)
                  \/ ReleaseKycStart(s) \/ StartStops(s)

Next ==
    \/ \E c \in Checkouts : CheckoutStep(c)
    \/ \E o \in Orders : PayOrder(o) \/ CapturePayment(o)
    \/ TemporaryPayment \/ WaivePayment
    \/ \E s \in Starts : StartStep(s)
    \/ \E r \in References : CheckIdentity(r)
    \/ \E e \in Results : DeliverResult(e)
    \/ Approve \/ TemporaryApproval \/ Reject \/ MarkOverdue
    \/ OrderLeaseLapses \/ StartLeaseLapses \/ DeadlinePasses

Spec == Init /\ [][Next]_vars

\* Razorpay repeats the webhook of a capture until it is taken, the thirty
\* days pass, and the lifecycle job runs every day.  Nothing is assumed of
\* applicants, of the identity provider or of administrators.
LiveSpec ==
    /\ Spec
    /\ \A o \in Orders : WF_vars(CapturePayment(o))
    /\ WF_vars(DeadlinePasses)
    /\ WF_vars(MarkOverdue)

-----------------------------------------------------------------------------
(* Properties.                                                              *)

\* Every variable stays within its type.
TypeOK ==
    /\ application \in Application
    /\ payment \in Payment
    /\ made \subseteq Orders /\ shown \subseteq Orders /\ paid \subseteq Orders
    /\ sessions \subseteq References /\ sent \subseteq References
    /\ results \subseteq Results /\ processed \subseteq Results
    /\ checkout \in [Checkouts -> CheckoutState]
    /\ start \in [Starts -> StartState]

\* No money is taken that cannot be booked: an order that was paid is the one
\* the payment row holds, and as long as its capture is not recorded the
\* application waits for it - however many orders slow requests have made at
\* Razorpay, and whatever the preview's shortcuts did meanwhile.
PaidOrderCanBeBooked ==
    \A o \in paid :
        /\ payment.order = o
        /\ \/ payment.status = "captured"
           \/ payment.status = "order_created" /\ application.status = "payment_pending"

\* The fee follows the decision: it is on its way back exactly when the
\* application was rejected or cancelled, and a reporter's fee was captured.
FeeFollowsTheDecision ==
    /\ application.status \in {"rejected", "cancelled"}
          <=> payment.refund_status = "refund_pending"
    /\ application.status \in Decided => payment.status = "captured"

\* Nobody is under review, or a reporter by review, without an identity that
\* the provider has verified in the session the row names - not by a result of
\* a session that was restarted since.
VerifiedInTheRecordedSession ==
    application.kyc_status = "verified" =>
        \/ application.kyc_reference = TemporaryReference
        \/ <<application.kyc_reference, "verified">> \in results

\* A decision is final: a late result, a slow request or the deadline never
\* reopens, re-decides or re-verifies a decided application.
DecisionIsFinal ==
    [][application.status \in Decided =>
          /\ application'.status = application.status
          /\ application'.kyc_status = application.kyc_status
          /\ application'.kyc_reference = application.kyc_reference]_vars

\* What became of the money the applicant has paid.
Promise == INSTANCE FeePromise WITH
    fee <- IF paid = {} THEN "unpaid"
           ELSE IF application.status = "approved" THEN "earned"
           ELSE IF payment.refund_status = "refund_pending" THEN "returning"
           ELSE "held"

\* The onboarding implements the promise about the fee.
KeepsTheFeePromise == Promise!Spec

\* A paying applicant is never left hanging: the payment leads to a review or,
\* when the identity check is not completed, to a cancellation and a refund.
PayingApplicantIsServed ==
    paid # {} ~> application.status \in {"under_review"} \cup Decided

\* A refund is only queued for money Razorpay has taken.  (The design of the
\* preview says that its dummy payments cannot be mistaken for Razorpay's.)
RefundsAreOfRealPayments ==
    payment.refund_status = "refund_pending" => payment.provider = "razorpay"
=============================================================================
