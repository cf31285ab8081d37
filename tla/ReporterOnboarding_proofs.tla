---------------------- MODULE ReporterOnboarding_proofs ----------------------
(***************************************************************************)
(* Proofs about ReporterOnboarding, for any number of requests, orders and *)
(* references.                                                             *)
(*                                                                         *)
(* The argument: the two rows move in step (RowsAgree), an order is shown  *)
(* only once it is the recorded one, and a recorded order is never         *)
(* replaced (OrdersInv).  So a payment is always for the recorded order,   *)
(* and the application waits for it until its capture is booked.           *)
(***************************************************************************)
EXTENDS ReporterOnboarding, TLAPS

\* The states the two rows can be in together.
RowsAgree ==
    /\ payment.status = "none" =>
          /\ application.status \notin {"payment_pending"} \cup Decided
          /\ payment.provider = "razorpay"
    /\ payment.status \in {"order_creating", "order_created"} =>
          application.status = "payment_pending" /\ payment.provider = "razorpay"
    /\ payment.status = "captured" =>
          application.status \notin {"draft", "payment_pending"}
    /\ application.status \in {"rejected", "cancelled"}
          <=> payment.refund_status = "refund_pending"

\* An order that was shown is the recorded one; only such an order is paid,
\* and a captured payment is of a paid order, or the preview's.
OrdersInv ==
    /\ \A o \in shown :
          payment.order = o /\ payment.status \in {"order_created", "captured"}
    /\ paid \subseteq shown
    /\ payment.status = "captured" =>
          \/ payment.provider = "razorpay" /\ payment.order \in paid
          \/ payment.provider = "temporary" /\ payment.order = TemporaryOrder

\* What a request is about to store, the provider has given it.
RequestsInv ==
    /\ \A c \in Checkouts : checkout[c].pc = "complete" => checkout[c].order \in Orders
    /\ \A s \in Starts : start[s].pc = "complete" => start[s].reference \in References

IInv ==
    /\ TypeOK
    /\ RowsAgree
    /\ RequestsInv
    /\ OrdersInv
    /\ VerifiedInTheRecordedSession

-----------------------------------------------------------------------------
(* One lemma per group of actions.                                          *)

\* The rest of the invariant does not mention the requests, nor the leases.
LEMMA OnlyRequestsMove ==
    ASSUME IInv, TypeOK', RequestsInv',
           UNCHANGED <<shown, paid, results>>,
           payment'.status = payment.status, payment'.provider = payment.provider,
           payment'.order = payment.order, payment'.refund_status = payment.refund_status,
           application'.status = application.status,
           application'.kyc_status = application.kyc_status,
           application'.kyc_reference = application.kyc_reference
    PROVE  IInv'
BY DEF IInv, RowsAgree, OrdersInv, VerifiedInTheRecordedSession

\* The steps of a request for an order.
LEMMA CheckoutKeeps ==
    ASSUME IInv, NEW c \in Checkouts, CheckoutStep(c)
    PROVE  IInv'
<1> USE DEF IInv
<1>0. /\ application \in Application
      /\ payment \in Payment
      /\ checkout[c] \in CheckoutState
      /\ CheckoutIdle \in CheckoutState
  BY DEF TypeOK, CheckoutIdle, CheckoutState
<1>r. RequestsInv'
  <2>1. UNCHANGED start /\ \A d \in Checkouts : d # c => checkout'[d] = checkout[d]
    BY DEF TypeOK, CheckoutStep, ReserveOrder, FindOrder, CreateOrder, CheckoutStops,
       CompleteOrder
  <2>2. CASE FindOrder(c) \/ CreateOrder(c)
    <3>1. checkout'[c].pc = "complete" => checkout'[c].order \in Orders
      BY <2>2, <1>0 DEF FindOrder, CreateOrder, TypeOK, CheckoutState, CheckoutIdle
    <3> QED
      BY <2>1, <3>1 DEF RequestsInv
  <2>3. CASE ~(FindOrder(c) \/ CreateOrder(c))
    <3>1. checkout'[c].pc # "complete"
      BY <2>3, <1>0 DEF TypeOK, CheckoutState, CheckoutIdle, CheckoutStep, ReserveOrder,
         CheckoutStops, CompleteOrder
    <3> QED
      BY <2>1, <3>1 DEF RequestsInv
  <2> QED
    BY <2>2, <2>3
<1>1. CASE ReserveOrder(c)
  <2>1. payment.status \in {"none", "order_creating"}
    BY <1>1 DEF ReserveOrder
  <2>2. /\ payment'.status = "order_creating"
        /\ payment'.provider = "razorpay"
        /\ payment'.refund_status = payment.refund_status
        /\ application'.status = "payment_pending"
        /\ UNCHANGED <<razorpay, kyc, start>>
    BY <1>0, <1>1, <2>1 DEF ReserveOrder, Payment, Application, RowsAgree
  <2>3. TypeOK'
    <3>1. payment' \in Payment
      BY <1>0, <1>1 DEF ReserveOrder, Payment
    <3>2. application' \in Application
      BY <1>0, <1>1 DEF ReserveOrder, Application, Statuses
    <3>3. checkout' \in [Checkouts -> CheckoutState]
      BY <1>0, <1>1 DEF ReserveOrder, TypeOK, CheckoutState
    <3> QED
      BY <2>2, <3>1, <3>2, <3>3 DEF TypeOK, razorpay, kyc
  <2>4. shown = {}
    BY <2>1 DEF OrdersInv
  <2>5. OrdersInv'
    BY <2>2, <2>4 DEF OrdersInv, razorpay
  <2>6. RowsAgree'
    BY <1>1, <2>2 DEF RowsAgree, ReserveOrder, BeforePayment, Decided
  <2>7. VerifiedInTheRecordedSession'
    BY <1>0, <1>1, <2>2 DEF VerifiedInTheRecordedSession, ReserveOrder, Application, kyc
  <2> QED
    BY <1>r, <2>3, <2>5, <2>6, <2>7
<1>2. CASE FindOrder(c) \/ CreateOrder(c) \/ CheckoutStops(c)
  <2>1. /\ UNCHANGED <<application, payment, shown, paid, kyc, start>>
        /\ made' \subseteq Orders
        /\ checkout' \in [Checkouts -> CheckoutState]
    BY <1>0, <1>2 DEF FindOrder, CreateOrder, CheckoutStops, TypeOK, CheckoutState, razorpay
  <2>2. TypeOK'
    BY <2>1 DEF TypeOK, kyc
  <2> QED
    BY <1>r, <2>1, <2>2, OnlyRequestsMove DEF kyc
<1>3. CASE CompleteOrder(c)
  <2>1. checkout' \in [Checkouts -> CheckoutState]
    BY <1>0, <1>3 DEF CompleteOrder, TypeOK
  <2>2. CASE payment.status = "order_creating" /\ payment.token = c
    <3>1. /\ payment' = [payment EXCEPT !.status = "order_created",
                                        !.order = checkout[c].order,
                                        !.token = NoToken, !.live = FALSE]
          /\ shown' = shown \cup {checkout[c].order}
          /\ UNCHANGED <<application, made, paid, kyc, start>>
      BY <1>3, <2>2 DEF CompleteOrder
    <3>0. checkout[c].order \in Orders
      BY <1>3 DEF CompleteOrder, RequestsInv
    <3>2. /\ payment' \in Payment
          /\ payment'.status = "order_created"
          /\ payment'.order = checkout[c].order
          /\ payment'.provider = payment.provider
          /\ payment'.refund_status = payment.refund_status
      BY <1>0, <3>0, <3>1 DEF Payment
    <3>3. shown = {}
      BY <2>2 DEF OrdersInv
    <3>4. TypeOK'
      BY <2>1, <3>0, <3>1, <3>2, <3>3 DEF TypeOK, kyc
    <3>5. RowsAgree' /\ OrdersInv'
      BY <2>2, <3>1, <3>2, <3>3 DEF RowsAgree, OrdersInv
    <3> QED
      BY <1>r, <3>1, <3>4, <3>5 DEF VerifiedInTheRecordedSession, kyc
  <2>3. CASE ~(payment.status = "order_creating" /\ payment.token = c)
    <3>1. UNCHANGED <<application, payment, razorpay, kyc, start>>
      BY <1>3, <2>3 DEF CompleteOrder, razorpay
    <3>2. TypeOK'
      BY <2>1, <3>1 DEF TypeOK, razorpay, kyc
    <3> QED
      BY <1>r, <3>1, <3>2, OnlyRequestsMove DEF razorpay, kyc
  <2> QED
    BY <2>2, <2>3
<1> QED
  BY <1>1, <1>2, <1>3 DEF CheckoutStep

\* The applicant's payment and its confirmations, real, dummy or waived.
LEMMA PaymentKeeps ==
    ASSUME IInv,
           \/ \E o \in Orders : PayOrder(o) \/ CapturePayment(o)
           \/ TemporaryPayment \/ WaivePayment
    PROVE  IInv'
<1> USE DEF IInv
<1>0. application \in Application /\ payment \in Payment
  BY DEF TypeOK
<1>r. RequestsInv'
  BY DEF RequestsInv, PayOrder, CapturePayment, TemporaryPayment, WaivePayment
<1>1. ASSUME NEW o \in Orders, PayOrder(o) PROVE IInv'
  <2>1. /\ o \in shown
        /\ paid' = paid \cup {o}
        /\ UNCHANGED <<application, payment, made, shown, kyc, checkout, start>>
    BY <1>1 DEF PayOrder
  <2>2. TypeOK'
    BY <2>1 DEF TypeOK, kyc
  <2>3. RowsAgree' /\ OrdersInv'
    BY <2>1 DEF RowsAgree, OrdersInv
  <2> QED
    BY <1>r, <2>1, <2>2, <2>3 DEF VerifiedInTheRecordedSession, kyc
<1>2. ASSUME NEW o \in Orders, CapturePayment(o) PROVE IInv'
  <2>1. /\ payment' \in Payment
        /\ payment'.status = "captured"
        /\ payment'.order = o
        /\ payment'.provider = "razorpay"
        /\ payment'.refund_status = payment.refund_status
    BY <1>0, <1>2 DEF CapturePayment, Payment, RowsAgree
  <2>2. /\ application' \in Application
        /\ application'.status = "kyc_pending"
        /\ application'.kyc_status = application.kyc_status
        /\ application'.kyc_reference = application.kyc_reference
    BY <1>0, <1>2 DEF CapturePayment, Application, Statuses
  <2>3. o \in paid /\ payment.order = o /\ application.status = "payment_pending"
             /\ UNCHANGED <<razorpay, kyc, checkout, start>>
    BY <1>2 DEF CapturePayment
  <2>4. TypeOK'
    BY <2>1, <2>2, <2>3 DEF TypeOK, razorpay, kyc
  <2>5. RowsAgree' /\ OrdersInv'
    BY <2>1, <2>2, <2>3 DEF RowsAgree, OrdersInv, razorpay
  <2> QED
    BY <1>r, <2>2, <2>3, <2>4, <2>5 DEF VerifiedInTheRecordedSession, kyc
<1>3. CASE TemporaryPayment
  <2>1. /\ payment' \in Payment
        /\ payment'.status = "captured"
        /\ payment'.order = TemporaryOrder
        /\ payment'.provider = "temporary"
        /\ payment'.refund_status = payment.refund_status
    BY <1>0, <1>3 DEF TemporaryPayment, Payment
  <2>2. /\ application' \in Application
        /\ application'.status = "kyc_pending"
        /\ application'.kyc_status = application.kyc_status
        /\ application'.kyc_reference = application.kyc_reference
    BY <1>0, <1>3 DEF TemporaryPayment, Application, Statuses
  <2>3. /\ payment.status = "none"
        /\ BeforePayment
        /\ UNCHANGED <<razorpay, kyc, checkout, start>>
    BY <1>3 DEF TemporaryPayment
  <2>4. TypeOK'
    BY <2>1, <2>2, <2>3 DEF TypeOK, razorpay, kyc
  <2>5. shown = {}
    BY <2>3 DEF OrdersInv
  <2>6. RowsAgree' /\ OrdersInv'
    BY <2>1, <2>2, <2>3, <2>5 DEF RowsAgree, OrdersInv, razorpay, BeforePayment
  <2> QED
    BY <1>r, <2>2, <2>3, <2>4, <2>6 DEF VerifiedInTheRecordedSession, kyc
<1>4. CASE WaivePayment
  <2>1. /\ application' \in Application
        /\ application'.status = "kyc_pending"
        /\ application'.kyc_status = application.kyc_status
        /\ application'.kyc_reference = application.kyc_reference
    BY <1>0, <1>4 DEF WaivePayment, Application, Statuses
  <2>2. /\ payment.status = "none"
        /\ BeforePayment
        /\ UNCHANGED <<payment, razorpay, kyc, checkout, start>>
    BY <1>4 DEF WaivePayment
  <2>3. TypeOK'
    BY <2>1, <2>2 DEF TypeOK, razorpay, kyc
  <2>4. RowsAgree' /\ OrdersInv'
    BY <2>1, <2>2 DEF RowsAgree, OrdersInv, razorpay, BeforePayment, Decided
  <2> QED
    BY <1>r, <2>1, <2>2, <2>3, <2>4 DEF VerifiedInTheRecordedSession, kyc
<1> QED
  BY <1>1, <1>2, <1>3, <1>4

\* The steps of a request to start an identity check.
LEMMA StartKeeps ==
    ASSUME IInv, NEW s \in Starts, StartStep(s)
    PROVE  IInv'
<1> USE DEF IInv
<1>0. /\ application \in Application
      /\ start[s] \in StartState
      /\ StartIdle \in StartState
  BY DEF TypeOK, StartIdle, StartState
<1>r. RequestsInv'
  <2>1. UNCHANGED checkout /\ \A t \in Starts : t # s => start'[t] = start[t]
    BY DEF TypeOK, StartStep, ReserveKycStart, CreateSession, CompleteKycStart,
       ReleaseKycStart, StartStops, kyc
  <2>2. CASE CreateSession(s)
    <3>1. start'[s].pc = "complete" => start'[s].reference \in References
      BY <2>2, <1>0 DEF CreateSession, TypeOK, StartState
    <3> QED
      BY <2>1, <3>1 DEF RequestsInv
  <2>3. CASE ~CreateSession(s)
    <3>1. start'[s].pc # "complete"
      BY <2>3, <1>0 DEF TypeOK, StartState, StartIdle, StartStep, ReserveKycStart,
         CompleteKycStart, ReleaseKycStart, StartStops
    <3> QED
      BY <2>1, <3>1 DEF RequestsInv
  <2> QED
    BY <2>2, <2>3
<1>1. CASE ReserveKycStart(s) \/ ReleaseKycStart(s)
  <2>1. /\ application' \in Application
        /\ application'.status = application.status
        /\ application'.kyc_status = application.kyc_status
        /\ application'.kyc_reference = application.kyc_reference
    BY <1>0, <1>1 DEF ReserveKycStart, ReleaseKycStart, Application
  <2>2. /\ start' \in [Starts -> StartState]
        /\ UNCHANGED <<payment, razorpay, kyc, checkout>>
    BY <1>0, <1>1 DEF ReserveKycStart, ReleaseKycStart, TypeOK, StartState
  <2>3. TypeOK'
    BY <2>1, <2>2 DEF TypeOK, razorpay, kyc
  <2> QED
    BY <1>r, <2>1, <2>2, <2>3, OnlyRequestsMove DEF razorpay, kyc
<1>2. CASE CreateSession(s) \/ StartStops(s)
  <2>1. /\ UNCHANGED <<application, payment, razorpay, sent, results, processed, checkout>>
        /\ sessions' \subseteq References
        /\ start' \in [Starts -> StartState]
    BY <1>0, <1>2 DEF CreateSession, StartStops, TypeOK, StartState, kyc
  <2>2. TypeOK'
    BY <2>1 DEF TypeOK, razorpay
  <2> QED
    BY <1>r, <2>1, <2>2, OnlyRequestsMove DEF razorpay
<1>3. CASE CompleteKycStart(s)
  <2>1. /\ start[s].reference \in References
        /\ start' \in [Starts -> StartState]
        /\ UNCHANGED <<payment, razorpay, sessions, results, processed, checkout>>
    BY <1>0, <1>3 DEF CompleteKycStart, TypeOK, StartState, RequestsInv
  <2>2. /\ application' \in Application
        /\ application'.status = application.status
        /\ \/ application' = application
           \/ application'.kyc_status = "pending"
        /\ sent' \subseteq References
    <3>1. CASE UNCHANGED <<application, sent>>
      BY <1>0, <3>1 DEF TypeOK
    <3>2. CASE /\ application' = [application EXCEPT
                                    !.kyc_reference = start[s].reference,
                                    !.kyc_status = "pending",
                                    !.kyc_start_token = NoToken, !.live = FALSE]
               /\ sent' = sent \cup {start[s].reference}
      BY <1>0, <2>1, <3>2 DEF Application, TypeOK
    <3> QED
      BY <1>3, <3>1, <3>2 DEF CompleteKycStart
  <2>3. TypeOK'
    BY <2>1, <2>2 DEF TypeOK, razorpay
  <2>4. RowsAgree' /\ OrdersInv'
    BY <2>1, <2>2 DEF RowsAgree, OrdersInv, razorpay
  <2> QED
    BY <1>r, <2>1, <2>2, <2>3, <2>4 DEF VerifiedInTheRecordedSession
<1> QED
  BY <1>1, <1>2, <1>3 DEF StartStep

\* The identity provider's results.
LEMMA ResultKeeps ==
    ASSUME IInv,
           \/ \E r \in References : CheckIdentity(r)
           \/ \E e \in Results : DeliverResult(e)
    PROVE  IInv'
<1> USE DEF IInv
<1>1. ASSUME NEW r \in References, CheckIdentity(r) PROVE IInv'
  <2>1. PICK outcome \in {"verified", "failed"} : results' = results \cup {<<r, outcome>>}
    BY <1>1 DEF CheckIdentity
  <2>2. UNCHANGED <<application, payment, razorpay, sessions, sent, processed, checkout, start>>
    BY <1>1 DEF CheckIdentity
  <2>3. TypeOK' /\ RequestsInv'
    BY <2>1, <2>2 DEF TypeOK, RequestsInv, Results, razorpay
  <2>4. RowsAgree' /\ OrdersInv' /\ VerifiedInTheRecordedSession'
    BY <2>1, <2>2 DEF RowsAgree, OrdersInv, VerifiedInTheRecordedSession, razorpay
  <2> QED
    BY <2>3, <2>4
<1>2. ASSUME NEW e \in Results, DeliverResult(e) PROVE IInv'
  <2>1. PICK r \in References, outcome \in {"verified", "failed"} : e = <<r, outcome>>
    BY DEF Results
  <2>2. /\ e \in results
        /\ application.kyc_reference = r
        /\ application.status = "kyc_pending"
        /\ application' = [application EXCEPT
                             !.status = StatusAfter(outcome),
                             !.kyc_status = outcome,
                             !.kyc_start_token = NoToken, !.live = FALSE]
        /\ processed' = processed \cup {e}
        /\ UNCHANGED <<payment, razorpay, sessions, sent, results, checkout, start>>
    BY <1>2, <2>1 DEF DeliverResult, Matches, AcceptsResult
  <2>3. /\ application' \in Application
        /\ application'.status \in {"under_review", "kyc_pending"}
        /\ application'.kyc_status = outcome
        /\ application'.kyc_reference = r
    BY <2>1, <2>2 DEF TypeOK, Application, Statuses, StatusAfter
  <2>4. TypeOK' /\ RequestsInv'
    BY <2>2, <2>3 DEF TypeOK, RequestsInv, razorpay
  <2>5. RowsAgree' /\ OrdersInv'
    BY <2>2, <2>3 DEF RowsAgree, OrdersInv, razorpay, Decided
  <2>6. VerifiedInTheRecordedSession'
    BY <2>1, <2>2, <2>3 DEF VerifiedInTheRecordedSession
  <2> QED
    BY <2>4, <2>5, <2>6
<1> QED
  BY <1>1, <1>2

\* The decisions about the application.
LEMMA DecisionKeeps ==
    ASSUME IInv, Approve \/ TemporaryApproval \/ Reject \/ MarkOverdue
    PROVE  IInv'
<1> USE DEF IInv
<1>1. application \in Application /\ payment \in Payment
  BY DEF TypeOK
<1>2. /\ payment.status = "captured"
      /\ payment.refund_status = "not_eligible"
      /\ UNCHANGED <<razorpay, kyc, checkout, start>>
  BY DEF Approve, TemporaryApproval, Reject, MarkOverdue, FeeIsHeld
<1>3. /\ application' \in Application
      /\ application'.status \in Decided
      /\ \/ application'.kyc_reference = TemporaryReference
         \/ /\ application'.kyc_status = application.kyc_status
            /\ application'.kyc_reference = application.kyc_reference
  BY <1>1 DEF Approve, TemporaryApproval, Reject, MarkOverdue, Application, Statuses, Decided
<1>4. /\ payment' \in Payment
      /\ payment'.status = payment.status
      /\ payment'.provider = payment.provider
      /\ payment'.order = payment.order
      /\ payment'.refund_status = "refund_pending"
            <=> application'.status \in {"rejected", "cancelled"}
  BY <1>1, <1>2 DEF Approve, TemporaryApproval, Reject, MarkOverdue, Payment, Application
<1>5. TypeOK' /\ RequestsInv'
  BY <1>2, <1>3, <1>4 DEF TypeOK, RequestsInv, razorpay, kyc
<1>6. RowsAgree' /\ OrdersInv'
  BY <1>2, <1>3, <1>4 DEF RowsAgree, OrdersInv, razorpay, Decided
<1>7. VerifiedInTheRecordedSession'
  BY <1>2, <1>3 DEF VerifiedInTheRecordedSession, kyc
<1> QED
  BY <1>5, <1>6, <1>7

\* The clock.
LEMMA ClockKeeps ==
    ASSUME IInv, OrderLeaseLapses \/ StartLeaseLapses \/ DeadlinePasses
    PROVE  IInv'
<1> USE DEF IInv
<1>1. application \in Application /\ payment \in Payment
  BY DEF TypeOK
<1>2. UNCHANGED <<razorpay, kyc, checkout, start>>
  BY DEF OrderLeaseLapses, StartLeaseLapses, DeadlinePasses
<1>3. /\ application' \in Application
      /\ application'.status = application.status
      /\ application'.kyc_status = application.kyc_status
      /\ application'.kyc_reference = application.kyc_reference
  BY <1>1 DEF OrderLeaseLapses, StartLeaseLapses, DeadlinePasses, Application
<1>4. /\ payment' \in Payment
      /\ payment'.status = payment.status
      /\ payment'.provider = payment.provider
      /\ payment'.order = payment.order
      /\ payment'.refund_status = payment.refund_status
  BY <1>1 DEF OrderLeaseLapses, StartLeaseLapses, DeadlinePasses, Payment
<1>5. TypeOK' /\ RequestsInv'
  BY <1>2, <1>3, <1>4 DEF TypeOK, RequestsInv, razorpay, kyc
<1> QED
  BY <1>2, <1>3, <1>4, <1>5, OnlyRequestsMove DEF razorpay, kyc

-----------------------------------------------------------------------------
(* The theorems.                                                            *)

\* The invariant holds in the initial state.
LEMMA Initially == Init => IInv
<1> SUFFICES ASSUME Init PROVE IInv
  OBVIOUS
<1>1. TypeOK
  BY DEF Init, TypeOK, Application, Payment, Statuses, CheckoutState, StartState,
     CheckoutIdle, StartIdle
<1>2. RowsAgree /\ OrdersInv /\ RequestsInv /\ VerifiedInTheRecordedSession
  BY DEF Init, RowsAgree, OrdersInv, RequestsInv, VerifiedInTheRecordedSession, Decided,
     CheckoutIdle, StartIdle
<1> QED
  BY <1>1, <1>2 DEF IInv

\* Every step keeps the invariant.
LEMMA Inductive == IInv /\ [Next]_vars => IInv'
<1> SUFFICES ASSUME IInv, [Next]_vars PROVE IInv'
  OBVIOUS
<1>1. ASSUME NEW c \in Checkouts, CheckoutStep(c) PROVE IInv'
  BY <1>1, CheckoutKeeps
<1>2. ASSUME NEW s \in Starts, StartStep(s) PROVE IInv'
  BY <1>2, StartKeeps
<1>3. CASE UNCHANGED vars
  BY <1>3 DEF IInv, TypeOK, RowsAgree, OrdersInv, RequestsInv,
     VerifiedInTheRecordedSession, vars, razorpay, kyc
<1> QED
  BY <1>1, <1>2, <1>3, PaymentKeeps, ResultKeeps, DecisionKeeps, ClockKeeps DEF Next

\* The inductive invariant is an invariant.
THEOREM Invariance == Spec => []IInv
  BY Initially, Inductive, PTL DEF Spec

\* The variables stay within their types.
THEOREM TypeCorrect == Spec => []TypeOK
<1>1. IInv => TypeOK
  BY DEF IInv
<1> QED
  BY <1>1, Invariance, PTL

\* Money is only ever taken for the recorded order, whose application waits
\* for it.
THEOREM MoneyIsBooked == Spec => []PaidOrderCanBeBooked
<1>1. IInv => PaidOrderCanBeBooked
  BY DEF IInv, OrdersInv, RowsAgree, PaidOrderCanBeBooked
<1> QED
  BY <1>1, Invariance, PTL

\* The fee goes back exactly with a rejection or a cancellation.
THEOREM FeeAndDecisionAgree == Spec => []FeeFollowsTheDecision
<1>1. IInv => FeeFollowsTheDecision
  BY DEF IInv, TypeOK, Payment, RowsAgree, FeeFollowsTheDecision, Decided
<1> QED
  BY <1>1, Invariance, PTL

\* An identity counts as verified by the recorded session only.
THEOREM IdentityIsVerified == Spec => []VerifiedInTheRecordedSession
<1>1. IInv => VerifiedInTheRecordedSession
  BY DEF IInv
<1> QED
  BY <1>1, Invariance, PTL

\* A decided application stays as it was decided.
THEOREM DecisionStands == Spec => DecisionIsFinal
<1>1. ASSUME IInv, [Next]_vars, application.status \in Decided
      PROVE  /\ application'.status = application.status
             /\ application'.kyc_status = application.kyc_status
             /\ application'.kyc_reference = application.kyc_reference
  <2> USE <1>1 DEF Decided
  <2>0. application \in Application
    BY DEF IInv, TypeOK
  <2>1. ASSUME NEW c \in Checkouts, CheckoutStep(c) PROVE application' = application
    BY <2>1 DEF CheckoutStep, ReserveOrder, BeforePayment, FindOrder, CreateOrder,
       CompleteOrder, CheckoutStops
  <2>2. ASSUME NEW o \in Orders, PayOrder(o) \/ CapturePayment(o)
        PROVE  application' = application
    BY <2>2 DEF PayOrder, CapturePayment
  <2>3. ASSUME NEW s \in Starts, StartStep(s) PROVE application' = application
    BY <2>3 DEF StartStep, ReserveKycStart, CreateSession, CompleteKycStart,
       ReleaseKycStart, StartStops
  <2>4. ASSUME NEW r \in References, CheckIdentity(r) PROVE application' = application
    BY <2>4 DEF CheckIdentity
  <2>5. ASSUME NEW e \in Results, DeliverResult(e) PROVE FALSE
    BY <2>5 DEF DeliverResult, AcceptsResult
  <2>6. ~(TemporaryPayment \/ WaivePayment \/ Approve \/ TemporaryApproval
            \/ Reject \/ MarkOverdue)
    BY DEF TemporaryPayment, WaivePayment, BeforePayment, Approve, TemporaryApproval,
       Reject, MarkOverdue, Overdue
  <2>7. CASE OrderLeaseLapses \/ StartLeaseLapses \/ DeadlinePasses
    BY <2>0, <2>7 DEF OrderLeaseLapses, StartLeaseLapses, DeadlinePasses, Application
  <2>8. CASE UNCHANGED vars
    BY <2>8 DEF vars
  <2> QED
    BY <2>1, <2>2, <2>3, <2>4, <2>5, <2>6, <2>7, <2>8 DEF Next
<1>2. IInv /\ [Next]_vars =>
        [application.status \in Decided =>
            /\ application'.status = application.status
            /\ application'.kyc_status = application.kyc_status
            /\ application'.kyc_reference = application.kyc_reference]_vars
  BY <1>1
<1> QED
  BY <1>2, Invariance, PTL DEF Spec, DecisionIsFinal

\* The fee a captured or waiting payment stands for, as the promise sees it.
Fee == IF paid = {} THEN "unpaid"
       ELSE IF application.status = "approved" THEN "earned"
       ELSE IF payment.refund_status = "refund_pending" THEN "returning"
       ELSE "held"

\* The onboarding implements the promise about the fee.
THEOREM ImplementsPromise == Spec => KeepsTheFeePromise
<1>1. Init => Promise!Init
  BY DEF Init, Promise!Init
<1>2. ASSUME IInv, [Next]_vars PROVE [Promise!Next]_Fee
  <2> USE <1>2
  <2>0. application \in Application /\ payment \in Payment
    BY DEF IInv, TypeOK
  <2>1. ASSUME NEW o \in Orders, PayOrder(o) PROVE [Promise!Next]_Fee
    <3>1. /\ o \in shown /\ o \notin paid
          /\ paid' = paid \cup {o}
          /\ UNCHANGED <<application, payment>>
      BY <2>1 DEF PayOrder
    <3>2. paid = {} /\ payment.status = "order_created"
      BY <2>0, <3>1, IdsDiffer DEF IInv, OrdersInv
    <3>3. application.status = "payment_pending" /\ payment.refund_status # "refund_pending"
      BY <3>2 DEF IInv, RowsAgree
    <3> QED
      BY <3>1, <3>2, <3>3 DEF Fee, Promise!Next, Promise!Take
  <2>2. CASE Approve \/ Reject \/ MarkOverdue
    <3>1. /\ application.status # "approved"
          /\ payment.refund_status = "not_eligible"
          /\ paid' = paid
      BY <2>2 DEF Approve, Reject, MarkOverdue, Overdue, FeeIsHeld, razorpay
    <3>2. \/ application'.status = "approved" /\ payment' = payment
          \/ application'.status # "approved" /\ payment'.refund_status = "refund_pending"
      BY <2>0, <2>2 DEF Approve, Reject, MarkOverdue, Application, Payment
    <3> QED
      BY <3>1, <3>2 DEF Fee, Promise!Next, Promise!Earn, Promise!Return
  <2>3. CASE TemporaryApproval
    <3>1. payment.order = TemporaryOrder
      BY <2>3 DEF TemporaryApproval, FeeIsHeld, IInv, OrdersInv
    <3>2. paid = {} /\ paid' = {}
      BY <2>3, <3>1, IdsDiffer DEF TemporaryApproval, IInv, OrdersInv, TypeOK, razorpay
    <3> QED
      BY <3>2 DEF Fee
  <2>4. ASSUME /\ paid' = paid
               /\ payment'.refund_status = payment.refund_status
               /\ application'.status = "approved" <=> application.status = "approved"
        PROVE  Fee' = Fee
    BY <2>4 DEF Fee
  <2>5. ASSUME NEW c \in Checkouts, CheckoutStep(c) PROVE Fee' = Fee
    BY <2>0, <2>4, <2>5 DEF CheckoutStep, ReserveOrder, BeforePayment, FindOrder, CreateOrder,
       CompleteOrder, CheckoutStops, Payment, Application, razorpay
  <2>6. ASSUME NEW o \in Orders, CapturePayment(o) PROVE Fee' = Fee
    BY <2>0, <2>4, <2>6 DEF CapturePayment, Payment, Application, razorpay
  <2>7. CASE TemporaryPayment \/ WaivePayment
    BY <2>0, <2>4, <2>7 DEF TemporaryPayment, WaivePayment, BeforePayment, Payment,
       Application, razorpay
  <2>8. ASSUME NEW s \in Starts, StartStep(s) PROVE Fee' = Fee
    BY <2>0, <2>4, <2>8 DEF StartStep, ReserveKycStart, CreateSession, CompleteKycStart,
       ReleaseKycStart, StartStops, Application, razorpay
  <2>9. ASSUME NEW r \in References, CheckIdentity(r) PROVE Fee' = Fee
    BY <2>4, <2>9 DEF CheckIdentity, razorpay
  <2>10. ASSUME NEW e \in Results, DeliverResult(e) PROVE Fee' = Fee
    BY <2>0, <2>4, <2>10 DEF DeliverResult, AcceptsResult, StatusAfter, Application, razorpay
  <2>11. CASE OrderLeaseLapses \/ StartLeaseLapses \/ DeadlinePasses
    BY <2>0, <2>4, <2>11 DEF OrderLeaseLapses, StartLeaseLapses, DeadlinePasses,
       Application, Payment, razorpay
  <2>12. CASE UNCHANGED vars
    BY <2>4, <2>12 DEF vars, razorpay
  <2> QED
    BY <2>1, <2>2, <2>3, <2>5, <2>6, <2>7, <2>8, <2>9, <2>10, <2>11, <2>12 DEF Next
<1> QED
  BY <1>1, <1>2, Invariance, PTL DEF Spec, KeepsTheFeePromise, Promise!Spec, Fee
=============================================================================
