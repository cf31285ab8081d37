--------------------------- MODULE ReporterRefund ---------------------------
(***************************************************************************)
(* Giving back one captured application fee.                               *)
(*                                                                         *)
(* One row of reporter_payments, the refunds the payment provider          *)
(* (Razorpay) holds for it, and everybody who works on the row:            *)
(*   - administrators who press "refund" in the CMS                        *)
(*     (cms/.../reporter-refund.service.ts);                               *)
(*   - runs of the scheduled lifecycle job                                 *)
(*     (reporter/.../lifecycle.service.ts);                                *)
(*   - handlers of the provider's signed webhooks                          *)
(*     (reporter/.../payment.service.ts, processRazorpayEvent).            *)
(* Each database function runs in one transaction under a row lock and is  *)
(* one action; each provider call is one action; whatever happens between  *)
(* two of them is an interleaving.  Any worker may stop between two steps. *)
(*                                                                         *)
(* Time is abstract.  "The lease is live" stands for reserved_at being     *)
(* less than five minutes old, and refund_retry_ready_at is null, later    *)
(* (in the future) or due; the clock moves by actions of its own.          *)
(*                                                                         *)
(* The worker that holds a lease is identified with the token it drew: a   *)
(* worker holds at most one reservation, and a reservation it lost is gone *)
(* with its stack, so the name of the worker is as good as the fresh uuid. *)
(***************************************************************************)
EXTENDS Naturals, FiniteSets

CONSTANTS Admins,       \* administrators' requests
          Crons,        \* runs of the lifecycle job
          Handlers,     \* webhook deliveries being handled
          RefundIds,    \* ids the provider may give to refunds
          NoRefund,     \* razorpay_refund_id is null
          NoToken,      \* refund_request_token is null
          MaxAttempts   \* bound: refund attempts explored

ASSUME WorkersDiffer ==
    /\ Admins \cap Crons = {}
    /\ NoToken \notin Admins \cup Crons \cup Handlers
    /\ NoRefund \notin RefundIds
ASSUME MaxAttemptsIsPositive == MaxAttempts \in Nat \ {0}

Workers  == Admins \cup Crons
Attempts == 1..MaxAttempts

VARIABLES
    refund_status,        \* reporter_payments.refund_status
    razorpay_refund_id,   \* the provider refund recorded for this attempt
    refund_request_token, \* who holds the reservation
    leaseLive,            \* refund_request_reserved_at within five minutes
    refund_attempt_count,
    refund_retry_ready,   \* refund_retry_ready_at: "null", "later" or "due"
    provider,             \* the provider's refunds, by id
    event,                \* webhook_events rows, by the refund they are about
    worker,               \* where each administrator or lifecycle run is
    handler               \* where each webhook delivery is

payment  == <<refund_status, razorpay_refund_id, refund_request_token,
              leaseLive, refund_attempt_count, refund_retry_ready>>
vars     == <<payment, provider, event, worker, handler>>

RefundStatuses == {"not_eligible", "refund_pending", "refund_failed", "refunded"}
ProviderStates == {"absent", "pending", "processed", "failed"}
WorkerSteps    == {"idle", "find", "create", "record",
                   "fetch", "reconcile_processed", "reconcile_failed", "postpone"}

\* attempt is the receipt (and the idempotency key) a refund was created under.
ProviderRefund == [state : ProviderStates, attempt : 0..MaxAttempts]
EventRow  == [status : {"absent", "pending", "failed", "processed"},
              token : Handlers \cup {NoToken}, live : BOOLEAN]
WorkerState  == [pc : WorkerSteps, attempt : 0..MaxAttempts,
                 refund : RefundIds \cup {NoRefund}]
HandlerState == [pc : {"idle", "complete", "fail"}, refund : RefundIds \cup {NoRefund}]

Idle        == [pc |-> "idle", attempt |-> 0, refund |-> NoRefund]
HandlerIdle == [pc |-> "idle", refund |-> NoRefund]

Exists(r)  == provider[r].state # "absent"
Settled(r) == provider[r].state \in {"processed", "failed"}
\* Mutant: a reservation, once made, is never taken over.
LeaseNeverLapses == refund_request_token = NoToken
LeaseFree  == refund_request_token = NoToken \/ ~leaseLive
Failed     == refund_status = "refund_failed"
Pending    == refund_status = "refund_pending"

Init ==
    /\ refund_status = "not_eligible"
    /\ razorpay_refund_id = NoRefund
    /\ refund_request_token = NoToken
    /\ leaseLive = FALSE
    /\ refund_attempt_count = 0
    /\ refund_retry_ready = "null"
    /\ provider = [r \in RefundIds |-> [state |-> "absent", attempt |-> 0]]
    /\ event = [r \in RefundIds |->
                  [status |-> "absent", token |-> NoToken, live |-> FALSE]]
    /\ worker = [w \in Workers |-> Idle]
    /\ handler = [h \in Handlers |-> HandlerIdle]

-----------------------------------------------------------------------------
(* The fee becomes refundable and is reserved for one refund attempt.       *)

\* reject_reporter_application and mark_overdue_reporter_application queue
\* the refund of a captured payment that was not refundable before.
QueueRefund ==
    /\ refund_status = "not_eligible"
    /\ refund_status' = "refund_pending"
    /\ UNCHANGED <<razorpay_refund_id, refund_request_token, leaseLive,
                   refund_attempt_count, refund_retry_ready,
                   provider, event, worker, handler>>

\* Mutant: every request of an administrator is an attempt of its own.
AdminAttemptAlwaysNew == refund_attempt_count + 1

\* The attempt an administrator's reservation works on: a new one when there
\* was none or the last one failed, otherwise the one already under way.
AdminAttempt ==
    IF refund_attempt_count = 0 \/ Failed
    THEN refund_attempt_count + 1 ELSE refund_attempt_count

\* The same choice as claim_reporter_lifecycle writes it.
LifecycleAttempt ==
    IF Pending /\ refund_attempt_count > 0
    THEN refund_attempt_count ELSE refund_attempt_count + 1

\* reserve_reporter_refund, called first by requestFullRefund.  The other
\* answers (processed, invalid, pending, busy) change nothing.
ReserveRefund(w) ==
    /\ w \in Admins
    /\ worker[w].pc = "idle"
    /\ Failed \/ (Pending /\ razorpay_refund_id = NoRefund)
    /\ LeaseFree
    /\ AdminAttempt \in Attempts
    /\ refund_status' = "refund_pending"
    /\ razorpay_refund_id' = NoRefund
    /\ refund_request_token' = w
    /\ leaseLive' = TRUE
    /\ refund_attempt_count' = AdminAttempt
    /\ worker' = [worker EXCEPT ![w] =
                    [pc |-> "find", attempt |-> AdminAttempt, refund |-> NoRefund]]
    /\ UNCHANGED <<refund_retry_ready, provider, event, handler>>

\* The refund branch of claim_reporter_lifecycle.  A refund already recorded
\* is fetched; otherwise it is looked up or created.
ClaimRefund(w) ==
    LET known == IF Failed THEN NoRefund ELSE razorpay_refund_id
    IN  /\ w \in Crons
        /\ worker[w].pc = "idle"
        /\ Failed \/ Pending
        /\ refund_retry_ready # "later"
        /\ LeaseFree
        /\ LifecycleAttempt \in Attempts
        /\ refund_status' = "refund_pending"
        /\ razorpay_refund_id' = known
        /\ refund_request_token' = w
        /\ leaseLive' = TRUE
        /\ refund_attempt_count' = LifecycleAttempt
        /\ refund_retry_ready' = "null"
        /\ worker' = [worker EXCEPT ![w] =
                        [pc |-> IF known = NoRefund THEN "find" ELSE "fetch",
                         attempt |-> LifecycleAttempt, refund |-> known]]
        /\ UNCHANGED <<provider, event, handler>>

-----------------------------------------------------------------------------
(* Calls to the provider.                                                   *)

\* The refunds of this payment that carry the attempt's receipt.
Matches(attempt) == {r \in RefundIds : Exists(r) /\ provider[r].attempt = attempt}

ToRecord(w, r) == [pc |-> "record", attempt |-> worker[w].attempt, refund |-> r]

\* An administrator's request refuses a refund that has failed
\* (assertExactRefund throws); the lifecycle job records any state.
AfterProviderAnswer(w, r) ==
    IF w \in Admins /\ provider[r].state = "failed"
    THEN Idle
    ELSE ToRecord(w, r)

\* findRefundByReceipt: none, exactly one, or an error when there are more.
FindRefund(w) ==
    /\ worker[w].pc = "find"
    /\ \/ /\ Matches(worker[w].attempt) = {}
          /\ worker' = [worker EXCEPT ![w].pc = "create"]
       \/ \E r \in RefundIds :
             /\ Matches(worker[w].attempt) = {r}
             /\ worker' = [worker EXCEPT ![w] = AfterProviderAnswer(w, r)]
    /\ UNCHANGED <<payment, provider, event, handler>>

\* createFullRefund.  The idempotency key is derived from the attempt: the
\* provider answers a known key with the refund it made for it, and makes a
\* refund otherwise.  It is not assumed to refuse a second full refund.
CreateRefund(w) ==
    LET attempt == worker[w].attempt
    IN  /\ worker[w].pc = "create"
        /\ \/ \E r \in Matches(attempt) :
                 /\ worker' = [worker EXCEPT ![w] = AfterProviderAnswer(w, r)]
                 /\ UNCHANGED provider
           \/ \E r \in RefundIds :
                 /\ Matches(attempt) = {}
                 /\ ~Exists(r)
                 /\ provider' = [provider EXCEPT ![r] =
                                   [state |-> "pending", attempt |-> attempt]]
                 /\ worker' = [worker EXCEPT ![w] = ToRecord(w, r)]
        /\ UNCHANGED <<payment, event, handler>>

\* What a failed provider call leaves behind.  Every network or HTTP error is
\* indefinite (definite = false): the administrator's request just ends, the
\* lifecycle job postpones the attempt; both keep the reservation.
AfterProviderError(w) ==
    IF w \in Admins THEN Idle ELSE [worker[w] EXCEPT !.pc = "postpone"]

\* The call is lost, or the provider refuses it.
ProviderCallFails(w) ==
    /\ worker[w].pc \in {"find", "create", "fetch"}
    /\ worker' = [worker EXCEPT ![w] = AfterProviderError(w)]
    /\ UNCHANGED <<payment, provider, event, handler>>

\* The provider makes the refund, and the answer is lost.
CreateReplyLost(w) ==
    /\ worker[w].pc = "create"
    /\ Matches(worker[w].attempt) = {}
    /\ \E r \in RefundIds :
          /\ ~Exists(r)
          /\ provider' = [provider EXCEPT ![r] =
                            [state |-> "pending", attempt |-> worker[w].attempt]]
    /\ worker' = [worker EXCEPT ![w] = AfterProviderError(w)]
    /\ UNCHANGED <<payment, event, handler>>

\* fetchRefund of the recorded refund, compared with the attempt's receipt
\* (exactRefund) before its state is believed.
FetchRefund(w) ==
    LET r == worker[w].refund
        believed == provider[r].attempt = worker[w].attempt /\ Settled(r)
    IN  /\ worker[w].pc = "fetch"
        /\ worker' = [worker EXCEPT ![w].pc =
                        IF ~believed THEN "postpone"
                        ELSE IF provider[r].state = "processed"
                             THEN "reconcile_processed" ELSE "reconcile_failed"]
        /\ UNCHANGED <<payment, provider, event, handler>>

-----------------------------------------------------------------------------
(* What the workers write back.  A writer whose reservation was taken over  *)
(* finds another token and changes nothing.                                 *)

Done(w) == worker' = [worker EXCEPT ![w] = Idle]

\* record_reporter_refund_request: the answer is stored with this attempt.
RecordRefundRequest(w) ==
    /\ worker[w].pc = "record"
    /\ Done(w)
    /\ IF Pending /\ refund_request_token = w /\ razorpay_refund_id = NoRefund
       THEN /\ razorpay_refund_id' = worker[w].refund
            /\ refund_request_token' = NoToken
            /\ leaseLive' = FALSE
            /\ refund_retry_ready' = "later"
            /\ UNCHANGED <<refund_status, refund_attempt_count>>
       ELSE UNCHANGED payment
    /\ UNCHANGED <<provider, event, handler>>

\* reconcile_reporter_refund: the fetched outcome becomes the payment's, if
\* it is about the recorded refund and this attempt and the lease is ours.
ReconcileRefund(w) ==
    /\ worker[w].pc \in {"reconcile_processed", "reconcile_failed"}
    /\ Done(w)
    /\ IF /\ razorpay_refund_id = worker[w].refund
          /\ refund_attempt_count = worker[w].attempt
          /\ Pending
          /\ refund_request_token = w
       THEN /\ refund_request_token' = NoToken
            /\ leaseLive' = FALSE
            /\ IF worker[w].pc = "reconcile_processed"
               THEN /\ refund_status' = "refunded"
                    /\ refund_retry_ready' = "null"
               ELSE /\ refund_status' = "refund_failed"
                    /\ refund_retry_ready' = "later"
            /\ UNCHANGED <<razorpay_refund_id, refund_attempt_count>>
       ELSE UNCHANGED payment
    /\ UNCHANGED <<provider, event, handler>>

\* Mutant: giving up for now also releases the reservation.
PostponeReleases(w) ==
    /\ worker[w].pc = "postpone"
    /\ Done(w)
    /\ IF Pending /\ refund_request_token = w
       THEN /\ refund_request_token' = NoToken
            /\ leaseLive' = FALSE
            /\ refund_retry_ready' = "later"
       ELSE UNCHANGED <<refund_request_token, leaseLive, refund_retry_ready>>
    /\ UNCHANGED <<refund_status, razorpay_refund_id, refund_attempt_count,
                   provider, event, handler>>

\* fail_reporter_lifecycle_refund: back off and keep the attempt.
PostponeRefund(w) ==
    /\ worker[w].pc = "postpone"
    /\ Done(w)
    /\ refund_retry_ready' =
          IF Pending /\ refund_request_token = w THEN "later" ELSE refund_retry_ready
    /\ UNCHANGED <<refund_status, razorpay_refund_id, refund_request_token,
                   leaseLive, refund_attempt_count, provider, event, handler>>

\* The process dies, its time budget ends ("deferred"), or its database call
\* fails: the reservation it may hold stays until it lapses.
WorkerStops(w) ==
    /\ worker[w].pc # "idle"
    /\ Done(w)
    /\ UNCHANGED <<payment, provider, event, handler>>

-----------------------------------------------------------------------------
(* The provider settles a refund and tells so in a webhook, which it may    *)
(* deliver late, many times, or never.                                      *)

\* Bound: the provider does not fail the last attempt that is explored.
ProviderSettles(r) ==
    /\ provider[r].state = "pending"
    /\ \E outcome \in {"processed", "failed"} :
          /\ outcome = "failed" => provider[r].attempt < MaxAttempts
          /\ provider' = [provider EXCEPT ![r].state = outcome]
    /\ UNCHANGED <<payment, event, worker, handler>>

\* claim_razorpay_webhook_event.  "processed" and "busy" end the delivery.
ClaimEvent(h, r) ==
    /\ handler[h].pc = "idle"
    /\ Settled(r)
    /\ event[r].status # "processed"
    /\ ~(event[r].status = "pending" /\ event[r].token # NoToken /\ event[r].live)
    /\ event' = [event EXCEPT ![r] =
                   [status |-> "pending", token |-> h, live |-> TRUE]]
    /\ handler' = [handler EXCEPT ![h] = [pc |-> "complete", refund |-> r]]
    /\ UNCHANGED <<payment, provider, worker>>

Owns(h) == LET row == event[handler[h].refund]
           IN  row.status = "pending" /\ row.token = h

\* Mutant: an attempt that has no refund yet takes any webhook's.
AcceptsAnyAttempt(r) ==
    /\ refund_status \in {"refund_pending", "refund_failed"}
          \cup (IF provider[r].state = "processed" THEN {"refunded"} ELSE {})
    /\ razorpay_refund_id \in {NoRefund, r}

\* Mutant: the refund a webhook is about is not compared with the recorded one.
AcceptsAnyRefund(r) ==
    refund_status \in {"refund_pending", "refund_failed"}
       \cup (IF provider[r].state = "processed" THEN {"refunded"} ELSE {})

\* Both completion functions refuse an event about another refund, and, from
\* the second attempt on, any event while a reservation has no refund yet.
Accepts(r) ==
    /\ refund_status \in {"refund_pending", "refund_failed"}
          \cup (IF provider[r].state = "processed" THEN {"refunded"} ELSE {})
    /\ ~ (/\ refund_attempt_count > 1
          /\ refund_request_token # NoToken
          /\ razorpay_refund_id = NoRefund)
    /\ razorpay_refund_id \in {NoRefund, r}

\* The row's name for the provider's outcome.
RefundOutcome(state) == IF state = "processed" THEN "refunded" ELSE "refund_failed"

\* complete_razorpay_refund_webhook and complete_razorpay_refund_failure_webhook.
CompleteEvent(h) ==
    LET r == handler[h].refund
    IN  /\ handler[h].pc = "complete"
        /\ Owns(h)
        /\ Accepts(r)
        /\ razorpay_refund_id' = r
        /\ refund_request_token' = NoToken
        /\ leaseLive' = FALSE
        /\ refund_status' = RefundOutcome(provider[r].state)
        /\ refund_retry_ready' =
              IF provider[r].state = "processed" THEN "null"
              ELSE IF refund_retry_ready = "null" THEN "later" ELSE refund_retry_ready
        /\ event' = [event EXCEPT ![r] =
                       [status |-> "processed", token |-> NoToken, live |-> FALSE]]
        /\ handler' = [handler EXCEPT ![h] = HandlerIdle]
        /\ UNCHANGED <<refund_attempt_count, provider, worker>>

\* The function raises or answers false; the handler turns to failClaim.
EventRefused(h) ==
    /\ handler[h].pc = "complete"
    /\ ~(Owns(h) /\ Accepts(handler[h].refund))
    /\ handler' = [handler EXCEPT ![h].pc = "fail"]
    /\ UNCHANGED <<payment, provider, event, worker>>

\* fail_razorpay_webhook_event, which only the token's holder can do.
FailEvent(h) ==
    LET r == handler[h].refund
    IN  /\ handler[h].pc = "fail"
        /\ handler' = [handler EXCEPT ![h] = HandlerIdle]
        /\ event' = IF Owns(h)
                    THEN [event EXCEPT ![r] =
                            [status |-> "failed", token |-> NoToken, live |-> FALSE]]
                    ELSE event
        /\ UNCHANGED <<payment, provider, worker>>

HandlerStops(h) ==
    /\ handler[h].pc # "idle"
    /\ handler' = [handler EXCEPT ![h] = HandlerIdle]
    /\ UNCHANGED <<payment, provider, event, worker>>

-----------------------------------------------------------------------------
(* The clock.                                                               *)

LeaseLapses ==
    /\ leaseLive
    /\ leaseLive' = FALSE
    /\ UNCHANGED <<refund_status, razorpay_refund_id, refund_request_token,
                   refund_attempt_count, refund_retry_ready,
                   provider, event, worker, handler>>

RetryFallsDue ==
    /\ refund_retry_ready = "later"
    /\ refund_retry_ready' = "due"
    /\ UNCHANGED <<refund_status, razorpay_refund_id, refund_request_token,
                   leaseLive, refund_attempt_count,
                   provider, event, worker, handler>>

EventLeaseLapses(r) ==
    /\ event[r].live
    /\ event' = [event EXCEPT ![r].live = FALSE]
    /\ UNCHANGED <<payment, provider, worker, handler>>

\* Nothing is left to do: the fee is back and nobody is working on it.
Finished ==
    /\ refund_status = "refunded"
    /\ \A w \in Workers : worker[w].pc = "idle"
    /\ UNCHANGED vars

WorkerStep(w) ==
    \/ ReserveRefund(w) \/ ClaimRefund(w)
    \/ FindRefund(w) \/ CreateRefund(w) \/ FetchRefund(w)
    \/ ProviderCallFails(w) \/ CreateReplyLost(w)
    \/ RecordRefundRequest(w) \/ ReconcileRefund(w) \/ PostponeRefund(w)
    \/ WorkerStops(w)

HandlerStep(h) ==
    \/ \E r \in RefundIds : ClaimEvent(h, r)
    \/ CompleteEvent(h) \/ EventRefused(h) \/ FailEvent(h) \/ HandlerStops(h)

Next ==
    \/ QueueRefund
    \/ \E w \in Workers : WorkerStep(w)
    \/ \E h \in Handlers : HandlerStep(h)
    \/ \E r \in RefundIds : ProviderSettles(r) \/ EventLeaseLapses(r)
    \/ LeaseLapses \/ RetryFallsDue
    \/ Finished

Spec == Init /\ [][Next]_vars

\* Crons keep running and finally get through while they hold the lease: a
\* run's time budget (SAFE_RUN_MS, 50 seconds) is far below the five minutes
\* of its lease, so crashes, lost calls and takeovers do not go on for ever,
\* and a run that hangs is ended by its platform (maxDuration, 60 seconds).
\* Nothing is assumed of administrators or of webhooks.
CronFairness(c) ==
    LET inTime == refund_request_token = c
    IN  /\ SF_vars(ClaimRefund(c))
        /\ SF_vars(FindRefund(c) /\ inTime)
        /\ SF_vars(CreateRefund(c) /\ inTime)
        /\ SF_vars(RecordRefundRequest(c) /\ inTime)
        /\ SF_vars(FetchRefund(c) /\ inTime)
        /\ SF_vars(ReconcileRefund(c) /\ inTime)
        /\ WF_vars(WorkerStops(c))

LiveSpec ==
    /\ Spec
    /\ \A c \in Crons : CronFairness(c)
    /\ \A r \in RefundIds : WF_vars(ProviderSettles(r))
    /\ WF_vars(LeaseLapses) /\ WF_vars(RetryFallsDue)

-----------------------------------------------------------------------------
(* Properties.                                                              *)

\* Every variable stays within its type.
TypeOK ==
    /\ refund_status \in RefundStatuses
    /\ razorpay_refund_id \in RefundIds \cup {NoRefund}
    /\ refund_request_token \in Workers \cup {NoToken}
    /\ leaseLive \in BOOLEAN
    /\ refund_attempt_count \in 0..MaxAttempts
    /\ refund_retry_ready \in {"null", "later", "due"}
    /\ provider \in [RefundIds -> ProviderRefund]
    /\ event \in [RefundIds -> EventRow]
    /\ worker \in [Workers -> WorkerState]
    /\ handler \in [Handlers -> HandlerState]

\* A refund that has paid the applicant, or still may.
CanPay(r) == provider[r].state \in {"pending", "processed"}

\* The fee is never given back twice: whatever retries, takeovers of lapsed
\* reservations and lost answers there are, two refunds of the payment never
\* coexist unless one has failed - even with a provider that would make both.
NoDoubleRefund == \A r, s \in RefundIds : CanPay(r) /\ CanPay(s) => r = s

\* What the row says of the outcome is what happened at the provider: a fee
\* shown as refunded was paid back by the recorded refund, and one shown as
\* failed has no refund that could still pay.
OutcomeIsTheProviders ==
    /\ refund_status = "refunded" =>
          \E r \in RefundIds : razorpay_refund_id = r /\ provider[r].state = "processed"
    /\ refund_status = "refund_failed" => \A r \in RefundIds : ~CanPay(r)

\* The recorded refund is one the current attempt made, never that of an
\* earlier attempt brought in by a late webhook or a stale worker.
RecordedRefundIsThisAttempts ==
    \A r \in RefundIds :
        razorpay_refund_id = r =>
            Exists(r) /\ provider[r].attempt = refund_attempt_count

\* An attempt under way is never dropped: it has a refund to ask about or a
\* reservation that can be taken over, so webhooks of older attempts are told
\* apart from its own.
AttemptIsNeverDropped ==
    Pending /\ refund_attempt_count > 0 =>
        refund_request_token # NoToken \/ razorpay_refund_id # NoRefund

\* A new attempt starts only when the one before it has failed at the
\* provider, not when its answer is merely missing.
NewAttemptOnlyAfterFailure ==
    [][refund_attempt_count' # refund_attempt_count =>
          /\ refund_attempt_count' = refund_attempt_count + 1
          /\ refund_attempt_count > 0 =>
                \E r \in RefundIds : /\ provider[r].attempt = refund_attempt_count
                                     /\ provider[r].state = "failed"]_vars

\* A confirmed refund stays confirmed, with the same refund: no worker that
\* claimed the row earlier and no later webhook undoes it.
RefundedIsFinal ==
    [][refund_status = "refunded" =>
          /\ refund_status' = "refunded"
          /\ razorpay_refund_id' = razorpay_refund_id]_vars

\* A queued refund is paid and confirmed although every webhook may be lost.
FeeComesBack == refund_status = "refund_pending" ~> refund_status = "refunded"
=============================================================================
