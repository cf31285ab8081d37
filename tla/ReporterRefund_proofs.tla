------------------------ MODULE ReporterRefund_proofs ------------------------
(***************************************************************************)
(* Proofs about ReporterRefund, for any number of administrators, runs of  *)
(* the lifecycle job, webhook handlers, refund ids and attempts.           *)
(*                                                                         *)
(* The argument: an attempt number is retired only when its refund has     *)
(* failed (PastAttemptsFailed), the refund a worker or a webhook brings    *)
(* back is tied to the attempt it was made for (WorkersInv, HandlersInv),  *)
(* and the row only ever accepts the one of the current attempt            *)
(* (RecordedRefundIsThisAttempts).                                         *)
(***************************************************************************)
EXTENDS ApplicationFee, TLAPS

\* Refunds come from attempts that were started, one refund for each.
ProviderInv ==
    /\ \A r \in RefundIds : Exists(r) => provider[r].attempt \in 1..refund_attempt_count
    /\ \A r, s \in RefundIds :
          Exists(r) /\ Exists(s) /\ provider[r].attempt = provider[s].attempt => r = s

\* Every attempt before the current one made a refund, and it failed.
PastAttemptsFailed ==
    \A a \in 1..MaxAttempts : a < refund_attempt_count =>
        \E r \in RefundIds : provider[r].attempt = a /\ provider[r].state = "failed"

\* What the row says, read with the provider's refunds.
RowInv ==
    /\ refund_status = "not_eligible" => refund_attempt_count = 0
    /\ Failed => \E r \in RefundIds :
                    razorpay_refund_id = r /\ provider[r].state = "failed"
    /\ refund_status = "refunded" => \E r \in RefundIds :
                    razorpay_refund_id = r /\ provider[r].state = "processed"

\* A worker knows the attempt it was given; while it holds the token that is
\* the current one.  A refund it carries is the refund of its attempt.
WorkerInv(w) ==
    worker[w].pc # "idle" =>
        /\ worker[w].attempt \in 1..refund_attempt_count
        /\ refund_request_token = w => worker[w].attempt = refund_attempt_count
        /\ worker[w].pc \in {"record", "fetch", "reconcile_processed", "reconcile_failed"} =>
              /\ worker[w].refund \in RefundIds
              /\ Exists(worker[w].refund)
              /\ provider[worker[w].refund].attempt = worker[w].attempt
        /\ worker[w].pc = "reconcile_processed" =>
              provider[worker[w].refund].state = "processed"
        /\ worker[w].pc = "reconcile_failed" =>
              provider[worker[w].refund].state = "failed"

WorkersInv == \A w \in Workers : WorkerInv(w)

\* A webhook is about a refund that is settled.
HandlersInv ==
    \A h \in Handlers : handler[h].pc # "idle" =>
        handler[h].refund \in RefundIds /\ Settled(handler[h].refund)

IInv ==
    /\ TypeOK
    /\ ProviderInv
    /\ PastAttemptsFailed
    /\ RowInv
    /\ RecordedRefundIsThisAttempts
    /\ AttemptIsNeverDropped
    /\ WorkersInv
    /\ HandlersInv

-----------------------------------------------------------------------------
(* Type correctness.                                                        *)

\* What a provider answer leaves in a worker is a worker state.
LEMMA AnswerType ==
    ASSUME TypeOK, NEW w \in Workers, NEW r \in RefundIds
    PROVE  AfterProviderAnswer(w, r) \in WorkerState
  BY MaxAttemptsIsPositive DEF TypeOK, AfterProviderAnswer, ToRecord, Idle, WorkerState, WorkerSteps, Attempts

\* Every step of a worker keeps the types (WorkerStep and its eleven cases).
LEMMA WorkerStepType ==
    ASSUME TypeOK, NEW w \in Workers, WorkerStep(w)
    PROVE  TypeOK'
<1> USE MaxAttemptsIsPositive DEF TypeOK
<1>1. CASE ReserveRefund(w)
  BY <1>1 DEF ReserveRefund, RefundStatuses, WorkerState,
     WorkerSteps, Attempts
<1>2. CASE ClaimRefund(w)
  <2> DEFINE known == IF Failed THEN NoRefund ELSE razorpay_refund_id
             state == [pc |-> IF known = NoRefund THEN "find" ELSE "fetch",
                       attempt |-> LifecycleAttempt, refund |-> known]
  <2>1. state \in WorkerState
    BY <1>2 DEF ClaimRefund, WorkerState, WorkerSteps, Attempts
  <2>2. worker' = [worker EXCEPT ![w] = state]
    BY <1>2 DEF ClaimRefund
  <2> QED
    BY <1>2, <2>1, <2>2 DEF ClaimRefund, RefundStatuses, Attempts
<1>3. CASE FindRefund(w)
  BY <1>3, AnswerType DEF FindRefund, payment, WorkerState, WorkerSteps
<1>4. CASE CreateRefund(w)
  <2>1. CASE \E r \in Matches(worker[w].attempt) :
                /\ worker' = [worker EXCEPT ![w] = AfterProviderAnswer(w, r)]
                /\ UNCHANGED provider
    BY <1>4, <2>1, AnswerType DEF CreateRefund, Matches, payment
  <2>2. ASSUME NEW r \in RefundIds,
               provider' = [provider EXCEPT ![r] =
                              [state |-> "pending", attempt |-> worker[w].attempt]],
               worker' = [worker EXCEPT ![w] = ToRecord(w, r)]
        PROVE  TypeOK'
    <3>1. worker[w].attempt \in 0..MaxAttempts
      BY DEF WorkerState
    <3>2. ToRecord(w, r) \in WorkerState
      BY <3>1 DEF ToRecord, WorkerState, WorkerSteps
    <3>3. [state |-> "pending", attempt |-> worker[w].attempt] \in ProviderRefund
      BY <3>1 DEF ProviderRefund, ProviderStates
    <3> QED
      BY <1>4, <2>2, <3>2, <3>3 DEF CreateRefund, payment
  <2> QED
    BY <1>4, <2>1, <2>2 DEF CreateRefund
<1>5. CASE FetchRefund(w)
  BY <1>5 DEF FetchRefund, payment, WorkerState, WorkerSteps
<1>6. CASE ProviderCallFails(w)
  BY <1>6 DEF ProviderCallFails, AfterProviderError, Idle, payment, WorkerState, WorkerSteps
<1>7. CASE CreateReplyLost(w)
  <2>1. worker' \in [Workers -> WorkerState]
    BY <1>7 DEF CreateReplyLost, AfterProviderError, Idle, WorkerState, WorkerSteps
  <2>2. provider' \in [RefundIds -> ProviderRefund]
    BY <1>7 DEF CreateReplyLost, ProviderRefund, ProviderStates, WorkerState
  <2> QED
    BY <1>7, <2>1, <2>2 DEF CreateReplyLost, payment
<1> USE DEF Done, Idle, WorkerState, WorkerSteps
<1>8. CASE RecordRefundRequest(w)
  <2>1. worker' \in [Workers -> WorkerState]
    BY <1>8 DEF RecordRefundRequest
  <2>2. worker[w].refund \in RefundIds \cup {NoRefund}
    OBVIOUS
  <2>3. CASE Pending /\ refund_request_token = w /\ razorpay_refund_id = NoRefund
    BY <1>8, <2>1, <2>2, <2>3 DEF RecordRefundRequest
  <2>4. CASE ~(Pending /\ refund_request_token = w /\ razorpay_refund_id = NoRefund)
    BY <1>8, <2>1, <2>4 DEF RecordRefundRequest, payment
  <2> QED
    BY <2>3, <2>4
<1>9. CASE ReconcileRefund(w)
  <2>1. worker' \in [Workers -> WorkerState]
    BY <1>9 DEF ReconcileRefund
  <2>2. CASE UNCHANGED payment
    BY <1>9, <2>1, <2>2 DEF ReconcileRefund, payment
  <2>3. CASE ~UNCHANGED payment
    BY <1>9, <2>1, <2>3 DEF ReconcileRefund, RefundStatuses
  <2> QED
    BY <2>2, <2>3
<1>10. CASE PostponeRefund(w)
  BY <1>10 DEF PostponeRefund
<1>11. CASE WorkerStops(w)
  BY <1>11 DEF WorkerStops, payment
<1> QED
  BY <1>1, <1>2, <1>3, <1>4, <1>5, <1>6, <1>7, <1>8, <1>9, <1>10, <1>11 DEF WorkerStep

\* Every step of a webhook handler keeps the types.
LEMMA HandlerStepType ==
    ASSUME TypeOK, HandlersInv, NEW h \in Handlers, HandlerStep(h)
    PROVE  TypeOK'
<1> USE DEF TypeOK, HandlersInv, HandlerState, EventRow
<1>1. CASE \E r \in RefundIds : ClaimEvent(h, r)
  BY <1>1 DEF ClaimEvent, payment
<1>2. CASE CompleteEvent(h)
  <2>1. handler[h].refund \in RefundIds
    BY <1>2 DEF CompleteEvent
  <2> QED
    BY <1>2, <2>1 DEF CompleteEvent, RefundOutcome, HandlerIdle, RefundStatuses
<1>3. CASE EventRefused(h)
  BY <1>3 DEF EventRefused, payment
<1>4. CASE FailEvent(h)
  BY <1>4 DEF FailEvent, HandlerIdle, payment
<1>5. CASE HandlerStops(h)
  BY <1>5 DEF HandlerStops, HandlerIdle, payment
<1> QED
  BY <1>1, <1>2, <1>3, <1>4, <1>5 DEF HandlerStep

-----------------------------------------------------------------------------
(* The inductive invariant, action by action.                               *)

\* A reservation starts an attempt (the first, or after a failure) or takes
\* over the current one.
LEMMA TakingOver ==
    ASSUME IInv, TypeOK', NEW w \in Workers, ReserveRefund(w) \/ ClaimRefund(w)
    PROVE  IInv'
<1> USE MaxAttemptsIsPositive
<1>1. /\ UNCHANGED <<provider, event, handler>>
      /\ refund_status' = "refund_pending"
      /\ refund_request_token' = w
      /\ worker[w].pc = "idle"
  BY DEF ReserveRefund, ClaimRefund
<1>2. /\ refund_attempt_count \in Nat
      /\ \/ /\ refund_attempt_count' = refund_attempt_count + 1
            /\ refund_attempt_count = 0 \/ Failed
            /\ razorpay_refund_id' = NoRefund
         \/ /\ refund_attempt_count' = refund_attempt_count
            /\ refund_attempt_count > 0
            /\ Pending
            /\ razorpay_refund_id' = razorpay_refund_id
  <2>1. refund_attempt_count = 0 => razorpay_refund_id = NoRefund
    BY DEF IInv, TypeOK, RecordedRefundIsThisAttempts, ProviderInv
  <2>2. refund_attempt_count \in Nat
    BY DEF IInv, TypeOK
  <2>3. CASE ReserveRefund(w)
    BY <2>1, <2>2, <2>3 DEF ReserveRefund, AdminAttempt, Failed, Pending
  <2>4. CASE ClaimRefund(w)
    BY <2>1, <2>2, <2>4 DEF ClaimRefund, LifecycleAttempt, Failed, Pending
  <2> QED
    BY <2>3, <2>4
<1>3. Failed => \E r \in RefundIds : /\ provider[r].attempt = refund_attempt_count
                                     /\ provider[r].state = "failed"
  BY DEF IInv, RowInv, RecordedRefundIsThisAttempts
<1>4. ProviderInv'
  BY <1>1, <1>2 DEF IInv, TypeOK, ProviderInv, Exists, ProviderRefund
<1>5. PastAttemptsFailed'
  <2> SUFFICES ASSUME NEW a \in 1..MaxAttempts, a < refund_attempt_count'
               PROVE  \E r \in RefundIds : /\ provider[r].attempt = a
                                           /\ provider[r].state = "failed"
    BY <1>1 DEF PastAttemptsFailed
  <2>1. CASE a < refund_attempt_count
    BY <2>1 DEF IInv, PastAttemptsFailed
  <2>2. CASE ~(a < refund_attempt_count)
    BY <1>2, <1>3, <2>2
  <2> QED
    BY <2>1, <2>2
<1>6. RowInv'
  BY <1>1 DEF RowInv, Failed
<1>7. RecordedRefundIsThisAttempts'
  BY <1>1, <1>2, WorkersDiffer DEF IInv, RecordedRefundIsThisAttempts, Exists
<1>8. AttemptIsNeverDropped'
  BY <1>1, WorkersDiffer DEF AttemptIsNeverDropped, Workers
<1>9. WorkersInv'
  <2> SUFFICES ASSUME NEW v \in Workers PROVE WorkerInv(v)'
    BY DEF WorkersInv
  <2>1. CASE v = w
    <3>1. /\ worker'[w].pc \in {"find", "fetch"}
          /\ worker'[w].attempt = refund_attempt_count'
          /\ worker'[w].pc = "fetch" =>
                worker'[w].refund = razorpay_refund_id' /\ razorpay_refund_id' # NoRefund
      BY DEF ReserveRefund, ClaimRefund, IInv, TypeOK
    <3>2. refund_attempt_count' \in 1..refund_attempt_count'
      BY <1>2
    <3>3. worker'[w].pc = "fetch" =>
             /\ worker'[w].refund \in RefundIds
             /\ provider'[worker'[w].refund].state # "absent"
             /\ provider'[worker'[w].refund].attempt = refund_attempt_count'
      BY <1>1, <1>7, <3>1 DEF TypeOK, RecordedRefundIsThisAttempts, Exists
    <3> QED
      BY <2>1, <3>1, <3>2, <3>3 DEF WorkerInv, Exists
  <2>2. CASE v # w
    <3>1. worker'[v] = worker[v]
      BY <2>2 DEF ReserveRefund, ClaimRefund, IInv, TypeOK
    <3> QED
      BY <1>1, <1>2, <2>2, <3>1 DEF IInv, WorkersInv, WorkerInv, Exists, TypeOK, WorkerState
  <2> QED
    BY <2>1, <2>2
<1>10. HandlersInv'
  BY <1>1 DEF IInv, HandlersInv, Settled
<1> QED
  BY <1>4, <1>5, <1>6, <1>7, <1>8, <1>9, <1>10 DEF IInv

\* A step that changes one worker and nothing else has only that worker to
\* answer for.
LEMMA OneWorkerMoves ==
    ASSUME IInv, TypeOK', UNCHANGED <<payment, provider, event, handler>>,
           NEW w \in Workers, NEW x, worker' = [worker EXCEPT ![w] = x],
           WorkerInv(w)'
    PROVE  IInv'
<1>1. WorkersInv'
  <2> SUFFICES ASSUME NEW v \in Workers, v # w PROVE WorkerInv(v)'
    BY DEF WorkersInv
  <2>1. worker'[v] = worker[v]
    BY DEF IInv, TypeOK
  <2> QED
    BY <2>1 DEF IInv, WorkersInv, WorkerInv, Exists, payment
<1> QED
  BY <1>1 DEF IInv, ProviderInv, PastAttemptsFailed, RowInv, RecordedRefundIsThisAttempts,
     AttemptIsNeverDropped, HandlersInv, Exists, Settled, Failed, Pending, payment

\* Provider answers and errors, and a worker that stops.
LEMMA WorkerLearns ==
    ASSUME IInv, TypeOK', NEW w \in Workers,
           \/ FindRefund(w) \/ FetchRefund(w) \/ ProviderCallFails(w) \/ WorkerStops(w)
           \/ /\ CreateRefund(w)
              /\ UNCHANGED provider
              /\ \E r \in Matches(worker[w].attempt) :
                    worker' = [worker EXCEPT ![w] = AfterProviderAnswer(w, r)]
    PROVE  IInv'
<1> USE DEF IInv, TypeOK, WorkersInv
<1>1. UNCHANGED <<payment, provider, event, handler>>
  BY DEF FindRefund, FetchRefund, ProviderCallFails, WorkerStops, CreateRefund
<1>2. \A r \in Matches(worker[w].attempt) :
         worker[w].pc # "idle" /\ worker' = [worker EXCEPT ![w] = AfterProviderAnswer(w, r)]
            => WorkerInv(w)'
  <2> SUFFICES ASSUME NEW r \in Matches(worker[w].attempt), worker[w].pc # "idle",
                      worker' = [worker EXCEPT ![w] = AfterProviderAnswer(w, r)]
               PROVE  WorkerInv(w)'
    OBVIOUS
  <2>1. worker'[w] \in {Idle, ToRecord(w, r)}
    BY DEF AfterProviderAnswer
  <2>2. r \in RefundIds /\ Exists(r) /\ provider[r].attempt = worker[w].attempt
    BY DEF Matches
  <2>3. WorkerInv(w)
    OBVIOUS
  <2> QED
    BY <1>1, <2>1, <2>2, <2>3 DEF WorkerInv, Idle, ToRecord, Exists, payment
<1>3. WorkerInv(w)'
  <2>0. WorkerInv(w)
    OBVIOUS
  <2>1. CASE FindRefund(w)
    <3>1. CASE worker' = [worker EXCEPT ![w].pc = "create"]
      BY <1>1, <2>0, <2>1, <3>1 DEF FindRefund, WorkerInv, WorkerState, payment
    <3>2. CASE \E r \in RefundIds : /\ Matches(worker[w].attempt) = {r}
                                    /\ worker' = [worker EXCEPT ![w] = AfterProviderAnswer(w, r)]
      BY <1>2, <2>1, <3>2 DEF FindRefund
    <3> QED
      BY <2>1, <3>1, <3>2 DEF FindRefund
  <2>2. CASE FetchRefund(w)
    BY <1>1, <2>0, <2>2 DEF FetchRefund, WorkerInv, WorkerState, Settled, Exists, payment
  <2>3. CASE ProviderCallFails(w)
    BY <1>1, <2>0, <2>3 DEF ProviderCallFails, AfterProviderError, Idle, WorkerInv,
       WorkerState, payment
  <2>4. CASE WorkerStops(w)
    BY <2>4 DEF WorkerStops, Done, Idle, WorkerInv
  <2>5. CASE \E r \in Matches(worker[w].attempt) :
                /\ CreateRefund(w)
                /\ worker' = [worker EXCEPT ![w] = AfterProviderAnswer(w, r)]
    BY <1>2, <2>5 DEF CreateRefund
  <2> QED
    BY <2>1, <2>2, <2>3, <2>4, <2>5
<1>4. \E x : worker' = [worker EXCEPT ![w] = x]
  BY DEF FindRefund, FetchRefund, ProviderCallFails, WorkerStops, Done, WorkerState
<1> QED
  BY <1>1, <1>3, <1>4, OneWorkerMoves

\* The provider makes a refund only for the current attempt: a worker that
\* still carries an older one finds the refund of that attempt already there.
LEMMA RefundIsMade ==
    ASSUME IInv, TypeOK', UNCHANGED <<payment, event, handler>>,
           NEW w \in Workers, worker[w].pc = "create", Matches(worker[w].attempt) = {},
           NEW r \in RefundIds, ~Exists(r),
           provider' = [provider EXCEPT ![r] =
                          [state |-> "pending", attempt |-> worker[w].attempt]],
           \/ worker' = [worker EXCEPT ![w] = AfterProviderError(w)]
           \/ worker' = [worker EXCEPT ![w] = ToRecord(w, r)]
    PROVE  IInv'
<1> DEFINE a == worker[w].attempt
<1>1. a \in 1..refund_attempt_count /\ refund_attempt_count \in 1..MaxAttempts
  BY MaxAttemptsIsPositive DEF IInv, TypeOK, WorkersInv, WorkerInv
<1>2. a = refund_attempt_count
  <2>1. a \in 1..MaxAttempts /\ (a < refund_attempt_count \/ a = refund_attempt_count)
    BY <1>1, MaxAttemptsIsPositive
  <2>2. CASE a < refund_attempt_count
    <3>1. PICK q \in RefundIds : provider[q].attempt = a /\ provider[q].state = "failed"
      BY <2>1, <2>2 DEF IInv, PastAttemptsFailed
    <3>2. q \in Matches(a)
      BY <3>1 DEF Matches, Exists
    <3> QED
      BY <3>2
  <2> QED
    BY <2>1, <2>2
<1>3. provider'[r].state = "pending" /\ provider'[r].attempt = a
  BY DEF IInv, TypeOK
<1>4. \A s \in RefundIds : s # r => provider'[s] = provider[s]
  BY DEF IInv, TypeOK
<1>5. ProviderInv'
  BY <1>1, <1>3, <1>4 DEF IInv, ProviderInv, Exists, Matches, payment
<1>6. PastAttemptsFailed'
  BY <1>4 DEF IInv, PastAttemptsFailed, Exists, payment
<1>7. RowInv'
  BY <1>4 DEF IInv, RowInv, Exists, Failed, payment
<1>8. RecordedRefundIsThisAttempts'
  BY <1>4 DEF IInv, RecordedRefundIsThisAttempts, Exists, payment
<1>9. AttemptIsNeverDropped'
  BY DEF IInv, AttemptIsNeverDropped, Pending, payment
<1>10. WorkersInv'
  <2> SUFFICES ASSUME NEW v \in Workers PROVE WorkerInv(v)'
    BY DEF WorkersInv
  <2>1. WorkerInv(v)
    BY DEF IInv, WorkersInv
  <2>2. CASE v # w
    <3>1. worker'[v] = worker[v]
      BY <2>2 DEF IInv, TypeOK
    <3> QED
      BY <1>4, <2>1, <3>1 DEF WorkerInv, Exists, payment
  <2>3. CASE v = w
    <3>1. worker'[w] \in {Idle, [worker[w] EXCEPT !.pc = "postpone"], ToRecord(w, r)}
      BY DEF AfterProviderError, IInv, TypeOK
    <3>2. worker[w] \in WorkerState
      BY DEF IInv, TypeOK
    <3> QED
      BY <1>1, <1>2, <1>3, <2>3, <3>1, <3>2
      DEF WorkerInv, Exists, Idle, ToRecord, WorkerState, payment
  <2> QED
    BY <2>2, <2>3
<1>11. HandlersInv'
  <2> SUFFICES ASSUME NEW h \in Handlers, handler[h].pc # "idle"
               PROVE  handler[h].refund \in RefundIds /\ Settled(handler[h].refund)'
    BY DEF HandlersInv, payment
  <2>1. handler[h].refund \in RefundIds /\ Settled(handler[h].refund)
    BY DEF IInv, HandlersInv
  <2>2. handler[h].refund # r
    BY <2>1 DEF Settled, Exists
  <2> QED
    BY <1>4, <2>1, <2>2 DEF Settled, payment
<1> QED
  BY <1>5, <1>6, <1>7, <1>8, <1>9, <1>10, <1>11 DEF IInv

\* What workers write: only the holder of the reservation changes the row,
\* and what it brings belongs to the current attempt.
LEMMA WorkerWrites ==
    ASSUME IInv, TypeOK', NEW w \in Workers,
           RecordRefundRequest(w) \/ ReconcileRefund(w) \/ PostponeRefund(w)
    PROVE  IInv'
<1>1. /\ UNCHANGED <<provider, event, handler, refund_attempt_count>>
      /\ worker' = [worker EXCEPT ![w] = Idle]
      /\ WorkerInv(w)
      /\ worker[w].pc # "idle"
  BY DEF RecordRefundRequest, ReconcileRefund, PostponeRefund, Done, payment,
     IInv, WorkersInv
<1>2. \/ UNCHANGED <<refund_status, razorpay_refund_id, refund_request_token>>
      \/ /\ refund_request_token = w
         /\ refund_request_token' = NoToken
         /\ Pending
         /\ worker[w].pc \in {"record", "reconcile_processed", "reconcile_failed"}
         /\ razorpay_refund_id' = worker[w].refund
         /\ \/ refund_status' = "refund_pending"
            \/ /\ worker[w].pc = "reconcile_processed"
               /\ refund_status' = "refunded"
            \/ /\ worker[w].pc = "reconcile_failed"
               /\ refund_status' = "refund_failed"
  <2>1. CASE RecordRefundRequest(w)
    BY <2>1 DEF RecordRefundRequest, Pending, payment
  <2>2. CASE ReconcileRefund(w)
    BY <2>2 DEF ReconcileRefund, payment
  <2>3. CASE PostponeRefund(w)
    BY <2>3 DEF PostponeRefund
  <2> QED
    BY <2>1, <2>2, <2>3
<1>3. ProviderInv' /\ PastAttemptsFailed' /\ HandlersInv'
  BY <1>1 DEF IInv, ProviderInv, PastAttemptsFailed, HandlersInv, Exists, Settled
<1>4. RowInv' /\ RecordedRefundIsThisAttempts' /\ AttemptIsNeverDropped'
  <2>1. CASE UNCHANGED <<refund_status, razorpay_refund_id, refund_request_token>>
    BY <1>1, <2>1 DEF IInv, RowInv, RecordedRefundIsThisAttempts, AttemptIsNeverDropped,
       Exists, Failed, Pending
  <2>2. CASE ~UNCHANGED <<refund_status, razorpay_refund_id, refund_request_token>>
    BY <1>1, <1>2, <2>2, WorkersDiffer DEF WorkerInv, RowInv, RecordedRefundIsThisAttempts,
       AttemptIsNeverDropped, Exists, Failed, Pending
  <2> QED
    BY <2>1, <2>2
<1>5. WorkersInv'
  <2> SUFFICES ASSUME NEW v \in Workers PROVE WorkerInv(v)'
    BY DEF WorkersInv
  <2>1. WorkerInv(v)
    BY DEF IInv, WorkersInv
  <2>2. worker'[v] = Idle \/ worker'[v] = worker[v]
    BY <1>1 DEF IInv, TypeOK
  <2> QED
    BY <1>1, <1>2, <2>1, <2>2, WorkersDiffer DEF WorkerInv, Exists, Idle, Workers
<1> QED
  BY <1>3, <1>4, <1>5 DEF IInv

\* A refund that settles: only a pending one changes, so no outcome that the
\* row or a worker relies on is taken back.
LEMMA RefundSettles ==
    ASSUME IInv, TypeOK', NEW r \in RefundIds, ProviderSettles(r)
    PROVE  IInv'
<1>1. /\ UNCHANGED <<payment, event, worker, handler>>
      /\ provider[r].state = "pending"
      /\ provider'[r].state \in {"processed", "failed"}
      /\ provider'[r].attempt = provider[r].attempt
      /\ \A s \in RefundIds : s # r => provider'[s] = provider[s]
  BY DEF ProviderSettles, IInv, TypeOK, ProviderRefund
<1>2. ProviderInv' /\ PastAttemptsFailed'
  BY <1>1 DEF IInv, ProviderInv, PastAttemptsFailed, Exists, payment
<1>3. RowInv' /\ RecordedRefundIsThisAttempts' /\ AttemptIsNeverDropped'
  BY <1>1 DEF IInv, RowInv, RecordedRefundIsThisAttempts, AttemptIsNeverDropped,
     Exists, Failed, Pending, payment
<1>4. WorkersInv'
  <2> SUFFICES ASSUME NEW v \in Workers PROVE WorkerInv(v)'
    BY DEF WorkersInv
  <2>1. WorkerInv(v) /\ worker'[v] = worker[v]
    BY <1>1 DEF IInv, WorkersInv
  <2> QED
    BY <1>1, <2>1 DEF WorkerInv, Exists, payment
<1>5. HandlersInv'
  BY <1>1 DEF IInv, HandlersInv, Settled
<1> QED
  BY <1>2, <1>3, <1>4, <1>5 DEF IInv

\* The refund of an accepted webhook is the one of the current attempt: the
\* guard on attempts after the first is what keeps an older refund out.
LEMMA AcceptedRefundIsThisAttempts ==
    ASSUME IInv, NEW r \in RefundIds, Settled(r), Accepts(r)
    PROVE  provider[r].attempt = refund_attempt_count
<1>1. provider[r].attempt \in 1..refund_attempt_count /\ refund_attempt_count \in Nat
  BY DEF IInv, ProviderInv, TypeOK, Exists, Settled
<1>2. CASE razorpay_refund_id = r
  BY <1>2 DEF IInv, RecordedRefundIsThisAttempts
<1>3. CASE razorpay_refund_id = NoRefund
  <2>1. Pending
    BY <1>3, WorkersDiffer DEF IInv, RowInv, Accepts, Pending, Failed
  <2>2. refund_request_token # NoToken
    BY <1>1, <1>3, <2>1 DEF IInv, AttemptIsNeverDropped
  <2> QED
    BY <1>1, <1>3, <2>2 DEF Accepts
<1> QED
  BY <1>2, <1>3 DEF Accepts

\* Steps of the webhook handlers.
LEMMA HandlerKeeps ==
    ASSUME IInv, TypeOK', NEW h \in Handlers, HandlerStep(h)
    PROVE  IInv'
<1>1. CASE CompleteEvent(h)
  <2> DEFINE r == handler[h].refund
  <2>1. r \in RefundIds /\ Settled(r) /\ Accepts(r)
    BY <1>1 DEF CompleteEvent, IInv, HandlersInv
  <2>2. provider[r].attempt = refund_attempt_count
    BY <2>1, AcceptedRefundIsThisAttempts
  <2>3. /\ UNCHANGED <<refund_attempt_count, provider, worker>>
        /\ razorpay_refund_id' = r
        /\ refund_request_token' = NoToken
        /\ \/ provider[r].state = "processed" /\ refund_status' = "refunded"
           \/ provider[r].state = "failed" /\ refund_status' = "refund_failed"
    BY <1>1, <2>1 DEF CompleteEvent, RefundOutcome, Settled
  <2>4. ProviderInv' /\ PastAttemptsFailed'
    BY <2>3 DEF IInv, ProviderInv, PastAttemptsFailed, Exists
  <2>5. RowInv' /\ RecordedRefundIsThisAttempts' /\ AttemptIsNeverDropped'
    BY <2>1, <2>2, <2>3 DEF RowInv, RecordedRefundIsThisAttempts, AttemptIsNeverDropped,
       Exists, Settled, Failed, Pending
  <2>6. WorkersInv'
    BY <2>3, WorkersDiffer DEF IInv, WorkersInv, WorkerInv, Exists, Workers
  <2>7. HandlersInv'
    <3> SUFFICES ASSUME NEW g \in Handlers, handler'[g].pc # "idle"
                 PROVE  handler'[g].refund \in RefundIds /\ Settled(handler'[g].refund)
      BY <2>3 DEF HandlersInv, Settled
    <3>1. handler'[g] = handler[g]
      BY <1>1 DEF CompleteEvent, HandlerIdle, IInv, TypeOK
    <3> QED
      BY <3>1 DEF IInv, HandlersInv
  <2> QED
    BY <2>4, <2>5, <2>6, <2>7 DEF IInv
<1>2. CASE ~CompleteEvent(h)
  <2>1. UNCHANGED <<payment, provider, worker>>
    BY <1>2 DEF HandlerStep, ClaimEvent, EventRefused, FailEvent, HandlerStops
  <2>2. HandlersInv'
    <3> SUFFICES ASSUME NEW g \in Handlers, handler'[g].pc # "idle"
                 PROVE  handler'[g].refund \in RefundIds /\ Settled(handler'[g].refund)
      BY <2>1 DEF HandlersInv, Settled
    <3>1. CASE g # h
      <4>1. handler'[g] = handler[g]
        BY <1>2, <3>1 DEF HandlerStep, ClaimEvent, EventRefused, FailEvent, HandlerStops,
           IInv, TypeOK
      <4> QED
        BY <4>1 DEF IInv, HandlersInv
    <3>2. CASE g = h
      <4>1. CASE \E r \in RefundIds : ClaimEvent(h, r)
        BY <3>2, <4>1 DEF ClaimEvent, IInv, TypeOK
      <4>2. CASE EventRefused(h)
        BY <3>2, <4>2 DEF EventRefused, IInv, TypeOK, HandlersInv, HandlerState
      <4>3. CASE FailEvent(h) \/ HandlerStops(h)
        BY <3>2, <4>3 DEF FailEvent, HandlerStops, HandlerIdle, IInv, TypeOK
      <4> QED
        BY <1>2, <4>1, <4>2, <4>3 DEF HandlerStep
    <3> QED
      BY <3>1, <3>2
  <2>3. WorkersInv'
    BY <2>1 DEF IInv, WorkersInv, WorkerInv, Exists, payment
  <2> QED
    BY <2>1, <2>2, <2>3 DEF IInv, ProviderInv, PastAttemptsFailed, RowInv,
       RecordedRefundIsThisAttempts, AttemptIsNeverDropped, Exists, Failed, Pending, payment
<1> QED
  BY <1>1, <1>2

\* Queueing the refund, the clock and stuttering leave the refunds alone.
LEMMA OthersKeep ==
    ASSUME IInv, TypeOK',
           \/ QueueRefund \/ LeaseLapses \/ RetryFallsDue \/ UNCHANGED vars
           \/ \E r \in RefundIds : EventLeaseLapses(r)
    PROVE  IInv'
<1>1. /\ UNCHANGED <<razorpay_refund_id, refund_request_token, refund_attempt_count,
                     provider, worker, handler>>
      /\ \/ UNCHANGED refund_status
         \/ refund_status = "not_eligible" /\ refund_status' = "refund_pending"
  BY DEF QueueRefund, LeaseLapses, RetryFallsDue, EventLeaseLapses, vars, payment
<1>2. refund_status = "not_eligible" => refund_attempt_count = 0
  BY DEF IInv, RowInv
<1>3. WorkersInv' /\ HandlersInv'
  BY <1>1 DEF IInv, WorkersInv, WorkerInv, HandlersInv, Exists, Settled
<1> QED
  BY <1>1, <1>2, <1>3 DEF IInv, ProviderInv, PastAttemptsFailed, RowInv,
     RecordedRefundIsThisAttempts, AttemptIsNeverDropped, Exists, Failed, Pending

\* Every step keeps the types.
LEMMA StepType ==
    ASSUME IInv, [Next]_vars PROVE TypeOK'
<1>0. TypeOK /\ HandlersInv
  BY DEF IInv
<1>1. CASE \E w \in Workers : WorkerStep(w)
  BY <1>0, <1>1, WorkerStepType
<1>2. CASE \E h \in Handlers : HandlerStep(h)
  BY <1>0, <1>2, HandlerStepType
<1>3. CASE \E r \in RefundIds : ProviderSettles(r)
  BY <1>0, <1>3 DEF TypeOK, ProviderSettles, ProviderRefund, ProviderStates, payment
<1>4. CASE \E r \in RefundIds : EventLeaseLapses(r)
  <2>1. PICK r \in RefundIds : EventLeaseLapses(r)
    BY <1>4
  <2>2. [event[r] EXCEPT !.live = FALSE] \in EventRow
    BY <1>0 DEF TypeOK, EventRow
  <2>3. event' \in [RefundIds -> EventRow]
    BY <1>0, <2>1, <2>2 DEF TypeOK, EventLeaseLapses
  <2> QED
    BY <1>0, <2>1, <2>3 DEF TypeOK, EventLeaseLapses, payment
<1>5. CASE QueueRefund \/ LeaseLapses \/ RetryFallsDue \/ UNCHANGED vars
  BY <1>0, <1>5 DEF TypeOK, QueueRefund, LeaseLapses, RetryFallsDue, RefundStatuses,
     vars, payment
<1> QED
  BY <1>1, <1>2, <1>3, <1>4, <1>5 DEF Next, Finished

\* The invariant holds at the start and is kept by every step.
LEMMA Initially == Init => IInv
<1> SUFFICES ASSUME Init PROVE IInv
  OBVIOUS
<1> USE DEF Init
<1>1. TypeOK
  <2>1. Idle \in WorkerState /\ HandlerIdle \in HandlerState
    BY MaxAttemptsIsPositive DEF Idle, HandlerIdle, WorkerState, WorkerSteps, HandlerState
  <2>2. [state |-> "absent", attempt |-> 0] \in ProviderRefund
    BY MaxAttemptsIsPositive DEF ProviderRefund, ProviderStates
  <2>3. [status |-> "absent", token |-> NoToken, live |-> FALSE] \in EventRow
    BY DEF EventRow
  <2>4. /\ provider \in [RefundIds -> ProviderRefund]
        /\ event \in [RefundIds -> EventRow]
        /\ worker \in [Workers -> WorkerState]
        /\ handler \in [Handlers -> HandlerState]
    BY <2>1, <2>2, <2>3
  <2>5. refund_attempt_count \in 0..MaxAttempts
    BY MaxAttemptsIsPositive
  <2> QED
    BY <2>4, <2>5 DEF TypeOK, RefundStatuses
<1>2. ProviderInv /\ RowInv /\ AttemptIsNeverDropped
  BY DEF ProviderInv, RowInv, AttemptIsNeverDropped, Exists, Failed, Pending
<1>3. PastAttemptsFailed
  BY MaxAttemptsIsPositive DEF PastAttemptsFailed
<1>4. RecordedRefundIsThisAttempts
  BY WorkersDiffer DEF RecordedRefundIsThisAttempts
<1>5. WorkersInv /\ HandlersInv
  BY DEF WorkersInv, WorkerInv, HandlersInv, Idle, HandlerIdle
<1> QED
  BY <1>1, <1>2, <1>3, <1>4, <1>5 DEF IInv

LEMMA Inductive == IInv /\ [Next]_vars => IInv'
<1> SUFFICES ASSUME IInv, [Next]_vars PROVE IInv'
  OBVIOUS
<1>1. TypeOK'
  BY StepType
<1>2. ASSUME NEW w \in Workers, WorkerStep(w) PROVE IInv'
  <2>1. CASE ReserveRefund(w) \/ ClaimRefund(w)
    BY <1>1, <2>1, TakingOver
  <2>2. CASE FindRefund(w) \/ FetchRefund(w) \/ ProviderCallFails(w) \/ WorkerStops(w)
    BY <1>1, <2>2, WorkerLearns
  <2>3. CASE CreateRefund(w)
    <3>1. CASE \E r \in Matches(worker[w].attempt) :
                  /\ worker' = [worker EXCEPT ![w] = AfterProviderAnswer(w, r)]
                  /\ UNCHANGED provider
      BY <1>1, <2>3, <3>1, WorkerLearns
    <3>2. CASE \E r \in RefundIds :
                  /\ Matches(worker[w].attempt) = {}
                  /\ ~Exists(r)
                  /\ provider' = [provider EXCEPT ![r] =
                                    [state |-> "pending", attempt |-> worker[w].attempt]]
                  /\ worker' = [worker EXCEPT ![w] = ToRecord(w, r)]
      BY <1>1, <2>3, <3>2, RefundIsMade DEF CreateRefund
    <3> QED
      BY <2>3, <3>1, <3>2 DEF CreateRefund
  <2>4. CASE CreateReplyLost(w)
    BY <1>1, <2>4, RefundIsMade DEF CreateReplyLost
  <2>5. CASE RecordRefundRequest(w) \/ ReconcileRefund(w) \/ PostponeRefund(w)
    BY <1>1, <2>5, WorkerWrites
  <2> QED
    BY <1>2, <2>1, <2>2, <2>3, <2>4, <2>5 DEF WorkerStep
<1>3. ASSUME NEW h \in Handlers, HandlerStep(h) PROVE IInv'
  BY <1>1, <1>3, HandlerKeeps
<1>4. ASSUME NEW r \in RefundIds, ProviderSettles(r) PROVE IInv'
  BY <1>1, <1>4, RefundSettles
<1>5. CASE \/ QueueRefund \/ LeaseLapses \/ RetryFallsDue \/ UNCHANGED vars
           \/ \E r \in RefundIds : EventLeaseLapses(r)
  BY <1>1, <1>5, OthersKeep
<1> QED
  BY <1>2, <1>3, <1>4, <1>5 DEF Next, Finished

-----------------------------------------------------------------------------
(* The theorems.                                                            *)

\* The refund protocol keeps its inductive invariant, whatever the numbers of
\* workers, deliveries and attempts.
THEOREM Invariance == Spec => []IInv
<1> QED
  BY Initially, Inductive, PTL DEF Spec

\* The variables of the refund protocol keep their types.
THEOREM TypeCorrect == Spec => []TypeOK
<1>1. IInv => TypeOK
  BY DEF IInv
<1> QED
  BY <1>1, Invariance, PTL

\* Every refund that can still pay is the current attempt's: the refunds of
\* the attempts before it have failed.
LEMMA PayingRefundIsCurrent ==
    ASSUME IInv, NEW q \in RefundIds, CanPay(q)
    PROVE  Exists(q) /\ provider[q].attempt = refund_attempt_count
<1>1. Exists(q) /\ provider[q].attempt \in 1..refund_attempt_count
  BY DEF IInv, ProviderInv, CanPay, Exists
<1>2. CASE provider[q].attempt < refund_attempt_count
  <2>1. provider[q].attempt \in 1..MaxAttempts
    BY <1>1, MaxAttemptsIsPositive DEF IInv, TypeOK
  <2>2. PICK p \in RefundIds : /\ provider[p].attempt = provider[q].attempt
                               /\ provider[p].state = "failed"
    BY <1>2, <2>1 DEF IInv, PastAttemptsFailed
  <2>3. p = q
    BY <1>1, <2>2 DEF IInv, ProviderInv, Exists
  <2> QED
    BY <2>2, <2>3 DEF CanPay
<1> QED
  BY <1>1, <1>2 DEF IInv, TypeOK

\* The application fee is never given back twice.
THEOREM FeeGivenBackOnce == Spec => []NoDoubleRefund
<1>1. IInv => NoDoubleRefund
  BY PayingRefundIsCurrent DEF NoDoubleRefund, IInv, ProviderInv
<1> QED
  BY <1>1, Invariance, PTL

\* The outcome shown to the applicant and to the editors is the provider's.
THEOREM OutcomeIsTrue == Spec => []OutcomeIsTheProviders
<1>1. IInv => OutcomeIsTheProviders
  <2> SUFFICES ASSUME IInv, refund_status = "refund_failed", NEW q \in RefundIds, CanPay(q)
               PROVE  FALSE
    BY DEF OutcomeIsTheProviders, IInv, RowInv
  <2>1. PICK p \in RefundIds : razorpay_refund_id = p /\ provider[p].state = "failed"
    BY DEF IInv, RowInv, Failed
  <2>2. Exists(p) /\ provider[p].attempt = refund_attempt_count
    BY <2>1 DEF IInv, RecordedRefundIsThisAttempts
  <2>3. p = q
    BY <2>2, PayingRefundIsCurrent DEF IInv, ProviderInv
  <2> QED
    BY <2>1, <2>3 DEF CanPay
<1> QED
  BY <1>1, Invariance, PTL

\* No attempt is started while an earlier one may still pay.
THEOREM AttemptsFollowFailures == Spec => NewAttemptOnlyAfterFailure
<1> DEFINE Step == refund_attempt_count' # refund_attempt_count =>
                     /\ refund_attempt_count' = refund_attempt_count + 1
                     /\ refund_attempt_count > 0 =>
                           \E r \in RefundIds : /\ provider[r].attempt = refund_attempt_count
                                                /\ provider[r].state = "failed"
<1>1. ASSUME IInv, [Next]_vars PROVE Step
  <2>1. Failed => \E r \in RefundIds : /\ provider[r].attempt = refund_attempt_count
                                       /\ provider[r].state = "failed"
    BY <1>1 DEF IInv, RowInv, RecordedRefundIsThisAttempts
  <2>2. ASSUME NEW w \in Workers, ReserveRefund(w) PROVE Step
    BY <2>1, <2>2 DEF ReserveRefund, AdminAttempt
  <2>3. ASSUME NEW w \in Workers, ClaimRefund(w) PROVE Step
    BY <1>1, <2>1, <2>3 DEF ClaimRefund, LifecycleAttempt, IInv, TypeOK
  <2>4. CASE UNCHANGED refund_attempt_count
    BY <2>4
  <2>5. CASE \E w \in Workers : WorkerStep(w)
    BY <2>2, <2>3, <2>4, <2>5 DEF WorkerStep, FindRefund, CreateRefund, FetchRefund,
       ProviderCallFails, CreateReplyLost, RecordRefundRequest, ReconcileRefund,
       PostponeRefund, WorkerStops, payment
  <2>6. CASE \E h \in Handlers : HandlerStep(h)
    BY <2>4, <2>6 DEF HandlerStep, ClaimEvent, CompleteEvent, EventRefused, FailEvent,
       HandlerStops, payment
  <2>7. CASE \/ QueueRefund \/ LeaseLapses \/ RetryFallsDue \/ UNCHANGED vars
             \/ \E r \in RefundIds : ProviderSettles(r) \/ EventLeaseLapses(r)
    BY <2>4, <2>7 DEF QueueRefund, LeaseLapses, RetryFallsDue, ProviderSettles,
       EventLeaseLapses, vars, payment
  <2> QED
    BY <1>1, <2>5, <2>6, <2>7 DEF Next, Finished
<1>2. IInv /\ [Next]_vars => [Step]_vars
  BY <1>1
<1> QED
  BY <1>2, Invariance, PTL DEF Spec, NewAttemptOnlyAfterFailure

\* An attempt under way always leaves something to continue from.
THEOREM AttemptsAreKept == Spec => []AttemptIsNeverDropped
<1>1. IInv => AttemptIsNeverDropped
  BY DEF IInv
<1> QED
  BY <1>1, Invariance, PTL

\* A recorded refund is always the current attempt's.
THEOREM RecordedRefundIsCurrent == Spec => []RecordedRefundIsThisAttempts
<1>1. IInv => RecordedRefundIsThisAttempts
  BY DEF IInv
<1> QED
  BY <1>1, Invariance, PTL

\* A confirmed refund is never undone.
THEOREM ConfirmationIsFinal == Spec => RefundedIsFinal
<1>1. ASSUME IInv, [Next]_vars, refund_status = "refunded"
      PROVE  refund_status' = "refunded" /\ razorpay_refund_id' = razorpay_refund_id
  <2>1. CASE \E w \in Workers : WorkerStep(w)
    BY <1>1, <2>1 DEF WorkerStep, ReserveRefund, ClaimRefund, FindRefund, CreateRefund,
       FetchRefund, ProviderCallFails, CreateReplyLost, RecordRefundRequest,
       ReconcileRefund, PostponeRefund, WorkerStops, Failed, Pending, payment
  <2>2. ASSUME NEW h \in Handlers, CompleteEvent(h)
        PROVE  refund_status' = "refunded" /\ razorpay_refund_id' = razorpay_refund_id
    BY <1>1, <2>2, WorkersDiffer DEF CompleteEvent, RefundOutcome, Accepts, IInv, RowInv
  <2>3. CASE \E h \in Handlers : HandlerStep(h)
    BY <1>1, <2>2, <2>3 DEF HandlerStep, ClaimEvent, EventRefused, FailEvent,
       HandlerStops, payment
  <2>4. CASE \/ QueueRefund \/ LeaseLapses \/ RetryFallsDue \/ UNCHANGED vars
             \/ \E r \in RefundIds : ProviderSettles(r) \/ EventLeaseLapses(r)
    BY <1>1, <2>4 DEF QueueRefund, LeaseLapses, RetryFallsDue, ProviderSettles,
       EventLeaseLapses, vars, payment
  <2> QED
    BY <1>1, <2>1, <2>3, <2>4 DEF Next, Finished
<1>2. IInv /\ [Next]_vars =>
        [refund_status = "refunded" =>
            /\ refund_status' = "refunded"
            /\ razorpay_refund_id' = razorpay_refund_id]_vars
  BY <1>1
<1> QED
  BY <1>2, Invariance, PTL DEF Spec, RefundedIsFinal

-----------------------------------------------------------------------------
(* The fee, from the order to the refund.                                   *)

\* The ids of the onboarding differ (IdsDiffer of ReporterOnboarding).
OnboardingIdsDiffer ==
    /\ NoToken \notin Checkouts \cup Starts
    /\ NoOrder \notin Orders /\ TemporaryOrder \notin Orders
    /\ NoReference \notin References /\ TemporaryReference \notin References

\* The columns agree, and each half of a step is a step of its module or none.
LEMMA FeeSteps ==
    ASSUME SameFee, [FeeNext]_feeVars
    PROVE  SameFee' /\ [Onboarding!Next]_(Onboarding!vars) /\ [Next]_vars
<1>1. UNCHANGED onboardingVars => UNCHANGED Onboarding!vars
  BY DEF onboardingVars, Onboarding!vars, Onboarding!razorpay, Onboarding!kyc
<1>2. CASE FeeNext
  <2>1. RefuseAndQueue => Onboarding!Next /\ Next
    BY DEF RefuseAndQueue, Onboarding!Next, Next
  <2> QED
    BY <1>1, <1>2, <2>1 DEF FeeNext
<1>3. CASE UNCHANGED feeVars
  <2>1. UNCHANGED onboardingVars /\ UNCHANGED vars
    BY <1>3 DEF feeVars
  <2>2. booking' = booking /\ refund_status' = refund_status
    BY <2>1 DEF onboardingVars, vars, payment
  <2> QED
    BY <1>1, <2>1, <2>2 DEF SameFee
<1> QED
  BY <1>2, <1>3

LEMMA FeeInitially == FeeInit => Onboarding!Init /\ Init /\ SameFee
  BY DEF FeeInit, Onboarding!Init, Init, SameFee

\* On one row of reporter_payments, the onboarding and the refund are still what each was
\* taken for by itself (reject_reporter_application queues what claim_reporter_lifecycle and
\* reserve_reporter_refund take up).
THEOREM HalvesOfAFee == FeeSpec => EachFeeByItself
  BY FeeInitially, FeeSteps, PTL DEF FeeSpec, EachFeeByItself, Onboarding!Spec, Spec

\* No fee goes back that was earned or whose application is still open, whatever workers,
\* webhooks and deadlines interleave on the way from the order to the refund.
THEOREM UnearnedFeesGoBack ==
    ASSUME OnboardingIdsDiffer PROVE FeeSpec => []OnlyUnearnedFeesGoBack
<1>1. FeeSpec => []SameFee
  BY FeeInitially, FeeSteps, PTL DEF FeeSpec
<1>2. FeeSpec => []IInv
  BY HalvesOfAFee, Invariance, PTL DEF EachFeeByItself
<1>3. Onboarding!Spec => []Onboarding!FeeFollowsTheDecision
  BY Onboarding!FeeAndDecisionAgree DEF OnboardingIdsDiffer
<1>4. SameFee /\ IInv /\ Onboarding!FeeFollowsTheDecision => OnlyUnearnedFeesGoBack
  <2> SUFFICES ASSUME SameFee, IInv, Onboarding!FeeFollowsTheDecision,
                      NEW r \in RefundIds, Exists(r)
               PROVE  /\ application.status \in {"rejected", "cancelled"}
                      /\ booking.status = "captured"
    BY DEF OnlyUnearnedFeesGoBack
  <2>1. refund_attempt_count # 0
    BY DEF IInv, TypeOK, ProviderInv
  <2>2. refund_status # "not_eligible"
    BY <2>1 DEF IInv, RowInv
  <2>3. booking.refund_status = "refund_pending"
    BY <2>2 DEF SameFee
  <2> QED
    BY <2>3 DEF Onboarding!FeeFollowsTheDecision, Onboarding!Decided
<1> QED
  BY <1>1, <1>2, <1>3, <1>4, HalvesOfAFee, PTL DEF EachFeeByItself
=============================================================================
