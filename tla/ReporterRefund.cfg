\* One administrator, one run of the lifecycle job, one webhook handler, two
\* attempts: each takes the refund over from any other, stops and is fair.
SPECIFICATION LiveSpec
CONSTANTS
    Admins = {admin}
    Crons = {cron}
    Handlers = {hook}
    RefundIds = {rfnd1, rfnd2}
    NoRefund = NoRefund
    NoToken = NoToken
    MaxAttempts = 2
INVARIANTS
    NoDoubleRefund
    OutcomeIsTheProviders
    RecordedRefundIsThisAttempts
    AttemptIsNeverDropped
PROPERTIES
    FeeComesBack
