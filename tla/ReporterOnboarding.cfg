\* Two requests for an order that race, two starts of an identity check that
\* race, two orders and two references.  An application ends when it is
\* decided, so a state without a next one is no error.
SPECIFICATION LiveSpec
CHECK_DEADLOCK FALSE
CONSTANTS
    Checkouts = {tab1, tab2}
    Starts = {start1, start2}
    Orders = {order1, order2}
    References = {ref1, ref2}
    NoToken = NoToken
    NoOrder = NoOrder
    TemporaryOrder = TemporaryOrder
    NoReference = NoReference
    TemporaryReference = TemporaryReference
INVARIANTS
    PaidOrderCanBeBooked
    FeeFollowsTheDecision
    VerifiedInTheRecordedSession
PROPERTIES
    KeepsTheFeePromise
    PayingApplicantIsServed
