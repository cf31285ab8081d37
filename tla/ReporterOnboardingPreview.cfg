\* One request of each kind is enough to queue the refund of a dummy payment.
\* A decided application may rest: a state without a next one is no error.
SPECIFICATION Spec
CHECK_DEADLOCK FALSE
CONSTANTS
    Checkouts = {tab1}
    Starts = {start1}
    Orders = {order1, order2}
    References = {ref1, ref2}
    NoToken = NoToken
    NoOrder = NoOrder
    TemporaryOrder = TemporaryOrder
    NoReference = NoReference
    TemporaryReference = TemporaryReference
INVARIANTS
    RefundsAreOfRealPayments
