\* Three sessions take over from each other; a recording that fails is followed by a second
\* one.  Three egresses: a duplicate of the first would have one to use.  When all have
\* ended and access is revoked nothing is left to happen.
SPECIFICATION Spec
CHECK_DEADLOCK FALSE
CONSTANTS
    Sessions = {tab1, tab2, tab3}
    Recordings = {rec1, rec2}
    Egresses = {eg1, eg2, eg3}
    None = None
SYMMETRY Symmetry
INVARIANTS
    OneEgressPerRecording
    RecordsAreTrue
    NoEgressIsForgotten
PROPERTIES
    KeepsThePromise
