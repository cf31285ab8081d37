\* One recording, as each is kept by itself; three daily runs, of which two stop on the way.
\* The credentials arrive and stay.  A published recording may rest.
SPECIFICATION FairSpec
CHECK_DEADLOCK FALSE
CONSTANTS
    Recordings = {rec1}
    Runs = {monday, tuesday, wednesday}
    None = None
    MayLoseCredentials = FALSE
INVARIANTS
    PublishedIsKept
PROPERTIES
    DeletedWhileDue
    DueIsDeleted
