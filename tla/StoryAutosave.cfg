\* Three edits, one of which lacks a detail, and two upsets.
SPECIFICATION FairSpec
CHECK_DEADLOCK FALSE
CONSTANTS
    None = None
    Incomplete = {0, 2}
    MaxEdits = 3
    MaxUpsets = 2
INVARIANTS
    TypeOK
    SavedIsStored
    SubmittedAsShown
    RecoveryKept
PROPERTIES
    EveryTextIsSettled
