\* Two administrators' syncs that overtake each other, and one request of the
\* temporary onboarding that was under way before them.
SPECIFICATION Spec
CONSTANTS
    Admins = {admin1, admin2}
    Temps = {temp}
    Sessions = {phone}
    NoToken = NoToken
    SyncRounds = 2
    MaxGeneration = 3
SYMMETRY Symmetry
INVARIANTS
    SuccessIsAgreed
    VerifiedWriteHolds
PROPERTIES
    SuccessIsMonotonic
    TemporaryNeverOverrules
    KeepsTheGate
