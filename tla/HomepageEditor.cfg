\* Two pages, one persisted section and one slot without a row.  Three edits: one that is
\* saved, one while the save is out, one of the other page.  One reload or failed save: enough
\* for a save that is made, reported as failed, and retried into a conflict.  Work rests
\* when it is saved.
SPECIFICATION FairSpec
CHECK_DEADLOCK FALSE
CONSTANTS
    Editors = {asha, bina}
    Rows = {hero, rail}
    Existing = {hero}
    Placeholders = {latest}
    NoSlot = NoSlot
    None = None
    MaxEdits = 3
    MaxUpsets = 1
INVARIANTS
    TypeOK
    NothingSavedIsLost
    StatusIsTrue
PROPERTIES
    TypingIsNeverUndone
    EveryEditIsSettled
