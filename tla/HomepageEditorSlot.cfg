\* One page, one slot, two edits, no failure: enough to create two rows for the slot.
SPECIFICATION Spec
CHECK_DEADLOCK FALSE
CONSTANTS
    Editors = {asha}
    Rows = {hero, rail, ticker}
    Existing = {hero}
    Placeholders = {latest}
    NoSlot = NoSlot
    None = None
    MaxEdits = 2
    MaxUpsets = 0
INVARIANTS
    OneRowPerSlot
