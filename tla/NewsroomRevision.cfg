\* One editor is enough: a page on revision 1, another on the request for changes.
SPECIFICATION Spec
CHECK_DEADLOCK FALSE
CONSTANTS
    Writers = {}
    Editors = {esha}
    Admins = {anil}
    Articles = {}
    Imports = {}
    Reports = {report}
    None = None
    MaxClock = 5
    MaxEdits = 2
    MaxCommands = 2
INVARIANTS
    ActionsApplyToTheRevisionShown
