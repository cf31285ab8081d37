\* One writer, one editor, one admin and one reporter on one article and one report.
SPECIFICATION Spec
CHECK_DEADLOCK FALSE
CONSTANTS
    Writers = {wasim}
    Editors = {esha}
    Admins = {anil}
    Articles = {article}
    Imports = {}
    Reports = {report}
    None = None
    MaxClock = 5
    MaxEdits = 3
    MaxCommands = 2
INVARIANTS
    EvidenceAgrees
    DecidedAsRead
PROPERTIES
    NoWorkIsLost
    EvidenceIsImmutable
