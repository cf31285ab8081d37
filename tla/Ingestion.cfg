\* One source, one article; the cron and the button; the lock is as long as an invocation may last.
SPECIFICATION FairSpec
CHECK_DEADLOCK FALSE
CONSTANTS
    Crons = {cron}
    Buttons = {button}
    wire = wire
    flood = flood
    report = report
    Sources = {wire}
    Articles = {report}
    Titles = {flood}
    Feed <- MCFeed
    TitleOf <- MCTitleOf
    Order <- MCOrder
    None = None
    RetryCount = 1
    Interval = 1
    MaxDuration = 1
    LockSpan = 1
    MaxNow = 1
    MaxUpsets = 1
INVARIANTS
    OneBatchAtATime
    CountsAreReal
    NothingIsDropped
PROPERTIES
    EveryBatchEnds
