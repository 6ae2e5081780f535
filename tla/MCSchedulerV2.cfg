SPECIFICATION FairSpec
CONSTANTS
    Names = {"job", "timer"}
    Recurring = {"job"}
    Times <- Countdown
    Restricted = {"timer"}
    Sync = {"timer"}
    TimedOut = {"job", "timer"}
    Ops = {"add", "again", "delete", "disable", "enable", "run_now", "stop"}
    MaxOps = 2
    MaxMishaps = 1
    Period = 1
    Grace = 1
    BreakAfter = 1
    RetryBase = 2
    RetryMax = 2
    MaxSleep = 1
    MaxConcurrent = 1
    MaxRuns = 4
    MaxId = 2
INVARIANTS
    RunsAsAsked
    RunsAccounted
PROPERTIES
    EntriesFire
