SPECIFICATION FairSpec
CONSTANTS
    j1 = j1
    j2 = j2
    p1 = p1
    p2 = p2
    w1 = w1
    w2 = w2
    NoJob = NoJob
    NoPath = NoPath
    Jobs <- TwoJobs
    Paths <- TwoPaths
    PathsOf <- SharedPath
    Writers <- TwoWriters
    Custody = TRUE
    MaxVersion = 2
    MaxFaults = 1
INVARIANTS
    CleanIsClean
PROPERTIES
    CheckpointsKept
    CleanupEnds
CHECK_DEADLOCK FALSE
