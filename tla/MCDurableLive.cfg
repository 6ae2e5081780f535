SPECIFICATION FairSpec
CONSTANTS
    u1 = u1
    u2 = u2
    w1 = w1
    w2 = w2
    Units = {u1}
    Workers = {w1, w2}
    NoWorker = NoWorker
    NoUnit = NoUnit
    Effect <- OneReconcilable
    ModelUnits = {}
    ErrorClasses = {"executor_transient", "executor_unknown"}
    RetryableClasses <- MCRetryable
    Tolerated = {}
    MaxAttempts = 2
    RetryDelay = 1
    LeaseDuration = 1
    Timeout = 1
    MaxConcurrency = 2
    BatchSize = 2
    Tolerance = 0
    Jumps = {}
    MaxSkew = 0
    Horizon = 0
    MaxFence = 3
    MaxGeneration = 2
INVARIANTS
    StartsAuthorised
PROPERTIES
    StopsEnd
