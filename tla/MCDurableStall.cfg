SPECIFICATION FairSpec
CONSTANTS
    u1 = u1
    u2 = u2
    w1 = w1
    w2 = w2
    Units = {u1}
    Workers = {w1}
    NoWorker = NoWorker
    NoUnit = NoUnit
    Effect <- OnePure
    ModelUnits = {}
    ErrorClasses = {"executor_unknown"}
    RetryableClasses = {}
    Tolerated = {}
    MaxAttempts = 1
    RetryDelay = 0
    LeaseDuration = 1
    Timeout = 1
    MaxConcurrency = 2
    BatchSize = 1
    Tolerance = 0
    Jumps = {}
    MaxSkew = 0
    Horizon = 0
    MaxFence = 2
    MaxGeneration = 0
PROPERTIES
    FinishedIsEvaluated
