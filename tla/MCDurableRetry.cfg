SPECIFICATION Spec
CONSTANTS
    u1 = u1
    u2 = u2
    w1 = w1
    w2 = w2
    Units = {u1}
    Workers = {w1, w2}
    NoWorker = NoWorker
    NoUnit = NoUnit
    Effect <- OnePure
    ModelUnits = {u1}
    ErrorClasses = {"executor_transient", "executor_unknown"}
    RetryableClasses <- MCRetryable
    Tolerated = {}
    MaxAttempts = 2
    RetryDelay = 1
    LeaseDuration = 2
    Timeout = 2
    MaxConcurrency = 2
    BatchSize = 2
    Tolerance = 1
    Jumps = {2}
    MaxSkew = 2
    Horizon = 2
    MaxFence = 3
    MaxGeneration = 1
SYMMETRY WorkerSymmetry
INVARIANTS
    TypeOK
    LeaseConsistent
    ResultFromNewestAttempt
    LeaseBounded
    NothingStranded
PROPERTIES
    ResultsFinal
    OverIsOver
    UnitTransitionsLegal
