SPECIFICATION Spec
CONSTANTS
    u1 = u1
    u2 = u2
    w1 = w1
    w2 = w2
    Units = {u1, u2}
    Workers = {w1, w2}
    NoWorker = NoWorker
    NoUnit = NoUnit
    Effect <- PureAndManual
    ModelUnits = {}
    ErrorClasses = {"executor_unknown", "executor_permanent", "contract_violation"}
    RetryableClasses = {}
    Tolerated = {"executor_permanent"}
    MaxAttempts = 1
    RetryDelay = 0
    LeaseDuration = 1
    Timeout = 1
    MaxConcurrency = 2
    BatchSize = 1
    Tolerance = 0
    Jumps = {}
    MaxSkew = 0
    Horizon = 0
    MaxFence = 2
    MaxGeneration = 1
SYMMETRY WorkerSymmetry
INVARIANTS
    StatesMeanIt
PROPERTIES
    TransitionsLegal
