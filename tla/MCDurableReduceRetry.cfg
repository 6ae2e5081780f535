SPECIFICATION Spec
CONSTANTS
    Plans <- RetryPlans
    ByteLimit = 8
    MaxDependencies = 1
INVARIANTS
    NoInputLost
CHECK_DEADLOCK FALSE
