SPECIFICATION FairSpec
CONSTANTS
    Plans <- PassingPlans
    ByteLimit = 8
    MaxDependencies = 1
INVARIANTS
    CandidatesOnce
    ReductionBounded
    NoInputLost
PROPERTIES
    InputsFrozen
    StagesEnd
CHECK_DEADLOCK FALSE
