SPECIFICATION Spec
CONSTANTS
    k1 = k1
    k2 = k2
    Keys <- TwoKeys
    MaxRequests = 2
    MaxGeneration = 2
    MaxVersion = 8
SYMMETRY Symmetry
INVARIANTS
    NothingAppliedTwice
PROPERTIES
    AnswersStable
    ActsOnWhatWasSeen
    DismissedIsOver
CHECK_DEADLOCK FALSE
