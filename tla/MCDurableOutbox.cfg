SPECIFICATION FairSpec
CONSTANTS
    n1 = n1
    n2 = n2
    s1 = s1
    s2 = s2
    Notices = {n1, n2}
    Senders = {s1, s2}
    NoRecord = NoRecord
    MaxAttempts = 2
    Limit = 1
    MaxFence = 3
    MaxFaults = 1
INVARIANTS
    AtMostOnce
    AckTruthful
    CallsBounded
PROPERTIES
    ImplementsNotice
    Settles
CHECK_DEADLOCK FALSE
