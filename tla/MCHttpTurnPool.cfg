SPECIFICATION FairSpec
CONSTANTS
    t1 = t1
    t2 = t2
    t3 = t3
    t4 = t4
    alice = alice
    bob = bob
    NoGate = NoGate
    Turns <- FourTurns
    Principals <- TwoPrincipals
    Owner <- ThreeAndOne
    Workers = 1
    QueueSlots = 1
    PerPrincipal = 1
INVARIANTS
    LimitsKept
    Accounted
PROPERTIES
    PermitsReturn
CHECK_DEADLOCK FALSE
