SPECIFICATION Spec
CONSTANTS
    d1 = d1
    d2 = d2
    d3 = d3
    NoDelivery = NoDelivery
    Deliveries <- Everyone
    Loads <- AllLoads
    Files = {"f"}
    MaxVersion = 3
INVARIANTS
    DeliveriesSound
    SameKeySameJob
    OneLiveJob
    LiveSourcesGranted
PROPERTIES
    GateRespected
