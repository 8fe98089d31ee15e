\* Two instances, two sessions, two calls in flight: every pairing of a late
\* report with a rebinding or a refresh.  |InstanceIDs| + |Calls| connections are
\* enough for a fresh one to be left whenever the pool dials.
SPECIFICATION RotationSpec
CONSTANTS
    InstanceIDs = {i1, i2}
    Keys = {k1, k2}
    Conns = {n1, n2, n3, n4}
    Calls = {c1, c2}
    NoInstance = NoInstance
    NoKey = NoKey
    NoConn = NoConn
    NoSnapshot = NoSnapshot
    Idle = Idle
SYMMETRY Symmetry
INVARIANTS
    TypeOK
    OneSessionPerInstance
    NoConnectionLeak
    LeaseIsCached
    ListCoversCache
    ClosedForGood
PROPERTIES
    EvenRotation
    BindingIsSticky
    DisconnectedOnlyWhenDelisted
    ImplementsAffinity
