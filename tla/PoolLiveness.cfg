\* Liveness: no symmetry, so one session and one call in flight.  One call is
\* enough to fail an instance between a fetch and its application.
SPECIFICATION FairSpec
CONSTANTS
    InstanceIDs = {i1, i2}
    Keys = {k1}
    Conns = {n1, n2, n3}
    Calls = {c1}
    NoInstance = NoInstance
    NoKey = NoKey
    NoConn = NoConn
    NoSnapshot = NoSnapshot
    Idle = Idle
PROPERTIES
    GoneIsDropped
    RegisteredIsOffered
