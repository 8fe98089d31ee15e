\* A late failure report moves a session off a healthy instance.
SPECIFICATION Spec
CONSTANTS
    InstanceIDs = {i1, i2}
    Keys = {k1, k2}
    Conns = {n1, n2, n3, n4}
    Calls = {c1, c2}
    NoInstance = NoInstance
    NoKey = NoKey
    NoConn = NoConn
    NoSnapshot = NoSnapshot
    Idle = Idle
SYMMETRY Symmetry
PROPERTY BoundUntilFailure
