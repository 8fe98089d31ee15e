\* Two sessions, two instances, two RPCs at a time, each of any session, and a third RPC
\* after one of them; two calls at the backends, so that an abandoned one runs beside its
\* successor. One fault, beside any number of failures that are reported. The bound on the
\* RPCs is where the model stops: deadlock is not checked.
SPECIFICATION Spec
CONSTANTS
    Instances = {i1, i2}
    Keys = {a, b}
    Clients = {c1, c2}
    Calls = {h1, h2}
    MaxRPCs = 3
    MaxFaults = 1
    NoInstance = NoInstance
    NoKey = NoKey
    NoCall = NoCall
SYMMETRY Symmetry
INVARIANTS
    TypeOK
    SessionOnOneInstance
    ConflictOnlyAfterRelease
PROPERTIES
    PoolKeepsPromise
CHECK_DEADLOCK FALSE
