\* One instance, with two attempts to register, and listings.  A request may outlast the patience of
\* its process; the time to live is one tick longer than a response, a heartbeat and
\* a request can take together.
SPECIFICATION FairSpec
CONSTANTS
    InstanceIDs = {i1}
    Ttl = 6
    Heartbeat = 2
    RetryDelay = 1
    MaxTries = 2
    HttpTimeout = 1
    MaxDelay = 2
    ReadsMayFail = FALSE
    NoListing = NoListing
INVARIANTS
    TypeOK
    HeartbeatKeepsListed
PROPERTIES
    SilentLeaves
    UnregisteredReturns
    ImplementsRegistry
