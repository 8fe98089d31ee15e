\* RETRY_COUNT 2: a first stream and one transfer, each with one retry of
\* NewStream.  Static and dynamic clusters; two client messages, so that a transfer
\* can leave one unread.
SPECIFICATION FairSpec
CONSTANTS
    RetryCount = 2
    Messages = 2
    MaxReplies = 1
INVARIANTS
    TypeOK
    NoUnexpectedTermination
    NoStreamLeftBehind
    ReportedOnce
    OneSenderToClient
    OkMeansServed
PROPERTIES
    HandlerReturns
    GoroutinesEnd
    ImplementsLifecycle
CHECK_DEADLOCK FALSE
