SPECIFICATION Spec
CONSTANTS
    Pieces <- MCPieces
    Configs <- MCConfigs
    Requests <- MCRequests
    StoreAnswers <- MCStoreAnswers
    Second = 2
    Lifetime = 3
    AuthZone = 3
    BackendZone = 0
    MaxClock = 5
INVARIANTS
    TypeOK
    MostSpecificRoute
    AdmittedWithToken
    StickyToTokenSession
    ClusterOfRouteExists
    RefusedLateOnly
    GoodUntilLastSecond
    ScenariosHold
CHECK_DEADLOCK FALSE
