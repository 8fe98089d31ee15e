\* The three replicas of docker-compose.yml with its RETRY_COUNT, and the four sessions the
\* largest scenario needs; a second call is that of a stream just cancelled. There are
\* |InstanceIDs| + |Calls| connections, so that a fresh one is left whenever the pool
\* dials. Two refreshes: a stale list is installed and corrected. A scenario ends, and
\* with it everything else, so deadlock is not checked.
SPECIFICATION ScenarioSpec
CONSTANTS
    InstanceIDs = {i1, i2, i3}
    Keys = {"s1", "s2", "s3", "s4"}
    Conns = {n1, n2, n3, n4, n5}
    Calls = {c1, c2}
    NoInstance = NoInstance
    NoKey = NoKey
    NoConn = NoConn
    NoSnapshot = NoSnapshot
    Idle = Idle
    Scenarios = {
        "basic_workflow", "sticky_session", "session_transfer", "no_instances_available",
        "system_overload", "gateway_error_unavailable", "stream_subscription",
        "stream_subscription_myservice_stop", "myservice_shutdown_errors"}
    RetryCount = 3
    MaxRefreshes = 2
PROPERTIES
    ScenariosPass
CHECK_DEADLOCK FALSE
