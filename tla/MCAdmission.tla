----------------------------- MODULE MCAdmission -----------------------------
EXTENDS GatewayScenarios

Entry(prefix, cluster, authorization, balancer, header) ==
    [prefix |-> prefix, cluster |-> cluster, authorization |-> authorization,
     balancer |-> balancer, header |-> header]

\* Overlapping and equal prefixes, with and without a token, in any order.
Entries ==
    {Entry(<<Service, "*">>, "my_service", "", "", ""),
     Entry(<<"/", Service, "/", "*">>, "my_service", "required", "sticky_sessions",
           "x-user"),
     DockerRoutes[1], DockerRoutes[2]}

Interface(kind, up, text, ipv4, loopback) ==
    [kind |-> kind, up |-> up,
     addresses |-> <<[text |-> text, ipv4 |-> ipv4, loopback |-> loopback]>>]

AuthEnv == [port |-> 5001, expiration |-> Unset]

BackendEnv ==
    [port |-> 5000, discovererUrl |-> "mydiscoverer:8080", hostname |-> "h1",
     interfaces |-> <<Interface("loopback", TRUE, "127.0.0.1", TRUE, TRUE),
                      Interface("ethernet", FALSE, "10.0.0.9", TRUE, FALSE),
                      Interface("ethernet", TRUE, "fe80::1", FALSE, FALSE),
                      Interface("ethernet", TRUE, "10.0.0.2", TRUE, FALSE)>>,
     registrationTtlMs |-> 300000, heartbeatIntervalMs |-> Unset]

Docker ==
    [port |-> 10000, routes |-> DockerRoutes,
     default |-> [action |-> "error", cluster |-> ""], clusters |-> DockerClusters,
     secret |-> [text |-> "dev", space |-> FALSE], retryCount |-> 3,
     retryTimeoutMs |-> 5000, auth |-> AuthEnv, backend |-> BackendEnv]

ToCluster(c) == [action |-> "use_cluster", cluster |-> c]
Padded == [text |-> "dev", space |-> TRUE]

\* A change of one field of the configuration that LoadConfig has to find.
Broken ==
    {[Docker EXCEPT !.port = 0], [Docker EXCEPT !.retryCount = 0],
     [Docker EXCEPT !.retryTimeoutMs = 0], 
     [Docker EXCEPT !.default = ToCluster("ghost"), !.routes = <<DockerRoutes[1]>>],
     [Docker EXCEPT !.default = ToCluster("")], [Docker EXCEPT !.default.action = "drop"],
     [Docker EXCEPT !.secret.text = ""], [Docker EXCEPT !.routes[1].cluster = "ghost"],
     [Docker EXCEPT !.routes[1].prefix = <<"*">>],
     [Docker EXCEPT !.routes[2].header = ""],
     [Docker EXCEPT !.routes[2].authorization = "maybe"],
     [Docker EXCEPT !.routes[1].balancer = "random"],
     [Docker EXCEPT !.clusters["myauth"].address = ""],
     [Docker EXCEPT !.clusters["my_service"].interval = 0],
     [Docker EXCEPT !.clusters["my_service"].discoverer_url = ""]}

\* A backend that does not start: its RPCs fail, the gateway serves all the same.
Stopped ==
    {[Docker EXCEPT !.auth.expiration = NaN], [Docker EXCEPT !.backend.port = 70000],
     [Docker EXCEPT !.backend.interfaces = SubSeq(@, 1, 3)],
     [Docker EXCEPT !.backend.registrationTtlMs = 600001]}

\* The last entry of a file, after the ones that log a session in.
MCConfigs ==
    Broken \union Stopped \union
    {Docker, [Docker EXCEPT !.secret = Padded]} \union
    {[Docker EXCEPT !.routes = <<a, b>>] : a, b \in Entries} \union
    {[Docker EXCEPT !.routes = <<DockerRoutes[1], a, b>>] : a, b \in Entries} \union
    {[Docker EXCEPT !.routes = <<DockerRoutes[1], a>>, !.default = ToCluster("my_service")]
        : a \in Entries}

MCRequests ==
    {c.request : c \in Cases} \union
    {EchoRequest("s1", "token"),
     [EchoRequest("s1", "token") EXCEPT !.key = "s2"]}

MCPieces == {"/", "*", Service, "Login", "MyService"}

MCStoreAnswers ==
    {[outcome |-> "absent", password |-> ""], [outcome |-> "failed", password |-> ""],
     [outcome |-> "found", password |-> "TestPassword"]}

=============================================================================
