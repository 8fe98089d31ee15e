-------------------------- MODULE GatewayScenarios --------------------------
(***************************************************************************)
(* The requests of the integration scenarios about logins and tokens       *)
(* (IntegrationTests/scenario) with the codes these scenarios accept, so   *)
(* that Admission can be held to them at every instant and for every       *)
(* answer of the user store, not only in the order the scenarios use.      *)
(***************************************************************************)
EXTENDS Admission

Service == "my_service.MyServiceAPI"
LoginMethod == <<"/", Service, "/", "Login">>
EchoMethod == <<"/", Service, "/", "MyService", "Echo">>

\* The credentials of the scenarios: cfg.Username and cfg.Password.
Body(username, password, session) ==
    [username |-> username, password |-> password, session |-> session]

LoginRequest(body) ==
    [method |-> LoginMethod, session |-> "", key |-> "", authorization |-> "none",
     body |-> body]

EchoRequest(session, authorization) ==
    [method |-> EchoMethod, session |-> session, key |-> "",
     authorization |-> authorization, body |-> NoRequest.body]

Expect(request, codes) == [request |-> request, codes |-> codes]

\* The session the helper Login of scenario_shared.go gets its token for.
GoodLogin == LoginRequest(Body("TestUser", "TestPassword", "s1"))

\* login_errors.go
LoginErrors ==
    {Expect(LoginRequest(Body("", "wrong", "s1")), {"InvalidArgument"}),
     Expect(LoginRequest(Body("TestUser", "TestPassword", "")), {"InvalidArgument"}),
     Expect(LoginRequest(Body("nobody", "wrong", "s1")), {"PermissionDenied"}),
     Expect(LoginRequest(Body("TestUser", "wrong", "s1")), {"PermissionDenied"})}

\* gateway_error_unauthenticated.go
GatewayErrorUnauthenticated ==
    {Expect(LoginRequest(Body("TestUser", "TestPassword", "")), {"InvalidArgument"}),
     Expect(EchoRequest("", "none"), {"Unauthenticated"}),
     Expect(GoodLogin, {"OK"}),
     Expect(EchoRequest("s1", "none"), {"Unauthenticated"}),
     Expect(EchoRequest("", "token"), {"Unauthenticated"}),
     Expect(EchoRequest("s1", "garbage"), {"Unauthenticated"})}

\* myservice_authentication_errors.go: the token belongs to another session.
MyServiceAuthenticationErrors ==
    {Expect(EchoRequest("", "none"), {"Unauthenticated"}),
     Expect(EchoRequest("s1", "garbage"), {"Unauthenticated"}),
     Expect(EchoRequest("s2", "token"), {"Unauthenticated"}),
     Expect(EchoRequest("", "token"), {"InvalidArgument", "Unauthenticated"})}

Cases == LoginErrors \union GatewayErrorUnauthenticated \union MyServiceAuthenticationErrors

\* cmd/gateway.docker.yaml
DockerRoutes ==
    <<[prefix |-> <<"/", Service, "/", "Login">>, cluster |-> "myauth",
       authorization |-> "none", balancer |-> "round_robin", header |-> ""],
      [prefix |-> <<"/", Service, "/", "MyService">>, cluster |-> "my_service",
       authorization |-> "required", balancer |-> "sticky_sessions",
       header |-> "session-id"]>>

DockerClusters ==
    [c \in {"myauth", "my_service"} |->
        IF c = "myauth"
        THEN [type |-> "static", address |-> "myauth:5001", discoverer_url |-> "",
              interval |-> 0, serves |-> "Login"]
        ELSE [type |-> "dynamic", address |-> "", discoverer_url |-> "mydiscoverer:8080",
              interval |-> 5000, serves |-> "Echo"]]

\* What the codes of the scenarios rest on: the cluster of the logins serves them, no user
\* has the password that the scenarios take for a wrong one, and every login is for the
\* session that the scenarios hold a token of.
ASSUME ScenarioSetting ==
    /\ \A c \in Configs :
        c.routes = DockerRoutes /\ LoadConfig(c) => c.clusters["myauth"].serves = "Login"
    /\ \A stored \in StoreAnswers : stored.password # "wrong"
    /\ \A request \in Requests : request.body.session \in {"", "s1"}

\* The answer is not about an outage: the scenarios run with everything up.
ServicesAnswered == rpc.status.code \notin {"Unavailable", "ResourceExhausted", "Internal"}

\* With the configuration of docker-compose every request of these scenarios gets a code
\* its scenario accepts, at any time and after any other request: an answer never depends
\* on what the store says of a user, and no token passes for another session.
ScenariosHold ==
    rpc.phase = "done" /\ ServicesAnswered /\ raw.routes = DockerRoutes =>
        \A c \in Cases : rpc.request = c.request => rpc.status.code \in c.codes

=============================================================================
