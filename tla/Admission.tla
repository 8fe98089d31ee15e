------------------------------ MODULE Admission ------------------------------
(***************************************************************************)
(* The way of one RPC from the client to a backend and what it needs on    *)
(* that way: a configuration the gateway started with, a route, a token    *)
(* the gateway accepts, a connection, and a backend that checks the token  *)
(* again (MyGateway/cmd/main.go, service/transparent.go lines 73-89,       *)
(* helpers/configurable_auth_processor.go, service/connection_resolver_    *)
(* generic.go; MyAuth; MyService/AuthInterceptor.cs).                      *)
(*                                                                         *)
(* Time passes between any two steps.  The pool is its answer, the stream  *)
(* with its retries its last status: ConnectionPool and TransparentProxy   *)
(* are about these.                                                        *)
(***************************************************************************)
EXTENDS RouteTable, AuthTokens, BackendConfig

CONSTANTS
    Pieces,       \* what paths are made of: "/", "*" and names
    Configs,      \* the files and environments the gateway may be started with
    Requests,     \* the requests a client may send
    StoreAnswers, \* what Redis may answer for a user the code does not know
    MaxClock      \* bound: the last instant the model looks at

ASSUME ConfigsAreTyped ==
    /\ "/" \in Pieces
    /\ \A c \in Configs :
        /\ Len(c.routes) \in Nat
        /\ DOMAIN c.routes = 1 .. Len(c.routes)
        /\ \A n \in DOMAIN c.routes : c.routes[n].prefix \in Seq(Pieces)
        /\ c.secret = [text |-> c.secret.text, space |-> c.secret.space]
        /\ c.secret.space \in BOOLEAN

VARIABLES
    raw,      \* the YAML file, and the environment of the three services
    order,    \* what sort.Slice did to the list of routes
    gateway,  \* "starting", "refused" or "serving"
    clock,
    issued,   \* the last token MyAuth issued, and when it is said to end
    rpc       \* the RPC under way

vars == <<raw, order, gateway, clock, issued, rpc>>

NoRequest == [method |-> <<>>, session |-> "", key |-> "", authorization |-> "none",
              body |-> [username |-> "", password |-> "", session |-> ""]]

Idle == [phase |-> "idle", request |-> NoRequest, token |-> NoToken, validTill |-> 0,
         route |-> NoRoute, at |-> 0, sticky |-> "", status |-> OK]

-----------------------------------------------------------------------------
(* Helpers *)

routes == Routes(raw)
default == ToDefault(raw.default)
JWTSecret == TrimSpace(raw.secret)

\* The RPC one phase on, and answered with a status.
Advance(phase, route, at, sticky, status) ==
    [phase |-> phase, request |-> rpc.request, token |-> rpc.token,
     validTill |-> rpc.validTill, route |-> route, at |-> at, sticky |-> sticky,
     status |-> status]

Answer(status) == Advance("done", rpc.route, clock, rpc.sticky, status)

\* GetHeaderValue of the header of the balancer; metadata keys are lower case.
HeaderValue(header) ==
    CASE header = "session-id" -> rpc.request.session
      [] header = "x-user" -> rpc.request.key
      [] OTHER -> ""

\* Process: "OK", or the status the RPC is refused with.
Process ==
    IF AuthMode(routes, order, rpc.request.method) # "required" THEN OK
    ELSE IF rpc.request.session = "" THEN Status("Unauthenticated", "missing_session_id")
    ELSE IF rpc.token.form # "none"
            /\ ValidateToken(rpc.request.session, rpc.token, JWTSecret, clock)
         THEN OK
    ELSE Status("Unauthenticated", "missing_or_invalid_token")

\* Mutant: whatever the route says, the key is in another header.
UserKey == HeaderValue("x-user")

\* The sticky key of GetConnection.
StickyKey ==
    HeaderValue(IF rpc.route.header = "" THEN "session-id" ELSE rpc.route.header)

Cluster == raw.clusters[rpc.route.cluster]
KnownCluster == rpc.route.cluster \in DOMAIN raw.clusters
IsSticky == Cluster.type = "dynamic" /\ rpc.route.balancer = "sticky_sessions"

-----------------------------------------------------------------------------

Init ==
    /\ raw \in Configs
    /\ order \in SortOrders(Routes(raw))
    /\ gateway = "starting"
    /\ clock = 0
    /\ issued = [token |-> NoToken, validTill |-> 0]
    /\ rpc = Idle

\* main: the server starts, or the process exits.
Start ==
    /\ gateway = "starting"
    /\ gateway' = IF LoadConfig(raw) /\ ValidateRouteConfig(routes, default)
                  THEN "serving" ELSE "refused"
    /\ UNCHANGED <<raw, order, clock, issued, rpc>>

\* The client sends the token it was given last, something else, or nothing.
Presented(request) ==
    CASE request.authorization = "token" -> issued.token
      [] request.authorization = "garbage" -> Garbage
      [] OTHER -> NoToken

Arrive(request) ==
    /\ gateway = "serving"
    /\ rpc.phase = "idle"
    /\ request.authorization = "token" => issued.token.form = "signed"
    /\ rpc' = [phase |-> "route", request |-> request, token |-> Presented(request),
                validTill |-> issued.validTill, route |-> NoRoute, at |-> 0,
                sticky |-> "", status |-> OK]
    /\ UNCHANGED <<raw, order, gateway, clock, issued>>

\* Handler, lines 78-81.
MatchRoute ==
    /\ rpc.phase = "route"
    /\ LET route == Match(routes, default, order, rpc.request.method)
       IN rpc' = IF route = NoRoute
                 THEN Answer(Status("Unimplemented", "method_not_routed"))
                 ELSE Advance("headers", route, rpc.at, rpc.sticky, rpc.status)
    /\ UNCHANGED <<raw, order, gateway, clock, issued>>

\* Lines 83-87.
ProcessHeaders ==
    /\ rpc.phase = "headers"
    /\ rpc' = IF Process = OK THEN Advance("resolve", rpc.route, clock, rpc.sticky, rpc.status)
              ELSE Answer(Process)
    /\ UNCHANGED <<raw, order, gateway, clock, issued>>

\* GetConnection without a connection.
ResolveFails ==
    /\ rpc.phase = "resolve"
    /\ \E err \in {"ErrGenericUnknownCluster", "ErrStickyKeyRequired",
                   "ErrNoAvailableConnInstance", "ErrConnPoolClosed"} :
        /\ err = "ErrGenericUnknownCluster" <=> ~KnownCluster
        /\ err # "ErrGenericUnknownCluster" => Cluster.type = "dynamic"
        /\ err = "ErrStickyKeyRequired" => IsSticky
        /\ err # "ErrGenericUnknownCluster" /\ IsSticky =>
            (err = "ErrStickyKeyRequired" <=> StickyKey = "")
        /\ rpc' = Answer(GatewayErrorToGRPC(Status("Unknown", err)))
    /\ UNCHANGED <<raw, order, gateway, clock, issued>>

\* GetConnection with the connection of a static cluster, or one of a pool.
Resolve ==
    /\ rpc.phase = "resolve"
    /\ KnownCluster
    /\ IsSticky => StickyKey # ""
    /\ rpc' = Advance("backend", rpc.route, rpc.at, IF IsSticky THEN StickyKey ELSE "",
                      rpc.status)
    /\ UNCHANGED <<raw, order, gateway, clock, issued>>

\* NewStream or the stream fails, for the last time.
StreamFails ==
    /\ rpc.phase = "backend"
    /\ rpc' = Answer(GatewayErrorToGRPC(Status("Unavailable", "")))
    /\ UNCHANGED <<raw, order, gateway, clock, issued>>

\* The method is sent to a service that does not have it.
NotImplemented ==
    /\ rpc.phase = "backend"
    /\ rpc.request.method[Len(rpc.request.method)] # Cluster.serves
    /\ rpc' = Answer(GatewayErrorToGRPC(Status("Unimplemented", "")))
    /\ UNCHANGED <<raw, order, gateway, clock, issued>>

\* MyAuth: Login, with whatever Redis answers for the user.
Login ==
    /\ rpc.phase = "backend"
    /\ Cluster.serves = "Login"
    /\ rpc.request.method[Len(rpc.request.method)] = "Login"
    /\ AuthConfigOK(raw.auth, raw.secret)
    /\ \E stored \in StoreAnswers :
        LET code == LoginStatus(rpc.request.body, stored)
            validTill == clock + Lifetime
        IN /\ rpc' = Answer(GatewayErrorToGRPC(Status(code, "")))
           /\ issued' = IF code = "OK"
                        THEN [token |-> CreateToken(rpc.request.body.session, validTill,
                                                    raw.secret),
                              validTill |-> validTill]
                        ELSE issued
    /\ UNCHANGED <<raw, order, gateway, clock>>

\* MyService: the interceptor, then the session the method needs.
Echo ==
    /\ rpc.phase = "backend"
    /\ Cluster.serves = "Echo"
    /\ rpc.request.method[Len(rpc.request.method)] = "Echo"
    /\ MSConfigOK(raw.backend, raw.secret)
    /\ rpc' = Answer(GatewayErrorToGRPC(
            IF ~BackendAccepts(rpc.request.session, rpc.token, raw.secret, clock)
            THEN Status("Unauthenticated", "refused_by_the_backend")
            ELSE IF rpc.request.session = ""
            THEN Status("InvalidArgument", "") ELSE OK))
    /\ UNCHANGED <<raw, order, gateway, clock, issued>>

Finish ==
    /\ rpc.phase = "done"
    /\ rpc' = Idle
    /\ UNCHANGED <<raw, order, gateway, clock, issued>>

Tick ==
    /\ gateway = "serving"
    /\ clock < MaxClock
    /\ clock' = clock + 1
    /\ UNCHANGED <<raw, order, gateway, issued, rpc>>

Next ==
    \/ Start
    \/ \E request \in Requests : Arrive(request)
    \/ MatchRoute \/ ProcessHeaders
    \/ Resolve \/ ResolveFails
    \/ StreamFails \/ NotImplemented \/ Login \/ Echo
    \/ Finish \/ Tick

Spec == Init /\ [][Next]_vars

-----------------------------------------------------------------------------

Phases == {"idle", "route", "headers", "resolve", "backend", "done"}

TypeOK ==
    /\ raw \in Configs
    /\ order \in [DOMAIN routes -> DOMAIN routes]
    /\ gateway \in {"starting", "refused", "serving"}
    /\ clock \in Nat
    /\ issued.validTill \in Nat
    /\ issued.token.expires \in Nat
    /\ rpc.phase \in Phases
    /\ rpc.request \in Requests \union {NoRequest}
    /\ rpc.token.expires \in Nat
    /\ rpc.validTill \in Nat
    /\ rpc.at \in Nat

\* What MyAuth signed it signed with its secret, and the claim is the promise of the
\* response without the fraction of the second.
Genuine(token, validTill) ==
    token.form = "signed" =>
        token.secret = raw.secret /\ token.expires = validTill \div Second

\* The inductive invariant behind the safety properties below.
IInv ==
    /\ TypeOK
    /\ order \in SortOrders(routes)
    /\ gateway = "serving" => LoadConfig(raw)
    /\ rpc.phase # "idle" => gateway = "serving"
    /\ rpc.phase # "idle" =>
        rpc.route \in {NoRoute, Match(routes, default, order, rpc.request.method)}
    /\ rpc.phase \in {"headers", "resolve", "backend"} => rpc.route # NoRoute
    /\ Genuine(issued.token, issued.validTill)
    /\ Genuine(rpc.token, rpc.validTill)

\* The RPC has a route, and has not been answered yet.
Routed == rpc.phase \in {"headers", "resolve", "backend"}

\* The gateway let the RPC through to a backend.
Admitted == rpc.phase \in {"resolve", "backend"}

\* The entries of the file whose prefix the method has.
Candidates == {n \in DOMAIN routes : IsPrefix(routes[n].prefix, rpc.request.method)}

\* Whatever order the file lists overlapping prefixes in, and whatever the sort does to
\* equal ones, the RPC takes a route with the longest prefix of its method, and the
\* default only when there is none (service/route_matcher_generic.go:49).
MostSpecificRoute ==
    Routed =>
        IF Candidates = {} THEN rpc.route = DefaultRoute(default)
        ELSE \E n \in Candidates :
                /\ rpc.route = WithRouteDefaults(routes[n])
                /\ \A m \in Candidates :
                    Len(routes[n].prefix) >= Len(routes[m].prefix)

\* The two tables never disagree: an RPC that was let through on a route that requires
\* a token carried one that MyAuth signed for the session in its header, with the same
\* secret, and that was good at that moment (configurable_auth_processor.go:64).
AdmittedWithToken ==
    Admitted /\ rpc.route.authorization = "required" =>
        /\ rpc.request.session # ""
        /\ ParseAndVerify(rpc.token, JWTSecret)
        /\ rpc.token.session = rpc.request.session
        /\ rpc.at <= rpc.token.expires * Second

\* A route on which the session selects the instance, with a token: the instance is
\* that of the session the token was issued for, not of one the client made up.
StickyToTokenSession ==
    /\ rpc.phase = "backend"
    /\ rpc.route.authorization = "required"
    /\ IsSticky /\ rpc.route.header = "session-id"
    => rpc.sticky = rpc.token.session

\* A running gateway has a connection or a pool for every route it may answer with:
\* ErrGenericUnknownCluster is ruled out by LoadConfig (cmd/config.go:189).
ClusterOfRouteExists == Routed => KnownCluster

\* The last answer came from the second check of the token.
RefusedByBackend ==
    rpc.phase = "done" /\ rpc.status = Status("Unauthenticated", "refused_by_the_backend")

\* On a route that requires a token the second check refuses only what ran out after
\* the first: the two services read the same claim, the same way, to the same instant
\* (validator.go:40, JwtVerifier.cs:87).
RefusedLateOnly ==
    RefusedByBackend /\ rpc.route.authorization = "required" =>
        rpc.at > rpc.token.expires * Second

\* The gateway does not turn away the session a token was issued for before the last
\* second of what LoginResponse.expires_at promised, if the secret has no space around
\* it that only the gateway would trim (MyAuth/service/jwt.go:30, cmd/config.go:199).
\* (A request without the header of the balancer is told the same of its token.)
GoodUntilLastSecond ==
    /\ rpc.phase = "done"
    /\ rpc.status = Status("Unauthenticated", "missing_or_invalid_token")
    /\ rpc.route.authorization = "required"
    /\ rpc.token.form = "signed" /\ rpc.token.session = rpc.request.session
    /\ ~(IsSticky /\ StickyKey = "")
    /\ ~raw.secret.space
    => rpc.at > rpc.validTill - Second

=============================================================================
