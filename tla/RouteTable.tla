----------------------------- MODULE RouteTable -----------------------------
(***************************************************************************)
(* How MyGateway reads its configuration and finds the route of a method:  *)
(* LoadConfig (cmd/config.go), the validation of the routes                *)
(* (domain/route.go), the two tables sorted by the length of the prefix    *)
(* (service/route_matcher_generic.go, helpers/configurable_auth_processor  *)
(* .go) and the errors as the client sees them (service/grpc_error.go).    *)
(*                                                                         *)
(* A path is a sequence of pieces: "/", "*" and names.  The empty string   *)
(* stands for a field that is missing, and the fields are taken after      *)
(* TrimSpace, except the secret: there the space around it matters.        *)
(***************************************************************************)
EXTENDS Integers, SequencesExt

Status(code, msg) == [code |-> code, msg |-> msg]
OK == Status("OK", "")

\* No route: Match returns false.
NoRoute == [prefix |-> <<>>, cluster |-> "", authorization |-> "", balancer |-> "",
            header |-> ""]

-----------------------------------------------------------------------------
(* From the file and the environment to a configuration *)

\* normalizePrefix: one asterisk less at the end, a slash more at the beginning.
NormalizePrefix(prefix) ==
    LET bare == IF prefix # <<>> /\ prefix[Len(prefix)] = "*"
                THEN SubSeq(prefix, 1, Len(prefix) - 1) ELSE prefix
    IN IF bare # <<>> /\ bare[1] # "/" THEN <<"/">> \o bare ELSE bare

OrElse(value, default) == IF value = "" THEN default ELSE value

\* One entry of routes, lines 123-147.
ToRoute(raw) ==
    [prefix        |-> NormalizePrefix(raw.prefix),
     cluster       |-> raw.cluster,
     authorization |-> OrElse(raw.authorization, "none"),
     balancer      |-> OrElse(raw.balancer, "round_robin"),
     header        |-> raw.header]

Routes(raw) == [n \in DOMAIN raw.routes |-> ToRoute(raw.routes[n])]

\* The default route, lines 148-160.
ToDefault(raw) ==
    IF raw.action = "use_cluster"
    THEN [action |-> "use_cluster", cluster |-> raw.cluster]
    ELSE [action |-> "error", cluster |-> ""]

KnownAction(raw) == raw.action \in {"", "error", "use_cluster"}

\* The checks of one route in ValidateRouteConfig.
ValidRoute(route) ==
    /\ route.prefix # <<>>
    /\ route.prefix[1] = "/"
    /\ route.authorization \in {"", "none", "required"}
    /\ route.balancer \in {"", "round_robin", "sticky_sessions"}
    /\ route.balancer = "sticky_sessions" => route.header # ""

ValidateRouteConfig(routes, default) ==
    /\ \A n \in DOMAIN routes : ValidRoute(routes[n])
    /\ default.action = "use_cluster" => default.cluster # ""

\* Lines 164-188, for one cluster.
ValidCluster(cluster) ==
    \/ cluster.type = "static" /\ cluster.address # ""
    \/ cluster.type = "dynamic" /\ cluster.discoverer_url # "" /\ cluster.interval > 0

\* Mutant: the cluster of the default route is not looked up.
RouteClustersExist(routes, default, clusters) ==
    \A n \in DOMAIN routes : routes[n].cluster \in DOMAIN clusters

\* Lines 189-198.
ClustersExist(routes, default, clusters) ==
    /\ \A n \in DOMAIN routes : routes[n].cluster \in DOMAIN clusters
    /\ default.action = "use_cluster" => default.cluster \in DOMAIN clusters

NeedsJWT(routes) == \E n \in DOMAIN routes : routes[n].authorization = "required"

\* strings.TrimSpace of JWT_SECRET, line 199: a secret is its text and what surrounds it.
TrimSpace(secret) == [text |-> secret.text, space |-> FALSE]

\* The ports of TCP.
Ports == 1 .. 65535

\* LoadConfig succeeds.  (The order of the checks only decides which error is logged.)
LoadConfig(raw) ==
    /\ raw.port \in Ports
    /\ KnownAction(raw.default)
    /\ ValidateRouteConfig(Routes(raw), ToDefault(raw.default))
    /\ \A c \in DOMAIN raw.clusters : ValidCluster(raw.clusters[c])
    /\ ClustersExist(Routes(raw), ToDefault(raw.default), raw.clusters)
    /\ NeedsJWT(Routes(raw)) => TrimSpace(raw.secret).text # ""
    /\ raw.retryCount >= 1
    /\ raw.retryTimeoutMs > 0

-----------------------------------------------------------------------------
(* The sorted tables *)

\* Mutants: the tables are searched in the order of the file; positions start at 0.
FileOrders(routes) == {[n \in DOMAIN routes |-> n]}
ZeroBased(routes) == {[n \in DOMAIN routes |-> n - 1]}

\* What sort.Slice may do to a list with these prefixes.  It looks at the lengths
\* alone and makes no random choice, so it does the same to the routes of the matcher
\* and to the rules of the authorization, which come from the same list.
SortOrders(routes) ==
    {order \in [DOMAIN routes -> DOMAIN routes] :
        /\ \A n \in DOMAIN routes : \E m \in DOMAIN routes : order[m] = n
        /\ \A m, n \in DOMAIN routes :
            m < n => Len(routes[order[m]].prefix) >= Len(routes[order[n]].prefix)}

Matches(routes, order, method, n) == IsPrefix(routes[order[n]].prefix, method)

\* The loop over a sorted table stops here.
IsFirstMatch(routes, order, method, n) ==
    /\ Matches(routes, order, method, n)
    /\ \A m \in DOMAIN routes : m < n => ~Matches(routes, order, method, m)

HasMatch(routes, order, method) ==
    \E n \in DOMAIN routes : Matches(routes, order, method, n)

FirstMatch(routes, order, method) ==
    CHOOSE n \in DOMAIN routes : IsFirstMatch(routes, order, method, n)

\* withRouteDefaults
WithRouteDefaults(route) ==
    LET balancer == OrElse(route.balancer, "round_robin")
    IN [prefix        |-> route.prefix,
        cluster       |-> route.cluster,
        authorization |-> OrElse(route.authorization, "none"),
        balancer      |-> balancer,
        header        |-> IF balancer = "sticky_sessions"
                          THEN OrElse(route.header, "session-id") ELSE route.header]

DefaultRoute(default) ==
    WithRouteDefaults([prefix |-> <<>>, cluster |-> default.cluster,
                       authorization |-> "", balancer |-> "", header |-> ""])

\* routeMatcherGeneric.Match
Match(routes, default, order, method) ==
    IF HasMatch(routes, order, method)
    THEN WithRouteDefaults(routes[order[FirstMatch(routes, order, method)]])
    ELSE IF default.action = "use_cluster" THEN DefaultRoute(default) ELSE NoRoute

\* Mutant: the last rule that matches decides.
LastRule(routes, order, method) ==
    IF HasMatch(routes, order, method)
    THEN OrElse(routes[order[CHOOSE n \in DOMAIN routes :
            /\ Matches(routes, order, method, n)
            /\ \A m \in DOMAIN routes : n < m => ~Matches(routes, order, method, m)]]
            .authorization, "none")
    ELSE "none"

\* The mode Process finds for the method, in its own sorted list of rules.
AuthMode(routes, order, method) ==
    IF HasMatch(routes, order, method)
    THEN OrElse(routes[order[FirstMatch(routes, order, method)]].authorization, "none")
    ELSE "none"

-----------------------------------------------------------------------------
(* Errors *)

\* gatewayErrorToGRPC: err is a status of grpc-go or, with code Unknown, an error of
\* the gateway itself, named by msg.
GatewayErrorToGRPC(err) ==
    CASE err.code = "Unavailable" -> Status("Unavailable", "backend_service_unavailable")
      [] err.code \notin {"Unavailable", "Unknown"} -> err
      [] err.code = "Unknown" /\ err.msg = "ErrNoAvailableConnInstance" ->
            Status("ResourceExhausted", "all_instances_are_busy")
      [] err.code = "Unknown" /\ err.msg = "ErrStickyKeyRequired" ->
            Status("Unauthenticated", "missing_or_invalid_token")
      [] OTHER -> Status("Unavailable", "backend_service_unavailable")

=============================================================================
