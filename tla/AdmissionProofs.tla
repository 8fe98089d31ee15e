--------------------------- MODULE AdmissionProofs ---------------------------
(* Theorems about Admission, for any configurations, requests and times. *)
EXTENDS Admission, WellFoundedInduction, TLAPS

-----------------------------------------------------------------------------
(* The route table *)

\* A slash before a path leaves a path.
LEMMA SlashBefore ==
    ASSUME NEW S, NEW x \in S, NEW s \in Seq(S)
    PROVE  <<x>> \o s \in Seq(S)
  OBVIOUS

\* Normalizing a prefix leaves a path (normalizePrefix).
LEMMA NormalizedIsPath ==
    ASSUME NEW p \in Seq(Pieces)
    PROVE  NormalizePrefix(p) \in Seq(Pieces)
<1> DEFINE bare == IF p # <<>> /\ p[Len(p)] = "*" THEN SubSeq(p, 1, Len(p) - 1) ELSE p
<1>1. bare \in Seq(Pieces)
  OBVIOUS
<1> HIDE DEF bare
<1>2. "/" \in Pieces
  BY ConfigsAreTyped
<1>3. <<"/">> \o bare \in Seq(Pieces)
  BY <1>1, <1>2, SlashBefore
<1>4. NormalizePrefix(p) = IF bare # <<>> /\ bare[1] # "/" THEN <<"/">> \o bare ELSE bare
  BY DEF NormalizePrefix, bare
<1> QED
  BY <1>1, <1>3, <1>4

\* The routes of any configuration are numbered from 1, their prefixes are paths.
LEMMA RoutesTyped ==
    ASSUME raw \in Configs
    PROVE  /\ Len(raw.routes) \in Nat
           /\ DOMAIN routes = 1 .. Len(raw.routes)
           /\ \A n \in DOMAIN routes : Len(routes[n].prefix) \in Nat
<1>1. /\ Len(raw.routes) \in Nat
      /\ DOMAIN raw.routes = 1 .. Len(raw.routes)
      /\ \A n \in DOMAIN raw.routes : raw.routes[n].prefix \in Seq(Pieces)
  BY ConfigsAreTyped
<1>2. DOMAIN routes = DOMAIN raw.routes
  BY DEF routes, Routes
<1>3. ASSUME NEW n \in DOMAIN raw.routes
      PROVE  routes[n].prefix = NormalizePrefix(raw.routes[n].prefix)
  BY DEF routes, Routes, ToRoute
<1>4. \A n \in DOMAIN routes : routes[n].prefix \in Seq(Pieces)
  BY <1>1, <1>2, <1>3, NormalizedIsPath
<1> QED
  BY <1>1, <1>2, <1>4

\* Every nonempty set of numbers has a least one.
LEMMA Least ==
    ASSUME NEW T \in SUBSET Nat, T # {}
    PROVE  \E x \in T : \A y \in T : x <= y
<1>1. \E x \in T : \A y \in T : <<y, x>> \notin OpToRel(<, Nat)
  BY WFMin, NatLessThanWellFounded
<1>2. ASSUME NEW x \in Nat, NEW y \in Nat, <<y, x>> \notin OpToRel(<, Nat)
      PROVE  x <= y
  BY <1>2 DEF OpToRel
<1> QED
  BY <1>1, <1>2

\* The loop over a table that has a match stops, at its first match.
LEMMA FirstMatchExists ==
    ASSUME NEW N \in Nat, NEW rs, NEW o, NEW method, DOMAIN rs = 1 .. N,
           HasMatch(rs, o, method)
    PROVE  /\ FirstMatch(rs, o, method) \in DOMAIN rs
           /\ IsFirstMatch(rs, o, method, FirstMatch(rs, o, method))
<1> DEFINE T == {n \in 1 .. N : Matches(rs, o, method, n)}
<1>1. T \in SUBSET Nat /\ T # {}
  BY DEF HasMatch
<1>2. PICK x \in T : \A y \in T : x <= y
  BY <1>1, Least
<1>3. \A m \in 1 .. N : m < x => ~Matches(rs, o, method, m)
  BY <1>1, <1>2
<1>4. IsFirstMatch(rs, o, method, x)
  BY <1>2, <1>3 DEF IsFirstMatch
<1> QED
  BY <1>2, <1>4 DEF FirstMatch

\* In a sorted table the first match is a longest one, whatever the sort does to
\* entries of one length (NewRouteMatcherGeneric, NewConfigurableAuthProcessor).
THEOREM FirstMatchIsLongest ==
    ASSUME raw \in Configs, order \in SortOrders(routes), NEW method,
           HasMatch(routes, order, method)
    PROVE  LET n == order[FirstMatch(routes, order, method)]
           IN /\ n \in DOMAIN routes
              /\ IsPrefix(routes[n].prefix, method)
              /\ \A m \in DOMAIN routes : IsPrefix(routes[m].prefix, method) =>
                    Len(routes[n].prefix) >= Len(routes[m].prefix)
<1> DEFINE f == FirstMatch(routes, order, method)
<1>1. f \in DOMAIN routes /\ IsFirstMatch(routes, order, method, f)
  BY RoutesTyped, FirstMatchExists
<1>2. order \in [DOMAIN routes -> DOMAIN routes]
  BY DEF SortOrders
<1>3. IsPrefix(routes[order[f]].prefix, method)
  BY <1>1 DEF IsFirstMatch, Matches
<1>4. ASSUME NEW m \in DOMAIN routes, IsPrefix(routes[m].prefix, method)
      PROVE  Len(routes[order[f]].prefix) >= Len(routes[m].prefix)
  <2>1. PICK k \in DOMAIN routes : order[k] = m
    BY DEF SortOrders
  <2>2. Matches(routes, order, method, k)
    BY <1>4, <2>1 DEF Matches
  <2>3. ~(k < f)
    BY <1>1, <2>2 DEF IsFirstMatch
  <2>4. f \in Nat /\ k \in Nat
    BY <1>1, RoutesTyped
  <2>5. CASE k = f
    BY <2>1, <2>5, <1>1, RoutesTyped
  <2>6. CASE f < k
    BY <2>1, <2>6, <1>1 DEF SortOrders
  <2> QED
    BY <2>3, <2>4, <2>5, <2>6
<1> QED
  BY <1>1, <1>2, <1>3, <1>4
-----------------------------------------------------------------------------
(* The inductive invariant *)

\* A division drops less than one divisor.
LEMMA DivFloor ==
    ASSUME NEW v \in Nat, NEW s \in Nat, s > 0
    PROVE  /\ v \div s \in Nat
           /\ v < (v \div s) * s + s
  OBVIOUS

\* Every configuration starts well.
LEMMA InitOK == Init => IInv
<1> SUFFICES ASSUME Init PROVE IInv
  OBVIOUS
<1> USE DEF Init, Idle, NoToken, OK, Status
<1>1. routes = Routes(raw)
  BY DEF routes
<1>2. TypeOK
  BY <1>1 DEF TypeOK, Phases, SortOrders
<1>3. Genuine(issued.token, issued.validTill) /\ Genuine(rpc.token, rpc.validTill)
  BY DEF Genuine
<1> QED
  BY <1>1, <1>2, <1>3 DEF IInv

\* What depends on the configuration alone does not change.
LEMMA FixedConfig ==
    ASSUME raw' = raw
    PROVE  routes' = routes /\ default' = default /\ JWTSecret' = JWTSecret
  BY DEF routes, default, JWTSecret

\* A step that takes the RPC one phase on, or answers it, and leaves the rest alone.
LEMMA AdvanceOK ==
    ASSUME IInv, gateway = "serving",
           UNCHANGED <<raw, order, gateway, clock, issued>>,
           NEW phase \in Phases, NEW at \in Nat, NEW sticky, NEW status, NEW route,
           rpc' = Advance(phase, route, at, sticky, status),
           route \in {NoRoute, Match(routes, default, order, rpc.request.method)},
           phase \in {"headers", "resolve", "backend"} => route # NoRoute
    PROVE  IInv'
<1>1. /\ rpc'.phase = phase /\ rpc'.request = rpc.request /\ rpc'.token = rpc.token
      /\ rpc'.validTill = rpc.validTill /\ rpc'.route = route /\ rpc'.at = at
  BY DEF Advance
<1>2. TypeOK'
  BY <1>1, FixedConfig DEF IInv, TypeOK
<1>3. /\ Genuine(issued.token, issued.validTill)'
      /\ Genuine(rpc.token, rpc.validTill)'
  BY <1>1 DEF IInv, Genuine
<1> QED
  BY <1>1, <1>2, <1>3, FixedConfig DEF IInv

\* IInv is inductive: no step of the gateway, of the backends or of the clock breaks it.
LEMMA StepOK == IInv /\ [Next]_vars => IInv'
<1> SUFFICES ASSUME IInv, [Next]_vars PROVE IInv'
  OBVIOUS
<1>1. CASE Start
  <2>1. UNCHANGED <<raw, order, clock, issued, rpc>>
    BY <1>1 DEF Start
  <2>2. /\ gateway' \in {"serving", "refused"}
        /\ gateway' = "serving" => LoadConfig(raw)
        /\ rpc.phase = "idle"
    BY <1>1 DEF Start, IInv
  <2>3. TypeOK'
    BY <2>1, <2>2, FixedConfig DEF IInv, TypeOK
  <2>4. /\ Genuine(issued.token, issued.validTill)'
        /\ Genuine(rpc.token, rpc.validTill)'
    BY <2>1 DEF IInv, Genuine
  <2> QED
    BY <2>1, <2>2, <2>3, <2>4, FixedConfig DEF IInv
<1>2. ASSUME NEW request \in Requests, Arrive(request) PROVE IInv'
  <2>1. /\ UNCHANGED <<raw, order, gateway, clock, issued>>
        /\ gateway = "serving"
        /\ rpc'.phase = "route" /\ rpc'.request = request
        /\ rpc'.token = Presented(request) /\ rpc'.validTill = issued.validTill
        /\ rpc'.at = 0
    BY <1>2 DEF Arrive
  <2>2. \/ rpc'.token = issued.token
        \/ rpc'.token.form # "signed" /\ rpc'.token.expires = 0
    <3>1. Presented(request) \in {issued.token, Garbage, NoToken}
      BY DEF Presented
    <3>2. /\ Garbage.form # "signed" /\ Garbage.expires = 0
          /\ NoToken.form # "signed" /\ NoToken.expires = 0
      BY DEF Garbage, NoToken
    <3> QED
      BY <2>1, <3>1, <3>2
  <2>3. rpc'.token.expires \in Nat /\ Genuine(rpc.token, rpc.validTill)'
    BY <2>1, <2>2 DEF IInv, TypeOK, Genuine
  <2>4. Genuine(issued.token, issued.validTill)'
    BY <2>1 DEF IInv, Genuine
  <2>5. issued.validTill \in Nat /\ rpc'.request \in Requests /\ "route" \in Phases
    BY <2>1 DEF IInv, TypeOK, Phases
  <2>6. TypeOK'
    BY <2>1, <2>3, <2>5, FixedConfig DEF IInv, TypeOK
  <2>7. rpc'.route = NoRoute
    BY <1>2 DEF Arrive
  <2> QED
    BY <2>1, <2>3, <2>4, <2>6, <2>7, FixedConfig DEF IInv
<1> DEFINE Reached == {NoRoute, Match(routes, default, order, rpc.request.method)}
<1>3. /\ rpc.at \in Nat /\ clock \in Nat
      /\ rpc.phase # "idle" => gateway = "serving" /\ rpc.route \in Reached
      /\ rpc.phase \in {"headers", "resolve", "backend"} => rpc.route # NoRoute
  BY DEF IInv, TypeOK
<1>4. ASSUME NEW status, rpc.phase # "idle", rpc' = Answer(status),
             UNCHANGED <<raw, order, gateway, clock, issued>>
      PROVE  IInv'
  BY <1>3, <1>4, AdvanceOK DEF Phases, Answer
<1>5. CASE MatchRoute
  <2> DEFINE route == Match(routes, default, order, rpc.request.method)
  <2>1. UNCHANGED <<raw, order, gateway, clock, issued>> /\ rpc.phase = "route"
    BY <1>5 DEF MatchRoute
  <2>2. CASE route = NoRoute
    BY <1>4, <1>5, <2>1, <2>2 DEF MatchRoute
  <2>3. CASE route # NoRoute
    <3>1. rpc' = Advance("headers", route, rpc.at, rpc.sticky, rpc.status)
      BY <1>5, <2>3 DEF MatchRoute
    <3> QED
      BY <1>3, <2>1, <2>3, <3>1, AdvanceOK DEF Phases
  <2> QED
    BY <2>2, <2>3
<1>6. CASE ProcessHeaders
  <2>1. UNCHANGED <<raw, order, gateway, clock, issued>> /\ rpc.phase = "headers"
    BY <1>6 DEF ProcessHeaders
  <2>2. CASE Process = OK
    <3>1. rpc' = Advance("resolve", rpc.route, clock, rpc.sticky, rpc.status)
      BY <1>6, <2>2 DEF ProcessHeaders
    <3> QED
      BY <1>3, <2>1, <3>1, AdvanceOK DEF Phases
  <2>3. CASE Process # OK
    BY <1>4, <1>6, <2>1, <2>3 DEF ProcessHeaders
  <2> QED
    BY <2>2, <2>3
<1>7. CASE Resolve
  <2> DEFINE sticky == IF IsSticky THEN StickyKey ELSE ""
  <2>1. /\ UNCHANGED <<raw, order, gateway, clock, issued>> /\ rpc.phase = "resolve"
        /\ rpc' = Advance("backend", rpc.route, rpc.at, sticky, rpc.status)
    BY <1>7 DEF Resolve
  <2> HIDE DEF sticky
  <2> QED
    BY <1>3, <2>1, AdvanceOK DEF Phases
<1>8. CASE ResolveFails
  <2>1. PICK err : rpc' = Answer(GatewayErrorToGRPC(Status("Unknown", err)))
    BY <1>8 DEF ResolveFails
  <2> QED
    BY <1>4, <1>8, <2>1 DEF ResolveFails
<1>9. CASE StreamFails
  BY <1>4, <1>9 DEF StreamFails
<1>10. CASE NotImplemented
  BY <1>4, <1>10 DEF NotImplemented
<1>11. CASE Echo
  BY <1>4, <1>11 DEF Echo
<1>12. CASE Login
  <2>1. PICK stored \in StoreAnswers :
        LET code == LoginStatus(rpc.request.body, stored)
            validTill == clock + Lifetime
        IN /\ rpc' = Answer(GatewayErrorToGRPC(Status(code, "")))
           /\ issued' = IF code = "OK"
                        THEN [token |-> CreateToken(rpc.request.body.session, validTill,
                                                    raw.secret),
                              validTill |-> validTill]
                        ELSE issued
    BY <1>12 DEF Login
  <2>2. /\ UNCHANGED <<raw, order, gateway, clock>> /\ rpc.phase = "backend"
        /\ gateway = "serving"
    BY <1>3, <1>12 DEF Login
  <2>3. /\ rpc'.phase = "done" /\ rpc'.request = rpc.request /\ rpc'.token = rpc.token
        /\ rpc'.validTill = rpc.validTill /\ rpc'.route = rpc.route /\ rpc'.at = clock
    BY <2>1 DEF Answer, Advance
  <2>4. clock + Lifetime \in Nat /\ (clock + Lifetime) \div Second \in Nat
    BY <1>3, DivFloor, SecondAssumption, LifetimeAssumption
  <2>5. /\ issued'.validTill \in Nat
        /\ issued'.token.expires \in Nat
        /\ Genuine(issued.token, issued.validTill)'
    BY <2>1, <2>2, <2>4 DEF IInv, TypeOK, Genuine, CreateToken
  <2>6. TypeOK'
    BY <1>3, <2>2, <2>3, <2>5, FixedConfig DEF IInv, TypeOK, Phases
  <2>7. Genuine(rpc.token, rpc.validTill)'
    BY <2>2, <2>3 DEF IInv, Genuine
  <2> QED
    BY <1>3, <2>2, <2>3, <2>5, <2>6, <2>7, FixedConfig DEF IInv
<1>13. CASE Finish
  <2>1. UNCHANGED <<raw, order, gateway, clock, issued>> /\ rpc' = Idle
    BY <1>13 DEF Finish
  <2>2. TypeOK'
    BY <2>1, FixedConfig DEF IInv, TypeOK, Phases, Idle, NoToken
  <2>3. /\ Genuine(issued.token, issued.validTill)'
        /\ Genuine(rpc.token, rpc.validTill)'
    BY <2>1 DEF IInv, Genuine, Idle, NoToken
  <2> QED
    BY <2>1, <2>2, <2>3, FixedConfig DEF IInv, Idle
<1>14. CASE Tick
  <2>1. UNCHANGED <<raw, order, gateway, issued, rpc>> /\ clock' = clock + 1
    BY <1>14 DEF Tick
  <2>2. TypeOK'
    BY <1>3, <2>1, FixedConfig DEF IInv, TypeOK
  <2>3. /\ Genuine(issued.token, issued.validTill)'
        /\ Genuine(rpc.token, rpc.validTill)'
    BY <2>1 DEF IInv, Genuine
  <2> QED
    BY <2>1, <2>2, <2>3, FixedConfig DEF IInv
<1>15. CASE UNCHANGED vars
  <2>1. UNCHANGED <<raw, order, gateway, clock, issued, rpc>>
    BY <1>15 DEF vars
  <2>2. TypeOK'
    BY <2>1, FixedConfig DEF IInv, TypeOK
  <2>3. /\ Genuine(issued.token, issued.validTill)'
        /\ Genuine(rpc.token, rpc.validTill)'
    BY <2>1 DEF IInv, Genuine
  <2> QED
    BY <2>1, <2>2, <2>3, FixedConfig DEF IInv
<1> QED
  BY <1>1, <1>2, <1>5, <1>6, <1>7, <1>8, <1>9, <1>10, <1>11, <1>12, <1>13, <1>14, <1>15
     DEF Next

\* The types and the facts of IInv hold in every state.
THEOREM InvariantHolds == Spec => []IInv
  BY InitOK, StepOK, PTL DEF Spec

\* The type invariant.
THEOREM TypeCorrect == Spec => []TypeOK
<1>1. IInv => TypeOK
  BY DEF IInv
<1> QED
  BY <1>1, InvariantHolds, PTL

-----------------------------------------------------------------------------
(* Routes *)

\* A routed RPC has the route Match found, in a configuration LoadConfig accepted.
LEMMA RoutedFacts ==
    ASSUME IInv, Routed
    PROVE  /\ raw \in Configs /\ order \in SortOrders(routes) /\ LoadConfig(raw)
           /\ rpc.route = Match(routes, default, order, rpc.request.method)
           /\ rpc.route # NoRoute
  BY DEF IInv, TypeOK, Routed

\* The table has a match exactly when the file has an entry for the method.
LEMMA CandidatesMatch ==
    ASSUME order \in SortOrders(routes)
    PROVE  HasMatch(routes, order, rpc.request.method) <=> Candidates # {}
  BY DEF SortOrders, HasMatch, Matches, Candidates

\* MostSpecificRoute follows from the invariant.
LEMMA RouteOK == IInv => MostSpecificRoute
<1> SUFFICES ASSUME IInv, Routed
             PROVE  IF Candidates = {} THEN rpc.route = DefaultRoute(default)
                    ELSE \E n \in Candidates :
                        /\ rpc.route = WithRouteDefaults(routes[n])
                        /\ \A m \in Candidates :
                            Len(routes[n].prefix) >= Len(routes[m].prefix)
  BY DEF MostSpecificRoute
<1> DEFINE method == rpc.request.method
           n == order[FirstMatch(routes, order, method)]
<1>1. CASE Candidates = {}
  BY <1>1, RoutedFacts, CandidatesMatch DEF Match
<1>2. CASE Candidates # {}
  <2>1. HasMatch(routes, order, method)
    BY <1>2, RoutedFacts, CandidatesMatch
  <2>2. /\ n \in DOMAIN routes
        /\ IsPrefix(routes[n].prefix, method)
        /\ \A m \in DOMAIN routes : IsPrefix(routes[m].prefix, method) =>
                Len(routes[n].prefix) >= Len(routes[m].prefix)
    BY <2>1, RoutedFacts, FirstMatchIsLongest
  <2>3. rpc.route = WithRouteDefaults(routes[n])
    BY <2>1, RoutedFacts DEF Match
  <2>4. n \in Candidates
    BY <2>2 DEF Candidates
  <2>5. \A m \in Candidates : Len(routes[n].prefix) >= Len(routes[m].prefix)
    BY <2>2 DEF Candidates
  <2> HIDE DEF n
  <2> QED
    BY <1>2, <2>3, <2>4, <2>5
<1> QED
  BY <1>1, <1>2

\* Every RPC takes a route with the longest prefix of its method.
THEOREM RouteIsMostSpecific == Spec => []MostSpecificRoute
  BY RouteOK, InvariantHolds, PTL

\* withRouteDefaults changes neither the cluster nor a mode that is set.
LEMMA DefaultsKeep ==
    ASSUME NEW route
    PROVE  /\ WithRouteDefaults(route).cluster = route.cluster
           /\ WithRouteDefaults(route).authorization = OrElse(route.authorization, "none")
  BY DEF WithRouteDefaults

\* The cluster and the mode of the default route.
LEMMA DefaultRouteFields ==
    ASSUME NEW d
    PROVE  /\ DefaultRoute(d).cluster = d.cluster
           /\ DefaultRoute(d).authorization = OrElse("", "none")
<1> DEFINE r == [prefix |-> <<>>, cluster |-> d.cluster, authorization |-> "",
                 balancer |-> "", header |-> ""]
<1>1. r.cluster = d.cluster /\ r.authorization = ""
  OBVIOUS
<1>2. DefaultRoute(d) = WithRouteDefaults(r)
  BY DEF DefaultRoute
<1> HIDE DEF r
<1> QED
  BY <1>1, <1>2, DefaultsKeep

\* ClusterOfRouteExists follows from the invariant: LoadConfig looked every cluster up.
LEMMA ClusterOK == IInv => ClusterOfRouteExists
<1> SUFFICES ASSUME IInv, Routed PROVE KnownCluster
  BY DEF ClusterOfRouteExists
<1> DEFINE method == rpc.request.method
           n == order[FirstMatch(routes, order, method)]
<1>1. ClustersExist(routes, default, raw.clusters)
  <2>1. LoadConfig(raw)
    BY RoutedFacts
  <2>2. ClustersExist(Routes(raw), ToDefault(raw.default), raw.clusters)
    BY <2>1 DEF LoadConfig
  <2> QED
    BY <2>2 DEF routes, default
<1>2. CASE HasMatch(routes, order, method)
  <2>1. n \in DOMAIN routes
    BY <1>2, RoutedFacts, FirstMatchIsLongest
  <2>2. rpc.route = WithRouteDefaults(routes[n])
    BY <1>2, RoutedFacts DEF Match
  <2>3. rpc.route.cluster = routes[n].cluster
    BY <2>2, DefaultsKeep
  <2> QED
    BY <1>1, <2>1, <2>3 DEF ClustersExist, KnownCluster
<1>3. CASE ~HasMatch(routes, order, method)
  <2>1. default.action = "use_cluster" /\ rpc.route = DefaultRoute(default)
    BY <1>3, RoutedFacts DEF Match
  <2>2. rpc.route.cluster = default.cluster
    BY <2>1, DefaultRouteFields
  <2> QED
    BY <1>1, <2>1, <2>2 DEF ClustersExist, KnownCluster
<1> QED
  BY <1>2, <1>3

\* The resolver never meets a cluster it does not have.
THEOREM RouteHasCluster == Spec => []ClusterOfRouteExists
  BY ClusterOK, InvariantHolds, PTL

\* The two tables agree: a route that requires a token has a rule that does.
LEMMA TablesAgree ==
    ASSUME IInv, Routed, rpc.route.authorization = "required"
    PROVE  AuthMode(routes, order, rpc.request.method) = "required"
<1> DEFINE method == rpc.request.method
           n == order[FirstMatch(routes, order, method)]
<1>1. CASE HasMatch(routes, order, method)
  <2>1. rpc.route = WithRouteDefaults(routes[n])
    BY <1>1, RoutedFacts DEF Match
  <2>2. rpc.route.authorization = OrElse(routes[n].authorization, "none")
    BY <2>1, DefaultsKeep
  <2> QED
    BY <1>1, <2>2 DEF AuthMode
<1>2. CASE ~HasMatch(routes, order, method)
  <2>1. rpc.route = DefaultRoute(default)
    BY <1>2, RoutedFacts DEF Match
  <2>2. rpc.route.authorization = OrElse("", "none")
    BY <2>1, DefaultRouteFields
  <2> QED
    BY <2>2 DEF OrElse
<1> QED
  BY <1>1, <1>2

-----------------------------------------------------------------------------
(* Tokens *)

\* The configuration is read once.
LEMMA StepKeeps ==
    ASSUME [Next]_vars
    PROVE  raw' = raw
  BY DEF Next, vars, Start, Arrive, MatchRoute, ProcessHeaders, Resolve, ResolveFails,
         StreamFails, NotImplemented, Login, Echo, Finish, Tick

\* The actions that answer the RPC.
Answers == ResolveFails \/ StreamFails \/ NotImplemented \/ Login \/ Echo

\* No RPC is in the phase idle.
LEMMA IdlePhase == Idle.phase = "idle"
  BY DEF Idle

\* The phase after each step; the phases are passed one by one.
LEMMA PhaseAfter ==
    /\ \A request \in Requests : Arrive(request) => rpc'.phase = "route"
    /\ MatchRoute => rpc'.phase \in {"headers", "done"}
    /\ ProcessHeaders =>
        \/ Process = OK
           /\ rpc' = Advance("resolve", rpc.route, clock, rpc.sticky, rpc.status)
        \/ rpc'.phase = "done"
    /\ Answers => rpc'.phase = "done"
    /\ Finish => rpc'.phase = "idle"
<1>1. \A status : Answer(status).phase = "done"
  BY DEF Answer, Advance
<1>2. \A route, at, sticky, status :
        Advance("headers", route, at, sticky, status).phase = "headers"
  BY DEF Advance
<1>3. ASSUME NEW request \in Requests, Arrive(request) PROVE rpc'.phase = "route"
  BY <1>3 DEF Arrive
<1>4. MatchRoute => rpc'.phase \in {"headers", "done"}
  BY <1>1, <1>2 DEF MatchRoute
<1>5. ProcessHeaders =>
        \/ Process = OK
           /\ rpc' = Advance("resolve", rpc.route, clock, rpc.sticky, rpc.status)
        \/ rpc'.phase = "done"
  BY <1>1 DEF ProcessHeaders
<1>6. Answers => rpc'.phase = "done"
  BY <1>1 DEF Answers, ResolveFails, StreamFails, NotImplemented, Login, Echo
<1>7. Finish => rpc'.phase = "idle"
  BY IdlePhase DEF Finish
<1> QED
  BY <1>3, <1>4, <1>5, <1>6, <1>7

\* A step takes one of the actions, or leaves the RPC alone.
LEMMA StepCases ==
    ASSUME [Next]_vars
    PROVE  \/ UNCHANGED rpc
           \/ \E request \in Requests : Arrive(request)
           \/ MatchRoute \/ ProcessHeaders \/ Resolve \/ Answers \/ Finish
  BY DEF Next, Start, Tick, vars, Answers

\* AdmittedWithToken is kept by every step.
LEMMA AdmittedStep == IInv /\ AdmittedWithToken /\ [Next]_vars => AdmittedWithToken'
<1> SUFFICES ASSUME IInv, AdmittedWithToken, [Next]_vars,
                    Admitted', rpc'.route.authorization = "required"
             PROVE  /\ rpc'.request.session # ""
                    /\ ParseAndVerify(rpc'.token, JWTSecret')
                    /\ rpc'.token.session = rpc'.request.session
                    /\ rpc'.at <= rpc'.token.expires * Second
  BY DEF AdmittedWithToken
<1>1. JWTSecret' = JWTSecret
  BY StepKeeps DEF JWTSecret
<1>2. CASE UNCHANGED rpc
  BY <1>1, <1>2 DEF AdmittedWithToken, Admitted
<1>3. CASE ProcessHeaders
  <2>1. Process = OK /\ rpc'= Advance("resolve", rpc.route, clock, rpc.sticky, rpc.status)
    BY <1>3, PhaseAfter DEF Admitted
  <2>2. /\ rpc'.request = rpc.request /\ rpc'.token = rpc.token /\ rpc'.at = clock
        /\ rpc'.route = rpc.route
    BY <2>1 DEF Advance
  <2>3. AuthMode(routes, order, rpc.request.method) = "required"
    BY <1>3, <2>2, TablesAgree DEF ProcessHeaders, Routed
  <2>4. /\ rpc.request.session # ""
        /\ ValidateToken(rpc.request.session, rpc.token, JWTSecret, clock)
    BY <2>1, <2>3 DEF Process, OK, Status
  <2>5. /\ ParseAndVerify(rpc.token, JWTSecret)
        /\ rpc.token.session = rpc.request.session
        /\ ~(clock > rpc.token.expires * Second)
    BY <2>4 DEF ValidateToken
  <2>6. clock \in Nat /\ rpc.token.expires \in Nat /\ Second \in Nat
    BY SecondAssumption DEF IInv, TypeOK
  <2>7. rpc.token.expires * Second \in Nat
    BY <2>6
  <2>8. clock <= rpc.token.expires * Second
    BY <2>5, <2>6, <2>7
  <2> QED
    BY <1>1, <2>2, <2>4, <2>5, <2>8
<1>4. CASE Resolve
  <2>1. /\ rpc'.request = rpc.request /\ rpc'.token = rpc.token /\ rpc'.at = rpc.at
        /\ rpc'.route = rpc.route /\ Admitted
    BY <1>4 DEF Resolve, Advance, Admitted
  <2> QED
    BY <1>1, <2>1 DEF AdmittedWithToken
<1>5. MatchRoute \/ Answers \/ Finish \/ (\E request \in Requests : Arrive(request))
        => rpc'.phase \notin {"resolve", "backend"}
  BY PhaseAfter
<1> QED
  BY <1>2, <1>3, <1>4, <1>5, StepCases DEF Admitted

\* AdmittedWithToken holds at the start.
LEMMA AdmittedInit == Init => AdmittedWithToken
<1>1. Init => rpc.phase = "idle"
  BY IdlePhase DEF Init
<1> QED
  BY <1>1 DEF AdmittedWithToken, Admitted

\* On a route that requires a token nothing passes without a good one.
THEOREM NothingPassesWithoutToken == Spec => []AdmittedWithToken
  BY InitOK, StepOK, AdmittedInit, AdmittedStep, PTL DEF Spec

\* The key the instance is looked up with is kept from Resolve on.
LEMMA StickyStep ==
    IInv /\ AdmittedWithToken /\ StickyToTokenSession /\ [Next]_vars
        => StickyToTokenSession'
<1> SUFFICES ASSUME IInv, AdmittedWithToken, StickyToTokenSession, [Next]_vars,
                    rpc'.phase = "backend", rpc'.route.authorization = "required",
                    IsSticky', rpc'.route.header = "session-id"
             PROVE  rpc'.sticky = rpc'.token.session
  BY DEF StickyToTokenSession
<1>1. raw' = raw
  BY StepKeeps
<1>2. CASE UNCHANGED rpc
  BY <1>1, <1>2 DEF StickyToTokenSession, IsSticky, Cluster
<1>3. CASE Resolve
  <2>1. /\ rpc'.token = rpc.token /\ rpc'.route = rpc.route
        /\ rpc'.sticky = IF IsSticky THEN StickyKey ELSE ""
    BY <1>3 DEF Resolve, Advance
  <2>2. IsSticky
    BY <1>1, <2>1 DEF IsSticky, Cluster
  <2>3. StickyKey = rpc.request.session
    BY <2>1 DEF StickyKey, HeaderValue
  <2>4. rpc.token.session = rpc.request.session
    BY <1>3, <2>1 DEF Resolve, AdmittedWithToken, Admitted
  <2> QED
    BY <2>1, <2>2, <2>3, <2>4
<1>4. ProcessHeaders => rpc'.phase # "backend"
  BY PhaseAfter DEF Advance
<1>5. MatchRoute \/ Answers \/ Finish \/ (\E request \in Requests : Arrive(request))
        => rpc'.phase # "backend"
  BY PhaseAfter
<1> QED
  BY <1>2, <1>3, <1>4, <1>5, StepCases

\* StickyToTokenSession holds at the start.
LEMMA StickyInit == Init => StickyToTokenSession
<1>1. Init => rpc.phase = "idle"
  BY IdlePhase DEF Init
<1> QED
  BY <1>1 DEF StickyToTokenSession

\* The session of the token selects the instance.
THEOREM StickyByToken == Spec => []StickyToTokenSession
  BY InitOK, StepOK, AdmittedInit, AdmittedStep, StickyInit, StickyStep, PTL DEF Spec

-----------------------------------------------------------------------------
(* The two checks of one token *)

\* The errors as the client sees them: the text stays, or becomes one of the gateway's.
LEMMA ErrorText ==
    ASSUME NEW code, NEW msg
    PROVE  \/ GatewayErrorToGRPC(Status(code, msg)) = Status(code, msg)
           \/ GatewayErrorToGRPC(Status(code, msg)) =
                Status("Unavailable", "backend_service_unavailable")
           \/ GatewayErrorToGRPC(Status(code, msg)) =
                Status("ResourceExhausted", "all_instances_are_busy")
           \/ /\ msg = "ErrStickyKeyRequired"
              /\ GatewayErrorToGRPC(Status(code, msg)) =
                    Status("Unauthenticated", "missing_or_invalid_token")
<1>1. Status(code, msg).code = code /\ Status(code, msg).msg = msg
  BY DEF Status
<1> QED
  BY <1>1 DEF GatewayErrorToGRPC

\* Two statuses with different texts are different.
LEMMA StatusText ==
    ASSUME NEW c, NEW d, NEW m, NEW n, m # n
    PROVE  Status(c, m) # Status(d, n)
<1>1. Status(c, m).msg = m /\ Status(d, n).msg = n
  BY DEF Status
<1> QED
  BY <1>1

\* An answer keeps the RPC and notes the instant.
LEMMA AnswerKeeps ==
    ASSUME NEW status, rpc' = Answer(status)
    PROVE  /\ rpc'.phase = "done" /\ rpc'.request = rpc.request
           /\ rpc'.token = rpc.token /\ rpc'.validTill = rpc.validTill
           /\ rpc'.route = rpc.route /\ rpc'.at = clock /\ rpc'.status = status
  BY DEF Answer, Advance

\* The texts of the answers that come from the two checks of the token.
Late == "refused_by_the_backend"
Invalid == "missing_or_invalid_token"

\* These two texts come from nowhere but the checks, and the missing sticky key.
LEMMA ErrorSource ==
    ASSUME NEW code, NEW msg
    PROVE  /\ GatewayErrorToGRPC(Status(code, msg)) = Status("Unauthenticated", Late)
                => msg = Late
           /\ GatewayErrorToGRPC(Status(code, msg)) = Status("Unauthenticated", Invalid)
                => msg \in {Invalid, "ErrStickyKeyRequired"}
<1> DEFINE g == GatewayErrorToGRPC(Status(code, msg))
<1>1. \/ g = Status(code, msg)
      \/ g = Status("Unavailable", "backend_service_unavailable")
      \/ g = Status("ResourceExhausted", "all_instances_are_busy")
      \/ msg = "ErrStickyKeyRequired" /\ g = Status("Unauthenticated", Invalid)
  BY ErrorText DEF Invalid
<1> HIDE DEF g
<1>2. g = Status("Unauthenticated", Late) => msg = Late
  BY <1>1, StatusText DEF Late, Invalid
<1>3. g = Status("Unauthenticated", Invalid) => msg \in {Invalid, "ErrStickyKeyRequired"}
  BY <1>1, StatusText DEF Invalid
<1> QED
  BY <1>2, <1>3 DEF g

\* A product of numbers is a number.
LEMMA NatTimes ==
    ASSUME NEW a \in Nat, NEW b \in Nat
    PROVE  a * b \in Nat
  OBVIOUS

\* An instant past the second of the claim is past the promise less a second.
LEMMA LastSecond ==
    ASSUME NEW now \in Nat, NEW v \in Nat, NEW s \in Nat, NEW q \in Nat,
           now > q, v < q + s
    PROVE  now > v - s
  OBVIOUS

\* Which answers carry these texts.
LEMMA WhoAnswers ==
    ASSUME [Next]_vars, rpc'.phase = "done", ~UNCHANGED rpc
    PROVE  \E status :
        /\ rpc' = Answer(status)
        /\ status = Status("Unauthenticated", Late) =>
            Echo /\ ~BackendAccepts(rpc.request.session, rpc.token, raw.secret, clock)
        /\ status = Status("Unauthenticated", Invalid) =>
            \/ ProcessHeaders /\ Process = status
            \/ ResolveFails /\ IsSticky /\ StickyKey = ""
<1> DEFINE Good(status) ==
        /\ rpc' = Answer(status)
        /\ status = Status("Unauthenticated", Late) =>
            Echo /\ ~BackendAccepts(rpc.request.session, rpc.token, raw.secret, clock)
        /\ status = Status("Unauthenticated", Invalid) =>
            \/ ProcessHeaders /\ Process = status
            \/ ResolveFails /\ IsSticky /\ StickyKey = ""
<1> SUFFICES \E status : Good(status)
  OBVIOUS
<1>1. CASE MatchRoute
  <2>1. rpc' = Answer(Status("Unimplemented", "method_not_routed"))
    BY <1>1 DEF MatchRoute, Advance
  <2>2. Good(Status("Unimplemented", "method_not_routed"))
    BY <2>1, StatusText DEF Late, Invalid
  <2> QED
    BY <2>2
<1>2. CASE ProcessHeaders
  <2>1. rpc' = Answer(Process)
    BY <1>2 DEF ProcessHeaders, Advance
  <2>2. Process # Status("Unauthenticated", Late)
    BY StatusText DEF Process, OK, Late
  <2>3. Good(Process)
    BY <1>2, <2>1, <2>2
  <2> QED
    BY <2>3
<1>3. CASE ResolveFails
  <2>1. PICK err \in {"ErrGenericUnknownCluster", "ErrStickyKeyRequired",
                      "ErrNoAvailableConnInstance", "ErrConnPoolClosed"} :
            /\ rpc' = Answer(GatewayErrorToGRPC(Status("Unknown", err)))
            /\ err = "ErrStickyKeyRequired" => IsSticky /\ StickyKey = ""
    BY <1>3 DEF ResolveFails
  <2>2. Good(GatewayErrorToGRPC(Status("Unknown", err)))
    BY <1>3, <2>1, ErrorSource DEF Late, Invalid
  <2> QED
    BY <2>2
<1>4. ASSUME NEW code, rpc' = Answer(GatewayErrorToGRPC(Status(code, "")))
      PROVE  \E status : Good(status)
  <2>1. "" # Late /\ "" \notin {Invalid, "ErrStickyKeyRequired"}
    BY DEF Late, Invalid
  <2>2. /\ GatewayErrorToGRPC(Status(code, "")) # Status("Unauthenticated", Late)
        /\ GatewayErrorToGRPC(Status(code, "")) # Status("Unauthenticated", Invalid)
    BY <2>1, ErrorSource
  <2>3. Good(GatewayErrorToGRPC(Status(code, "")))
    BY <1>4, <2>2
  <2> QED
    BY <2>3
<1>5. CASE StreamFails
  BY <1>4, <1>5 DEF StreamFails
<1>6. CASE NotImplemented
  BY <1>4, <1>6 DEF NotImplemented
<1>7. CASE Login
  BY <1>4, <1>7 DEF Login
<1>8. CASE Echo
  <2> DEFINE accepted ==
        BackendAccepts(rpc.request.session, rpc.token, raw.secret, clock)
  <2>1. CASE ~accepted
    <3>1. rpc' = Answer(GatewayErrorToGRPC(Status("Unauthenticated", Late)))
      BY <1>8, <2>1 DEF Echo, Late
    <3>2. Late \notin {Invalid, "ErrStickyKeyRequired"}
      BY DEF Late, Invalid
    <3>3. GatewayErrorToGRPC(Status("Unauthenticated", Late))
            # Status("Unauthenticated", Invalid)
      BY <3>2, ErrorSource
    <3>4. Good(GatewayErrorToGRPC(Status("Unauthenticated", Late)))
      BY <1>8, <2>1, <3>1, <3>3
    <3> QED
      BY <3>4
  <2>2. CASE accepted
    <3>1. rpc' = Answer(GatewayErrorToGRPC(Status("InvalidArgument", "")))
            \/ rpc' = Answer(GatewayErrorToGRPC(Status("OK", "")))
      BY <1>8, <2>2 DEF Echo, OK
    <3> QED
      BY <1>4, <3>1
  <2> QED
    BY <2>1, <2>2
<1>9. ~Resolve
  <2> SUFFICES ASSUME Resolve PROVE FALSE
    OBVIOUS
  <2> DEFINE sticky == IF IsSticky THEN StickyKey ELSE ""
  <2>1. rpc' = Advance("backend", rpc.route, rpc.at, sticky, rpc.status)
    BY DEF Resolve
  <2> HIDE DEF sticky
  <2> QED
    BY <2>1 DEF Advance
<1>10. ~Finish /\ ~\E request \in Requests : Arrive(request)
  BY PhaseAfter
<1>11. MatchRoute \/ ProcessHeaders \/ Answers
  BY <1>9, <1>10, StepCases
<1> QED
  BY <1>1, <1>2, <1>3, <1>5, <1>6, <1>7, <1>8, <1>11 DEF Answers

\* RefusedLateOnly is kept by every step.
LEMMA LateStep ==
    IInv /\ AdmittedWithToken /\ RefusedLateOnly /\ [Next]_vars => RefusedLateOnly'
<1> SUFFICES ASSUME IInv, AdmittedWithToken, RefusedLateOnly, [Next]_vars,
                    RefusedByBackend', rpc'.route.authorization = "required"
             PROVE  rpc'.at > rpc'.token.expires * Second
  BY DEF RefusedLateOnly
<1>1. CASE UNCHANGED rpc
  BY <1>1 DEF RefusedLateOnly, RefusedByBackend
<1>2. CASE ~UNCHANGED rpc
  <2>1. rpc'.phase = "done" /\ rpc'.status = Status("Unauthenticated", Late)
    BY DEF RefusedByBackend, Late
  <2>2. PICK status :
            /\ rpc' = Answer(status)
            /\ status = Status("Unauthenticated", Late) =>
                Echo /\ ~BackendAccepts(rpc.request.session, rpc.token, raw.secret, clock)
    BY <1>2, <2>1, WhoAnswers
  <2>3. /\ rpc'.token = rpc.token /\ rpc'.route = rpc.route /\ rpc'.at = clock
        /\ status = Status("Unauthenticated", Late)
    BY <2>1, <2>2, AnswerKeeps
  <2>4. /\ rpc.phase = "backend"
        /\ ~BackendAccepts(rpc.request.session, rpc.token, raw.secret, clock)
    BY <2>2, <2>3 DEF Echo
  <2>5. /\ rpc.token.form = "signed"
        /\ rpc.token.session = rpc.request.session
    BY <2>3, <2>4 DEF AdmittedWithToken, Admitted, ParseAndVerify
  <2>6. rpc.token.secret = raw.secret
    BY <2>5 DEF IInv, Genuine
  <2>7. BackendDeadline(rpc.token) < clock
    BY <2>4, <2>5, <2>6 DEF BackendAccepts, ParseAndVerify, BackendExpired
  <2>8. /\ clock \in Nat /\ rpc.token.expires \in Nat /\ Second \in Nat
        /\ rpc.token.expires * Second \in Nat
    BY SecondAssumption DEF IInv, TypeOK
  <2>9. BackendDeadline(rpc.token) = rpc.token.expires * Second
    BY <2>8, ZoneAssumption DEF BackendDeadline
  <2> QED
    BY <2>3, <2>7, <2>8, <2>9
<1> QED
  BY <1>1, <1>2

\* The backend refuses no token the gateway let pass, unless it ran out in between.
THEOREM RefusedOnlyLate == Spec => []RefusedLateOnly
<1>1. Init => RefusedLateOnly
  BY IdlePhase DEF Init, RefusedLateOnly, RefusedByBackend
<1> QED
  BY <1>1, InitOK, StepOK, AdmittedInit, AdmittedStep, LateStep, PTL DEF Spec

\* GoodUntilLastSecond is kept by every step.
LEMMA GoodStep ==
    IInv /\ GoodUntilLastSecond /\ [Next]_vars => GoodUntilLastSecond'
<1> SUFFICES ASSUME IInv, GoodUntilLastSecond, [Next]_vars,
                    rpc'.phase = "done",
                    rpc'.status = Status("Unauthenticated", Invalid),
                    rpc'.route.authorization = "required",
                    rpc'.token.form = "signed",
                    rpc'.token.session = rpc'.request.session,
                    ~(IsSticky' /\ StickyKey' = ""),
                    ~raw'.secret.space
             PROVE  rpc'.at > rpc'.validTill - Second
  BY DEF GoodUntilLastSecond, Invalid
<1>1. raw' = raw
  BY StepKeeps
<1>2. CASE UNCHANGED rpc
  <2>1. /\ IsSticky' = IsSticky
        /\ StickyKey' = StickyKey
    BY <1>1, <1>2 DEF IsSticky, Cluster, StickyKey, HeaderValue
  <2> QED
    BY <1>1, <1>2, <2>1 DEF GoodUntilLastSecond, Invalid
<1>3. CASE ~UNCHANGED rpc
  <2>1. PICK status :
        /\ rpc' = Answer(status)
        /\ status = Status("Unauthenticated", Invalid) =>
            \/ ProcessHeaders /\ Process = status
            \/ ResolveFails /\ IsSticky /\ StickyKey = ""
    BY <1>3, WhoAnswers
  <2>2. /\ rpc'.request = rpc.request /\ rpc'.token = rpc.token
        /\ rpc'.validTill = rpc.validTill /\ rpc'.route = rpc.route
        /\ rpc'.at = clock /\ status = Status("Unauthenticated", Invalid)
    BY <2>1, AnswerKeeps
  <2>3. IsSticky' = IsSticky /\ StickyKey' = StickyKey
    BY <1>1, <2>2 DEF IsSticky, Cluster, StickyKey, HeaderValue
  <2>4. ProcessHeaders /\ Process = Status("Unauthenticated", Invalid)
    BY <2>1, <2>2, <2>3
  <2>5. ~ValidateToken(rpc.request.session, rpc.token, JWTSecret, clock)
    <3>1. /\ Process # OK
          /\ Process # Status("Unauthenticated", "missing_session_id")
      BY <2>4, StatusText DEF OK, Invalid
    <3> QED
      BY <2>2, <3>1 DEF Process
  <2>6. rpc.token.secret = raw.secret
        /\ rpc.token.expires = rpc.validTill \div Second
    BY <2>2 DEF IInv, Genuine
  <2>7. JWTSecret = raw.secret
    <3>1. /\ raw.secret = [text |-> raw.secret.text, space |-> raw.secret.space]
          /\ raw.secret.space = FALSE
      BY <1>1, ConfigsAreTyped DEF IInv, TypeOK
    <3> QED
      BY <3>1 DEF JWTSecret, TrimSpace
  <2>8. clock > rpc.token.expires * Second
    BY <2>2, <2>5, <2>6, <2>7 DEF ValidateToken, ParseAndVerify
  <2>9. clock \in Nat /\ rpc.validTill \in Nat /\ Second \in Nat /\ Second > 0
    BY SecondAssumption DEF IInv, TypeOK
  <2>10. /\ rpc.validTill \div Second \in Nat
         /\ rpc.validTill < (rpc.validTill \div Second) * Second + Second
    BY <2>9, DivFloor
  <2>11. (rpc.validTill \div Second) * Second \in Nat
    <3> DEFINE d == rpc.validTill \div Second
    <3>1. d \in Nat
      BY <2>10
    <3> HIDE DEF d
    <3>2. d * Second \in Nat
      BY <2>9, <3>1, NatTimes
    <3> QED
      BY <3>2 DEF d
  <2>12. clock > (rpc.validTill \div Second) * Second
    BY <2>6, <2>8
  <2>13. clock > rpc.validTill - Second
    BY <2>9, <2>10, <2>11, <2>12, LastSecond
  <2> QED
    BY <2>2, <2>13
<1> QED
  BY <1>2, <1>3

\* No session loses its token before the last second of what it was promised.
THEOREM GoodToTheLastSecond == Spec => []GoodUntilLastSecond
<1>1. Init => GoodUntilLastSecond
  BY IdlePhase DEF Init, GoodUntilLastSecond
<1> QED
  BY <1>1, InitOK, StepOK, GoodStep, PTL DEF Spec
=============================================================================
