----------------------- MODULE GatewayScenariosProofs -----------------------
(***************************************************************************)
(* With the routes of docker-compose the scenarios about logins and tokens *)
(* get the codes they accept, whatever else the configuration says, at any *)
(* time, for every user store and after any other requests.                *)
(***************************************************************************)
EXTENDS GatewayScenarios, AdmissionProofs, SequenceTheorems

-----------------------------------------------------------------------------
(* The two routes *)

\* A prefix that begins with a slash and ends in no asterisk is normal.
LEMMA NormalPrefix ==
  ASSUME NEW p, p # <<>>, p[Len(p)] # "*", p[1] = "/"
  PROVE  NormalizePrefix(p) = p
BY DEF NormalizePrefix

\* The routes of docker-compose are normalized as they stand.
LEMMA DockerTable ==
  ASSUME raw.routes = DockerRoutes
  PROVE  /\ DOMAIN routes = 1 .. 2
         /\ routes[1] = DockerRoutes[1]
         /\ routes[2] = DockerRoutes[2]
<1>1. DOMAIN DockerRoutes = 1 .. 2
  <2>1. \A a, b : DOMAIN <<a, b>> = 1 .. 2
    OBVIOUS
  <2> QED BY <2>1 DEF DockerRoutes
<1>2. /\ NormalizePrefix(<<"/", Service, "/", "Login">>) = <<"/", Service, "/", "Login">>
      /\ NormalizePrefix(<<"/", Service, "/", "MyService">>)
            = <<"/", Service, "/", "MyService">>
  <2> DEFINE p == <<"/", Service, "/", "Login">>
             q == <<"/", Service, "/", "MyService">>
  <2>1. p # <<>> /\ p[Len(p)] # "*" /\ p[1] = "/"
    OBVIOUS
  <2>2. q # <<>> /\ q[Len(q)] # "*" /\ q[1] = "/"
    OBVIOUS
  <2> HIDE DEF p, q
  <2>3. NormalizePrefix(p) = p /\ NormalizePrefix(q) = q
    BY <2>1, <2>2, NormalPrefix
  <2> QED BY <2>3 DEF p, q
<1>3. ToRoute(DockerRoutes[1]) = DockerRoutes[1] /\ ToRoute(DockerRoutes[2]) = DockerRoutes[2]
  BY <1>2 DEF ToRoute, DockerRoutes, OrElse
<1> QED BY <1>1, <1>3 DEF routes, Routes

LEMMA PrefixByPieces ==
  ASSUME NEW S, NEW s \in Seq(S), NEW t \in Seq(S), Len(s) <= Len(t),
         \A n \in 1 .. Len(s) : s[n] = t[n]
  PROVE  IsPrefix(s, t)
<1> DEFINE a == SubSeq(s, 1, Len(s))
           b == SubSeq(t, 1, Len(s))
<1>1. /\ a \in Seq(S) /\ Len(a) = Len(s) /\ \A n \in 1 .. Len(s) : a[n] = s[n]
      /\ b \in Seq(S) /\ Len(b) = Len(s) /\ \A n \in 1 .. Len(s) : b[n] = t[n]
  OBVIOUS
<1> HIDE DEF a, b
<1>2. a = b
  BY <1>1, SeqEqual
<1> QED BY <1>2 DEF IsPrefix, a, b

\* Each of the two methods has the prefix of one of the two routes.
LEMMA DockerPrefixes ==
  /\ IsPrefix(DockerRoutes[1].prefix, LoginMethod)
  /\ ~IsPrefix(DockerRoutes[2].prefix, LoginMethod)
  /\ ~IsPrefix(DockerRoutes[1].prefix, EchoMethod)
  /\ IsPrefix(DockerRoutes[2].prefix, EchoMethod)
<1> DEFINE p == <<"/", Service, "/", "Login">>
           q == <<"/", Service, "/", "MyService">>
<1>1. DockerRoutes[1].prefix = p /\ DockerRoutes[2].prefix = q
  BY DEF DockerRoutes
<1>2. IsPrefix(p, LoginMethod)
  BY DEF IsPrefix, LoginMethod
<1>3. ~IsPrefix(q, LoginMethod)
  <2>1. SubSeq(q, 1, 4)[4] = "MyService" /\ SubSeq(LoginMethod, 1, 4)[4] = "Login"
    BY DEF LoginMethod
  <2> QED BY <2>1 DEF IsPrefix
<1>4. ~IsPrefix(p, EchoMethod)
  <2>1. SubSeq(p, 1, 4)[4] = "Login" /\ SubSeq(EchoMethod, 1, 4)[4] = "MyService"
    BY DEF EchoMethod
  <2> QED BY <2>1 DEF IsPrefix
<1>5. IsPrefix(q, EchoMethod)
  <2> DEFINE Names == {"/", Service, "MyService", "Echo"}
  <2>1. q \in Seq(Names) /\ Len(q) = 4
    OBVIOUS
  <2>2. EchoMethod \in Seq(Names) /\ Len(EchoMethod) = 5
    BY DEF EchoMethod
  <2>3. \A n \in 1 .. 4 : q[n] = EchoMethod[n]
    BY DEF EchoMethod
  <2> HIDE DEF q, Names
  <2> QED BY <2>1, <2>2, <2>3, PrefixByPieces
<1> QED BY <1>1, <1>2, <1>3, <1>4, <1>5

\* A method that only one of two routes fits takes that route.
LEMMA OnlyMatch ==
  ASSUME raw.routes = DockerRoutes, order \in SortOrders(routes), NEW method,
         NEW n \in 1 .. 2, IsPrefix(DockerRoutes[n].prefix, method),
         \A m \in 1 .. 2 : m # n => ~IsPrefix(DockerRoutes[m].prefix, method)
  PROVE  /\ Match(routes, default, order, method) = WithRouteDefaults(DockerRoutes[n])
         /\ AuthMode(routes, order, method) = OrElse(DockerRoutes[n].authorization, "none")
<1>1. /\ DOMAIN routes = 1 .. 2
      /\ \A m \in 1 .. 2 : routes[m] = DockerRoutes[m]
  BY DockerTable
<1>2. /\ order \in [1 .. 2 -> 1 .. 2]
      /\ \E m \in 1 .. 2 : order[m] = n
  BY <1>1 DEF SortOrders
<1>3. HasMatch(routes, order, method)
  BY <1>1, <1>2 DEF HasMatch, Matches
<1> DEFINE f == FirstMatch(routes, order, method)
<1>4. f \in 1 .. 2 /\ Matches(routes, order, method, f)
  BY <1>1, <1>3, FirstMatchExists DEF IsFirstMatch
<1> HIDE DEF f
<1>5. order[f] = n
  BY <1>1, <1>2, <1>4 DEF Matches
<1> QED BY <1>1, <1>3, <1>5 DEF Match, AuthMode, f

\* The routes of the scenarios: a login needs no token and is for MyAuth, an echo needs one.
LEMMA ScenarioRoutes ==
  ASSUME raw.routes = DockerRoutes, order \in SortOrders(routes)
  PROVE  /\ AuthMode(routes, order, LoginMethod) = "none"
         /\ AuthMode(routes, order, EchoMethod) = "required"
         /\ \A route : route = Match(routes, default, order, LoginMethod) =>
              /\ route.cluster = "myauth"
              /\ route.balancer = "round_robin"
              /\ route # NoRoute
         /\ Match(routes, default, order, EchoMethod) # NoRoute
<1>1. /\ Match(routes, default, order, LoginMethod) = WithRouteDefaults(DockerRoutes[1])
      /\ AuthMode(routes, order, LoginMethod) = OrElse(DockerRoutes[1].authorization, "none")
  BY DockerPrefixes, OnlyMatch
<1>2. /\ Match(routes, default, order, EchoMethod) = WithRouteDefaults(DockerRoutes[2])
      /\ AuthMode(routes, order, EchoMethod) = OrElse(DockerRoutes[2].authorization, "none")
  BY DockerPrefixes, OnlyMatch
<1>3. /\ DockerRoutes[1].authorization = "none" /\ DockerRoutes[1].cluster = "myauth"
      /\ DockerRoutes[1].balancer = "round_robin"
      /\ DockerRoutes[2].authorization = "required" /\ DockerRoutes[2].cluster = "my_service"
  BY DEF DockerRoutes
<1>4. /\ WithRouteDefaults(DockerRoutes[1]).cluster = "myauth"
      /\ WithRouteDefaults(DockerRoutes[1]).balancer = "round_robin"
      /\ WithRouteDefaults(DockerRoutes[2]).cluster = "my_service"
  BY <1>3 DEF WithRouteDefaults, OrElse
<1>5. NoRoute.cluster = ""
  BY DEF NoRoute
<1> QED BY <1>1, <1>2, <1>3, <1>4, <1>5 DEF OrElse

-----------------------------------------------------------------------------
(* The requests *)

\* The two methods, and what they are called at the services.
LEMMA TwoMethods ==
  /\ LoginMethod[Len(LoginMethod)] = "Login"
  /\ EchoMethod[Len(EchoMethod)] = "Echo"
  /\ LoginMethod # EchoMethod
<1>1. LoginMethod[Len(LoginMethod)] = "Login" /\ EchoMethod[Len(EchoMethod)] = "Echo"
  BY DEF LoginMethod, EchoMethod
<1> QED BY <1>1

\* An RPC the gateway has to refuse for its token.
NoGoodToken(request) ==
    \/ request.session = ""
    \/ request.authorization \in {"none", "garbage"}
    \/ request.authorization = "token" /\ request.session # "s1"

\* A login the store has no say in, unless it fails.
Told(body, codes) ==
    \A stored \in StoreAnswers : LoginStatus(body, stored) \in codes \union {"Internal"}

\* What Login says of the bodies of the scenarios.
LEMMA LoginsTold ==
  /\ Told(Body("", "wrong", "s1"), {"InvalidArgument"})
  /\ Told(Body("TestUser", "TestPassword", ""), {"InvalidArgument"})
  /\ Told(Body("nobody", "wrong", "s1"), {"PermissionDenied"})
  /\ Told(Body("TestUser", "wrong", "s1"), {"PermissionDenied"})
  /\ Told(Body("TestUser", "TestPassword", "s1"), {"OK"})
<1> USE DEF Told, LoginStatus, Body, GetByLogin, AuthErrorToGRPC
<1>1. Told(Body("", "wrong", "s1"), {"InvalidArgument"})
  OBVIOUS
<1>2. Told(Body("TestUser", "TestPassword", ""), {"InvalidArgument"})
  OBVIOUS
<1>3. Told(Body("nobody", "wrong", "s1"), {"PermissionDenied"})
  BY ScenarioSetting
<1>4. Told(Body("TestUser", "wrong", "s1"), {"PermissionDenied"})
  OBVIOUS
<1>5. Told(Body("TestUser", "TestPassword", "s1"), {"OK"})
  OBVIOUS
<1> QED BY <1>1, <1>2, <1>3, <1>4, <1>5

\* Every case is a call of Echo without a good token, or a login whose answer is clear.
ClearCase(c) ==
    \/ /\ c.request.method = EchoMethod
       /\ NoGoodToken(c.request)
       /\ "Unauthenticated" \in c.codes
    \/ /\ c.request.method = LoginMethod
       /\ c.request.authorization = "none"
       /\ Told(c.request.body, c.codes)

LEMMA LoginCase ==
  ASSUME NEW body, NEW codes, Told(body, codes)
  PROVE  ClearCase(Expect(LoginRequest(body), codes))
BY DEF ClearCase, Expect, LoginRequest

LEMMA EchoCase ==
  ASSUME NEW session, NEW authorization, NEW codes, "Unauthenticated" \in codes,
         \/ session = ""
         \/ authorization \in {"none", "garbage"}
         \/ authorization = "token" /\ session # "s1"
  PROVE  ClearCase(Expect(EchoRequest(session, authorization), codes))
BY DEF ClearCase, Expect, EchoRequest, NoGoodToken

LEMMA CasesAreClear == \A c \in Cases : ClearCase(c)
<1>1. \A c \in LoginErrors : ClearCase(c)
  BY LoginsTold, LoginCase DEF LoginErrors
<1>0. /\ "Unauthenticated" \in {"Unauthenticated"}
      /\ "Unauthenticated" \in {"InvalidArgument", "Unauthenticated"}
  OBVIOUS
<1>2. \A c \in GatewayErrorUnauthenticated : ClearCase(c)
  <2>1. /\ ClearCase(Expect(EchoRequest("", "none"), {"Unauthenticated"}))
        /\ ClearCase(Expect(EchoRequest("s1", "none"), {"Unauthenticated"}))
        /\ ClearCase(Expect(EchoRequest("", "token"), {"Unauthenticated"}))
        /\ ClearCase(Expect(EchoRequest("s1", "garbage"), {"Unauthenticated"}))
    BY <1>0, EchoCase
  <2>2. /\ ClearCase(Expect(GoodLogin, {"OK"}))
        /\ ClearCase(Expect(LoginRequest(Body("TestUser", "TestPassword", "")),
                            {"InvalidArgument"}))
    BY LoginsTold, LoginCase DEF GoodLogin
  <2> QED BY <2>1, <2>2 DEF GatewayErrorUnauthenticated
<1>3. \A c \in MyServiceAuthenticationErrors : ClearCase(c)
  <2>1. /\ ClearCase(Expect(EchoRequest("", "none"), {"Unauthenticated"}))
        /\ ClearCase(Expect(EchoRequest("s1", "garbage"), {"Unauthenticated"}))
        /\ ClearCase(Expect(EchoRequest("s2", "token"), {"Unauthenticated"}))
        /\ ClearCase(Expect(EchoRequest("", "token"), {"InvalidArgument", "Unauthenticated"}))
    BY <1>0, EchoCase
  <2> QED BY <2>1 DEF MyServiceAuthenticationErrors
<1> QED BY <1>1, <1>2, <1>3 DEF Cases

-----------------------------------------------------------------------------
(* The invariant *)

\* The tokens MyAuth issues are for the one session that logs in.
OneSession == issued.token.form = "signed" => issued.token.session = "s1"

\* What an RPC carries is what its header says.
TokenAsSaid ==
    rpc.phase # "idle" =>
        /\ rpc.request.authorization = "none" => rpc.token.form = "none"
        /\ rpc.request.authorization = "garbage" => rpc.token.form = "garbage"
        /\ rpc.request.authorization = "token" => rpc.token.session = "s1"

\* A case of Echo never gets beyond the check of its headers.
EchoesRefused ==
    raw.routes = DockerRoutes /\ Admitted =>
        \A c \in Cases : rpc.request = c.request => c.request.method = LoginMethod

CaseInv == OneSession /\ TokenAsSaid /\ EchoesRefused /\ ScenariosHold

LEMMA CaseInit == Init => CaseInv
<1>1. Init => rpc.phase = "idle" /\ issued.token = NoToken
  BY IdlePhase DEF Init
<1>2. NoToken.form = "none"
  BY DEF NoToken
<1> QED BY <1>1, <1>2 DEF CaseInv, OneSession, TokenAsSaid, EchoesRefused, Admitted, ScenariosHold

\* A login is answered OK only for the session of a request, which is s1.
LEMMA OneSessionStep == IInv /\ OneSession /\ [Next]_vars => OneSession'
<1> SUFFICES ASSUME IInv, OneSession, [Next]_vars PROVE OneSession'
  OBVIOUS
<1>1. CASE UNCHANGED issued
  BY <1>1 DEF OneSession
<1>2. CASE Login
  <2>1. PICK stored \in StoreAnswers :
          issued' = IF LoginStatus(rpc.request.body, stored) = "OK"
                    THEN [token |-> CreateToken(rpc.request.body.session, clock + Lifetime,
                                                raw.secret),
                          validTill |-> clock + Lifetime]
                    ELSE issued
    BY <1>2 DEF Login
  <2>2. CASE LoginStatus(rpc.request.body, stored) = "OK"
    <3>1. rpc.request.body.session # ""
      BY <2>2 DEF LoginStatus, AuthErrorToGRPC
    <3>2. rpc.request.body.session \in {"", "s1"}
      <4>1. NoRequest.body.session = ""
        BY DEF NoRequest
      <4>2. rpc.request \in Requests \union {NoRequest}
        BY DEF IInv, TypeOK
      <4> QED BY <4>1, <4>2, ScenarioSetting
    <3> QED BY <2>1, <2>2, <3>1, <3>2 DEF OneSession, CreateToken
  <2>3. CASE LoginStatus(rpc.request.body, stored) # "OK"
    BY <2>1, <2>3 DEF OneSession
  <2> QED BY <2>2, <2>3
<1> QED
  BY <1>1, <1>2 DEF Next, vars, Start, Arrive, MatchRoute, ProcessHeaders, Resolve,
                    ResolveFails, StreamFails, NotImplemented, Echo, Finish, Tick

\* A connection changes neither the request nor what it carries.
LEMMA ResolveKeeps ==
  ASSUME Resolve
  PROVE  /\ rpc'.phase = "backend"
         /\ rpc'.request = rpc.request
         /\ rpc'.token = rpc.token
<1> DEFINE key == IF IsSticky THEN StickyKey ELSE ""
<1>1. rpc' = Advance("backend", rpc.route, rpc.at, key, rpc.status)
  BY DEF Resolve
<1> HIDE DEF key
<1> QED BY <1>1 DEF Advance

\* The token of an RPC is set when it arrives.
LEMMA TokenStep == OneSession /\ TokenAsSaid /\ [Next]_vars => TokenAsSaid'
<1> SUFFICES ASSUME OneSession, TokenAsSaid, [Next]_vars PROVE TokenAsSaid'
  OBVIOUS
<1>1. CASE UNCHANGED rpc
  BY <1>1 DEF TokenAsSaid
<1>2. ASSUME NEW request \in Requests, Arrive(request)
      PROVE  TokenAsSaid'
  <2>1. rpc'.request = request /\ rpc'.token = Presented(request)
    BY <1>2 DEF Arrive
  <2>2. request.authorization = "token" => issued.token.form = "signed"
    BY <1>2 DEF Arrive
  <2>3. NoToken.form = "none" /\ Garbage.form = "garbage"
    BY DEF NoToken, Garbage
  <2> QED BY <2>1, <2>2, <2>3 DEF TokenAsSaid, OneSession, Presented
<1>3. CASE Finish
  BY <1>3, PhaseAfter DEF TokenAsSaid
<1>4. CASE MatchRoute \/ ProcessHeaders \/ Resolve \/ Answers
  <2>1. rpc.phase # "idle"
    BY <1>4 DEF MatchRoute, ProcessHeaders, Resolve, Answers, ResolveFails, StreamFails,
                NotImplemented, Login, Echo
  <2>2. \A phase, route, at, sticky, status :
          /\ Advance(phase, route, at, sticky, status).request = rpc.request
          /\ Advance(phase, route, at, sticky, status).token = rpc.token
    BY DEF Advance
  <2>3. /\ \A status : Answer(status).request = rpc.request
        /\ \A status : Answer(status).token = rpc.token
    BY <2>2 DEF Answer
  <2>4. CASE MatchRoute
    BY <2>1, <2>2, <2>3, <2>4 DEF MatchRoute, TokenAsSaid
  <2>5. CASE ProcessHeaders
    BY <2>1, <2>2, <2>3, <2>5 DEF ProcessHeaders, TokenAsSaid
  <2>6. CASE Resolve
    BY <2>1, <2>6, ResolveKeeps DEF TokenAsSaid
  <2>7. CASE Answers
    <3>1. \E status : rpc' = Answer(status)
      BY <2>7 DEF Answers, ResolveFails, StreamFails, NotImplemented, Login, Echo
    <3> QED BY <2>1, <2>3, <3>1 DEF TokenAsSaid
  <2> QED BY <1>4, <2>4, <2>5, <2>6, <2>7
<1> QED BY <1>1, <1>2, <1>3, <1>4, StepCases

\* A case of Echo is refused by the gateway: its route needs a token, and it has none that
\* is for its session.
LEMMA EchoIsRefused ==
  ASSUME TokenAsSaid, raw.routes = DockerRoutes, order \in SortOrders(routes),
         rpc.phase = "headers", rpc.request.method = EchoMethod, NoGoodToken(rpc.request)
  PROVE  Process # OK /\ Process.code = "Unauthenticated"
<1>1. AuthMode(routes, order, rpc.request.method) = "required"
  BY ScenarioRoutes
<1>2. \A msg : /\ Status("Unauthenticated", msg) # OK
               /\ Status("Unauthenticated", msg).code = "Unauthenticated"
  <2>1. \A code, msg : Status(code, msg).code = code
    BY DEF Status
  <2>2. OK.code = "OK"
    BY <2>1 DEF OK
  <2> QED BY <2>1, <2>2
<1>3. CASE rpc.request.session = ""
  BY <1>1, <1>2, <1>3 DEF Process
<1>4. CASE rpc.request.session # ""
  <2>1. ~ValidateToken(rpc.request.session, rpc.token, JWTSecret, clock)
    BY <1>4 DEF TokenAsSaid, NoGoodToken, ValidateToken, ParseAndVerify
  <2> QED BY <1>1, <1>2, <1>4, <2>1 DEF Process
<1> QED BY <1>3, <1>4

\* A case of Echo does not pass the check.
LEMMA RefusedStep == IInv /\ CaseInv /\ [Next]_vars => EchoesRefused'
<1> SUFFICES ASSUME IInv, CaseInv, [Next]_vars, raw'.routes = DockerRoutes, Admitted',
                    NEW c \in Cases, rpc'.request = c.request
             PROVE  c.request.method = LoginMethod
  BY DEF EchoesRefused
<1>1. raw.routes = DockerRoutes
  BY StepKeeps
<1>2. rpc'.phase \in {"resolve", "backend"}
  BY DEF Admitted
<1>3. CASE UNCHANGED rpc
  BY <1>1, <1>3 DEF CaseInv, EchoesRefused, Admitted
<1>4. CASE ProcessHeaders
  <2>1. Process = OK /\ rpc' = Advance("resolve", rpc.route, clock, rpc.sticky, rpc.status)
    BY <1>2, <1>4, PhaseAfter
  <2>2. rpc.request = c.request
    BY <2>1 DEF Advance
  <2>3. CASE c.request.method = EchoMethod
    <3>1. NoGoodToken(rpc.request)
      BY <2>2, <2>3, CasesAreClear, TwoMethods DEF ClearCase
    <3>2. rpc.phase = "headers" /\ order \in SortOrders(routes) /\ TokenAsSaid
      BY <1>4 DEF ProcessHeaders, IInv, CaseInv
    <3> QED BY <1>1, <2>1, <2>2, <2>3, <3>1, <3>2, EchoIsRefused
  <2> QED BY <2>3, CasesAreClear DEF ClearCase
<1>5. CASE Resolve
  <2>1. rpc.phase = "resolve"
    BY <1>5 DEF Resolve
  <2>2. rpc'.request = rpc.request
    BY <1>5, ResolveKeeps
  <2> QED BY <1>1, <2>1, <2>2 DEF CaseInv, EchoesRefused, Admitted
<1>6. rpc'.phase \notin {"route", "headers", "done", "idle"}
  BY <1>2
<1> QED BY <1>3, <1>4, <1>5, <1>6, StepCases, PhaseAfter

-----------------------------------------------------------------------------
(* The answers *)

\* An error of the gateway itself other than the missing key stands for an outage.
LEMMA OwnErrors ==
  ASSUME NEW err, err # "ErrStickyKeyRequired"
  PROVE  GatewayErrorToGRPC(Status("Unknown", err)).code \in {"Unavailable", "ResourceExhausted"}
<1>1. \A code, msg : Status(code, msg).code = code /\ Status(code, msg).msg = msg
  BY DEF Status
<1> QED BY <1>1 DEF GatewayErrorToGRPC

\* The codes of Login reach the client as they are.
LEMMA LoginCodes ==
  ASSUME NEW body, NEW stored
  PROVE  GatewayErrorToGRPC(Status(LoginStatus(body, stored), "")).code
            = LoginStatus(body, stored)
<1>1. LoginStatus(body, stored) \in {"OK", "InvalidArgument", "PermissionDenied", "Internal"}
  BY DEF LoginStatus, AuthErrorToGRPC
<1>2. \A code : Status(code, "").code = code
  BY DEF Status
<1>3. \A code : code \notin {"Unavailable", "Unknown"} =>
        GatewayErrorToGRPC(Status(code, "")) = Status(code, "")
  BY <1>2 DEF GatewayErrorToGRPC
<1> QED BY <1>1, <1>2, <1>3

\* A case that is a login finds a route, passes the check, and reaches only MyAuth.
LEMMA LoginAnswered ==
  ASSUME IInv, [Next]_vars, raw.routes = DockerRoutes, rpc'.phase = "done",
         ~UNCHANGED rpc, ServicesAnswered', rpc.request.method = LoginMethod
  PROVE  \E stored \in StoreAnswers :
            rpc'.status.code = LoginStatus(rpc.request.body, stored)
<1>1. order \in SortOrders(routes)
  BY DEF IInv
<1>2. ~MatchRoute
  <2>1. MatchRoute => rpc' = Advance("headers", Match(routes, default, order, LoginMethod),
                                     rpc.at, rpc.sticky, rpc.status)
    BY <1>1, ScenarioRoutes DEF MatchRoute
  <2> QED BY <2>1 DEF Advance
<1>3. ~ProcessHeaders
  <2>1. Process = OK
    BY <1>1, ScenarioRoutes DEF Process
  <2>2. ProcessHeaders => rpc' = Advance("resolve", rpc.route, clock, rpc.sticky, rpc.status)
    BY <2>1 DEF ProcessHeaders
  <2> QED BY <2>2 DEF Advance
<1>4. ~Resolve
  BY ResolveKeeps
<1>5. ~Finish /\ ~\E request \in Requests : Arrive(request)
  BY PhaseAfter
<1>6. Answers
  BY <1>2, <1>3, <1>4, <1>5, StepCases
<1>7. \A status : rpc' = Answer(status) =>
        /\ rpc'.status = status
        /\ status.code \notin {"Unavailable", "ResourceExhausted", "Internal"}
  BY AnswerKeeps DEF ServicesAnswered
<1>8. Routed
  BY <1>6 DEF Answers, ResolveFails, StreamFails, NotImplemented, Login, Echo, Routed
<1>9. /\ rpc.route.cluster = "myauth" /\ rpc.route.balancer = "round_robin"
      /\ Cluster.serves = "Login"
  <2>1. /\ rpc.route = Match(routes, default, order, LoginMethod)
        /\ raw \in Configs /\ LoadConfig(raw)
    BY <1>8, RoutedFacts
  <2>2. rpc.route.cluster = "myauth" /\ rpc.route.balancer = "round_robin"
    BY <1>1, <2>1, ScenarioRoutes
  <2> QED BY <2>1, <2>2, ScenarioSetting DEF Cluster
<1>10. ~ResolveFails
  <2> SUFFICES ASSUME ResolveFails PROVE FALSE
    OBVIOUS
  <2>1. PICK err \in {"ErrGenericUnknownCluster", "ErrStickyKeyRequired",
                      "ErrNoAvailableConnInstance", "ErrConnPoolClosed"} :
            /\ rpc' = Answer(GatewayErrorToGRPC(Status("Unknown", err)))
            /\ err = "ErrStickyKeyRequired" => IsSticky
    BY DEF ResolveFails
  <2>2. err # "ErrStickyKeyRequired"
    BY <1>9, <2>1 DEF IsSticky
  <2> QED BY <1>7, <2>1, <2>2, OwnErrors
<1>11. ~StreamFails
  <2> SUFFICES ASSUME StreamFails PROVE FALSE
    OBVIOUS
  <2>1. rpc' = Answer(GatewayErrorToGRPC(Status("Unavailable", "")))
    BY DEF StreamFails
  <2>2. GatewayErrorToGRPC(Status("Unavailable", "")).code = "Unavailable"
    <3>1. \A msg : Status("Unavailable", msg).code = "Unavailable"
      BY DEF Status
    <3> QED BY <3>1 DEF GatewayErrorToGRPC
  <2> QED BY <1>7, <2>1, <2>2
<1>12. ~NotImplemented /\ ~Echo
  BY <1>9, TwoMethods DEF NotImplemented, Echo
<1>13. Login
  BY <1>6, <1>10, <1>11, <1>12 DEF Answers
<1>14. PICK stored \in StoreAnswers :
          rpc' = Answer(GatewayErrorToGRPC(Status(LoginStatus(rpc.request.body, stored), "")))
  BY <1>13 DEF Login
<1> QED BY <1>7, <1>14, LoginCodes

\* A case that is an echo is answered by the check of its headers.
LEMMA EchoAnswered ==
  ASSUME IInv, CaseInv, [Next]_vars, raw.routes = DockerRoutes, rpc'.phase = "done",
         ~UNCHANGED rpc, NEW c \in Cases, rpc.request = c.request,
         c.request.method = EchoMethod
  PROVE  rpc'.status.code = "Unauthenticated"
<1>1. order \in SortOrders(routes) /\ TokenAsSaid
  BY DEF IInv, CaseInv
<1>2. ~MatchRoute
  <2>1. MatchRoute => rpc' = Advance("headers", Match(routes, default, order, EchoMethod),
                                     rpc.at, rpc.sticky, rpc.status)
    BY <1>1, ScenarioRoutes DEF MatchRoute
  <2> QED BY <2>1 DEF Advance
<1>3. ~Resolve /\ ~Answers
  <2>1. ~Admitted
    BY TwoMethods DEF CaseInv, EchoesRefused
  <2> QED BY <2>1 DEF Admitted, Resolve, Answers, ResolveFails, StreamFails, NotImplemented,
                      Login, Echo
<1>4. ~Finish /\ ~\E request \in Requests : Arrive(request)
  BY PhaseAfter
<1>5. ProcessHeaders
  BY <1>2, <1>3, <1>4, StepCases
<1>6. NoGoodToken(rpc.request)
  BY CasesAreClear, TwoMethods DEF ClearCase
<1>7. Process # OK /\ Process.code = "Unauthenticated"
  BY <1>1, <1>5, <1>6, EchoIsRefused DEF ProcessHeaders
<1>8. rpc' = Answer(Process)
  BY <1>5, <1>7 DEF ProcessHeaders
<1> QED BY <1>7, <1>8, AnswerKeeps

\* Every answer is one its scenario accepts.
LEMMA AnsweredStep == IInv /\ CaseInv /\ [Next]_vars => ScenariosHold'
<1> SUFFICES ASSUME IInv, CaseInv, [Next]_vars, rpc'.phase = "done", ServicesAnswered',
                    raw'.routes = DockerRoutes, NEW c \in Cases, rpc'.request = c.request
             PROVE  rpc'.status.code \in c.codes
  BY DEF ScenariosHold
<1>1. raw.routes = DockerRoutes
  BY StepKeeps
<1>2. CASE UNCHANGED rpc
  BY <1>1, <1>2 DEF CaseInv, ScenariosHold, ServicesAnswered
<1>3. CASE ~UNCHANGED rpc
  <2>1. rpc.request = c.request
    BY <1>3, WhoAnswers, AnswerKeeps
  <2>2. CASE c.request.method = EchoMethod
    <3>1. rpc'.status.code = "Unauthenticated"
      BY <1>1, <1>3, <2>1, <2>2, EchoAnswered
    <3> QED BY <2>2, <3>1, CasesAreClear, TwoMethods DEF ClearCase
  <2>3. CASE c.request.method = LoginMethod
    <3>1. PICK stored \in StoreAnswers :
            rpc'.status.code = LoginStatus(rpc.request.body, stored)
      BY <1>1, <1>3, <2>1, <2>3, LoginAnswered
    <3>2. Told(c.request.body, c.codes)
      BY <2>3, CasesAreClear, TwoMethods DEF ClearCase
    <3>3. rpc'.status.code # "Internal"
      BY DEF ServicesAnswered
    <3> QED BY <2>1, <3>1, <3>2, <3>3 DEF Told
  <2> QED BY <2>2, <2>3, CasesAreClear DEF ClearCase
<1> QED BY <1>2, <1>3

LEMMA CaseStep == IInv /\ CaseInv /\ [Next]_vars => CaseInv'
BY OneSessionStep, TokenStep, RefusedStep, AnsweredStep DEF CaseInv

\* With the routes of docker-compose every request of the scenarios about logins and
\* tokens gets a code its scenario accepts, at any time and after any other requests.
THEOREM ScenariosAlwaysHold == Spec => []ScenariosHold
<1>1. IInv /\ CaseInv => ScenariosHold
  BY DEF CaseInv
<1> QED BY <1>1, InitOK, StepOK, CaseInit, CaseStep, PTL DEF Spec

=============================================================================
