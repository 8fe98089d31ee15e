----------------------------- MODULE AuthTokens -----------------------------
(***************************************************************************)
(* The token of a session from its birth to its two checks: MyAuth issues  *)
(* it (MyAuth/handlers/grpc.go, service/jwt.go), MyGateway checks it       *)
(* (service/validator.go, auth/token.go) and MyService checks it once more *)
(* (AuthInterceptor.cs, JwtVerifier.cs).                                   *)
(*                                                                         *)
(* Instants are ticks, Second ticks to the second.  All clocks are one     *)
(* clock; the services differ in the time zone they show it in.  HMAC is   *)
(* taken as perfect: a signature verifies under the secret that made it.   *)
(***************************************************************************)
EXTENDS Integers

CONSTANTS
    Second,       \* ticks in a second, the resolution of RFC 3339
    AuthZone,     \* how far the time zone of MyAuth is from UTC
    BackendZone,  \* how far the time zone of MyService is from UTC
    Lifetime      \* TOKEN_EXPIRATION, in ticks

ASSUME SecondAssumption == Second \in Nat /\ Second > 0
ASSUME LifetimeAssumption == Lifetime \in Nat

\* JwtVerifier compares an instant written with another offset than Z in the local time
\* of MyService with UTC: the two agree when one of them runs in UTC.
ASSUME ZoneAssumption ==
    /\ AuthZone \in Int
    /\ BackendZone \in Int
    /\ AuthZone = 0 \/ BackendZone = 0

Garbage == [form |-> "garbage", session |-> "", expires |-> 0,
            secret |-> [text |-> "", space |-> FALSE]]

NoToken == [form |-> "none", session |-> "", expires |-> 0,
            secret |-> [text |-> "", space |-> FALSE]]

-----------------------------------------------------------------------------
(* MyAuth *)

\* Mutant: the two instants of the parameter list are swapped.
CreateTokenSwapped(session, validTill, secret) ==
    [form |-> "signed", session |-> session,
     expires |-> (validTill - Lifetime) \div Second, secret |-> secret]

\* CreateToken: the claim expires_at loses the fraction of the second.
CreateToken(session, validTill, secret) ==
    [form |-> "signed", session |-> session, expires |-> validTill \div Second,
     secret |-> secret]

\* GetByLogin: one user is known to the code, the others are looked up in Redis.
GetByLogin(username, stored) ==
    IF username = "TestUser" THEN [outcome |-> "found", password |-> "TestPassword"]
    ELSE stored

\* authErrorCodeToGRPCCode and AuthErrorToGRPC
AuthErrorToGRPC(code) ==
    CASE code = "bad_parameter" -> "InvalidArgument"
      [] code = "invalid_user_or_password" -> "PermissionDenied"
      [] code = "internal_server_error" -> "Internal"
      [] code = "entity_not_found" -> "NotFound"
      [] OTHER -> "Unknown"

\* Mutant: a user the store does not know is reported as such.
LoginTellsUsers(body, stored) ==
    LET user == GetByLogin(body.username, stored)
    IN CASE body.username = "" -> AuthErrorToGRPC("bad_parameter")
         [] body.username # "" /\ body.session = "" -> AuthErrorToGRPC("bad_parameter")
         [] body.username # "" /\ body.session # "" /\ user.outcome = "absent" ->
                AuthErrorToGRPC("entity_not_found")
         [] OTHER -> "OK"

\* The status of Login.
LoginStatus(body, stored) ==
    LET user == GetByLogin(body.username, stored)
    IN IF body.username = "" \/ body.session = "" THEN AuthErrorToGRPC("bad_parameter")
       ELSE IF user.outcome = "absent" THEN AuthErrorToGRPC("invalid_user_or_password")
       ELSE IF user.outcome = "failed" THEN AuthErrorToGRPC("internal_server_error")
       ELSE IF user.password # body.password
            THEN AuthErrorToGRPC("invalid_user_or_password")
       ELSE "OK"

-----------------------------------------------------------------------------
(* MyGateway *)

\* auth.ParseAndVerify
ParseAndVerify(token, secret) == token.form = "signed" /\ token.secret = secret

\* ValidateToken: the token is good up to its second, that instant included.
ValidateToken(session, token, secret, now) ==
    /\ ParseAndVerify(token, secret)
    /\ ~(now > token.expires * Second)
    /\ token.session = session

-----------------------------------------------------------------------------
(* MyService *)

\* DateTime.TryParse turns an offset other than Z into local time; ticks are compared.
BackendDeadline(token) ==
    token.expires * Second + (IF AuthZone = 0 THEN 0 ELSE BackendZone)

\* Mutant: the last instant of the token counts as expired.
BackendExpiresEarly(token, now) == BackendDeadline(token) <= now

BackendExpired(token, now) == BackendDeadline(token) < now

\* ValidateAuth of the interceptor, on the methods that need it.
BackendAccepts(session, token, secret, now) ==
    /\ ParseAndVerify(token, secret)
    /\ ~BackendExpired(token, now)
    /\ token.session = session

=============================================================================
