---------------------------- MODULE BackendConfig ----------------------------
(***************************************************************************)
(* The environment the two backends start with: MSConfig.Parse and         *)
(* NetworkHelper of MyService, LoadConfig of MyAuth.  A variable that is   *)
(* not set is "" or, for a number, Unset; one that is no number is NaN.    *)
(***************************************************************************)
EXTENDS Integers, SequencesExt

Unset == -1
NaN == -2

OrDefault(number, default) == IF number = Unset THEN default ELSE number

\* A secret as it stands in the environment: its text, and whether space surrounds it.
\* MyAuth takes any but the empty string, as it is ...
AuthSecretOK(secret) == secret.text # "" \/ secret.space

\* ... and MyService any that holds more than space, with that space.
BackendSecretOK(secret) == secret.text # ""

\* MyAuth/cmd/config.go: the port may be any number, the expiry any duration.
AuthConfigOK(env, secret) ==
    /\ env.port # NaN
    /\ env.expiration # NaN
    /\ AuthSecretOK(secret)

\* GetPrimaryIPv4Address: the first IPv4 address that is no loopback address, of the
\* interfaces that are up and neither loopback nor tunnel; "" when there is none.
PrimaryIPv4Address(interfaces) ==
    LET usable == SelectSeq(interfaces, LAMBDA n : n.up /\ n.kind \notin {"loopback", "tunnel"})
        addresses == SelectSeq(FlattenSeq([n \in DOMAIN usable |-> usable[n].addresses]),
                               LAMBDA a : a.ipv4 /\ ~a.loopback)
    IN IF addresses = <<>> THEN "" ELSE addresses[1].text

\* MSConfig.Parse returns; otherwise the process exits.
MSConfigOK(env, secret) ==
    /\ OrDefault(env.port, 5000) \in 1 .. 65535
    /\ env.discovererUrl # ""
    /\ env.hostname # ""
    /\ PrimaryIPv4Address(env.interfaces) # ""
    /\ OrDefault(env.registrationTtlMs, 300000) \in 1 .. 600000
    /\ OrDefault(env.heartbeatIntervalMs, 120000) > 0
    /\ BackendSecretOK(secret)

=============================================================================
