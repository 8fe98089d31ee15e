------------------------------ MODULE Gateway ------------------------------
(***************************************************************************)
(* The sessions of the whole system: clients, the gateway with its pool,   *)
(* and the processes of MyService, each with the one session it remembers  *)
(* (MyGateway/service/transparent.go, connection_resolver_generic.go;      *)
(* MyService/EchoService.cs, MSShared.cs).                                 *)
(*                                                                         *)
(* The pool is what SessionAffinity promises; which instances are listed   *)
(* is left open.  The handler of an RPC may retry after any failure: how   *)
(* often it does, and when not at all, is TransparentProxy's.  Code that   *)
(* runs at a backend outlives the RPC that started it, and a process that  *)
(* was stopped may be started again under the same name.                   *)
(***************************************************************************)
EXTENDS Naturals

CONSTANTS
    Instances,  \* the instance IDs (host names) of MyService
    Keys,       \* the sessions
    Clients,
    Calls,      \* bound: calls that run at all backends at one time
    MaxRPCs,    \* bound: RPCs of all clients
    MaxFaults,  \* bound: stops of processes and of the gateway, and refreshes that shrink
    NoInstance, NoKey, NoCall

ASSUME BoundsAssumption == MaxRPCs \in Nat /\ MaxFaults \in Nat
ASSUME NoInstanceAssumption == NoInstance \notin Instances
ASSUME NoKeyAssumption == NoKey \notin Keys
ASSUME NoCallAssumption == NoCall \notin Calls

VARIABLES
    home,      \* keyToID: the instance each session is bound to
    live,      \* instanceConn: the instances the pool is connected to
    rpc,       \* the RPC of each client, at the gateway
    up,        \* the instances whose process runs
    session,   \* MSShared._assignedSession of each process
    call,      \* the calls that run at the processes
    released,  \* the instances that lost a binding since they were last started
    rpcs,      \* RPCs that arrived
    faults     \* faults that happened

poolVars == <<home, live, released>>
backendVars == <<up, session, call>>
bounds == <<rpcs, faults>>
vars == <<poolVars, rpc, backendVars, bounds>>

-----------------------------------------------------------------------------
(* Helpers *)

\* An RPC of a client: the call that runs for it at a backend, and whether a backend
\* denied it and the client was not told.
Rpc(phase, wants, key, at, runs, denied) ==
    [phase |-> phase, wants |-> wants, key |-> key, at |-> at, runs |-> runs,
     denied |-> denied]

\* No RPC is under way.
Idle == Rpc("idle", "nothing", NoKey, NoInstance, NoCall, FALSE)

\* MyServiceShutdown and, under one name, the two methods that bind an instance to a
\* session: MyServiceEcho, and MyServiceSubscribe, which replies until it is cancelled.
Methods == {"echo", "shutdown"}

\* A call at a backend: how far it is, what it is for, and the session it was sent with.
Handler(pc, at, kind, key) == [pc |-> pc, at |-> at, kind |-> kind, key |-> key]

Free == Handler("free", NoInstance, "nothing", NoKey)

\* The RPC of client c looks for a connection, without a lease and without a call.
Seeking(c, denied) == Rpc("seek", rpc[c].wants, rpc[c].key, NoInstance, NoCall, denied)

\* Mutant: a broken stream still leads its call.
KeepCall(r, gone) ==
    IF r.at \in gone /\ r.phase \in {"dial", "stream"}
    THEN Rpc("broken", r.wants, r.key, r.at, r.runs, r.denied)
    ELSE r

\* The connections to the instances in gone are closed: streams on them break, leases
\* on them are good for nothing.
AfterClose(r, gone) ==
    IF r.at \in gone /\ r.phase \in {"dial", "stream"}
    THEN Rpc("broken", r.wants, r.key, r.at, NoCall, r.denied)
    ELSE r

\* Mutant: the session is not written to keyToID.
BindNothing(k, i) == home

Bind(k, i) == [home EXCEPT ![k] = i]

AtHome(k) == home[k] \in live

\* Mutant: instances of other sessions are not skipped.
AnyInstance(i, k) == TRUE

\* isInstanceAssignedToOtherKey, negated.
IsFree(i, k) == \A q \in Keys \ {k} : home[q] # i

\* Every step that changes a binding leaves its mark on the instance it was to.
Release ==
    released' = released \union
        ({home[k] : k \in {q \in Keys : home'[q] # home[q]}} \ {NoInstance})

\* Mutant: the connection of the failed instance stays in the cache.
KeepConnection(i) == live

Disconnect(i) == live \ {i}

\* OnBackendFailure for the lease of client c, whose RPC becomes next.
Report(c, next) ==
    /\ home' = Bind(rpc[c].key, NoInstance)
    /\ live' = Disconnect(rpc[c].at)
    /\ Release
    /\ rpc' = [d \in Clients |-> IF d = c THEN next
                                 ELSE AfterClose(rpc[d], {rpc[c].at})]

-----------------------------------------------------------------------------

Init ==
    /\ home = [k \in Keys |-> NoInstance]
    /\ live = {}
    /\ rpc = [c \in Clients |-> Idle]
    /\ up = Instances
    /\ session = [i \in Instances |-> NoKey]
    /\ call = [h \in Calls |-> Free]
    /\ released = {}
    /\ rpcs = 0
    /\ faults = 0

-----------------------------------------------------------------------------
(* The gateway *)

Arrive(c, wants, k) ==
    /\ rpc[c].phase = "idle"
    /\ rpcs < MaxRPCs
    /\ rpcs' = rpcs + 1
    /\ rpc' = [rpc EXCEPT ![c] = Rpc("seek", wants, k, NoInstance, NoCall, FALSE)]
    /\ UNCHANGED <<poolVars, backendVars, faults>>

Leased(c, i) ==
    [rpc EXCEPT ![c] = Rpc("dial", rpc[c].wants, rpc[c].key, i, NoCall, rpc[c].denied)]

\* GetConnection: the session is bound to an instance the pool is connected to.
VisitHome(c) ==
    /\ rpc[c].phase = "seek"
    /\ AtHome(rpc[c].key)
    /\ rpc' = Leased(c, home[rpc[c].key])
    /\ UNCHANGED <<poolVars, backendVars, bounds>>

\* GetConnection: the session is bound to an instance no other session is bound to.
Settle(c, i) ==
    /\ rpc[c].phase = "seek"
    /\ ~AtHome(rpc[c].key)
    /\ IsFree(i, rpc[c].key)
    /\ home' = Bind(rpc[c].key, i)
    /\ live' = live \union {i}
    /\ Release
    /\ rpc' = Leased(c, i)
    /\ UNCHANGED <<backendVars, bounds>>

\* GetConnection: all instances of the list are busy, or there are none.
NoInstanceLeft(c) ==
    /\ rpc[c].phase = "seek"
    /\ ~AtHome(rpc[c].key)
    /\ home' = Bind(rpc[c].key, NoInstance)
    /\ Release
    /\ rpc' = [rpc EXCEPT ![c] = Idle]
    /\ UNCHANGED <<live, backendVars, bounds>>

\* NewStream; then the first message of the client reaches the process.
NewStream(c) ==
    /\ rpc[c].phase = "dial"
    /\ rpc[c].at \in up
    /\ \E h \in Calls :
        /\ call[h].pc = "free"
        /\ call' = [call EXCEPT ![h] = Handler("check", rpc[c].at, rpc[c].wants, rpc[c].key)]
        /\ rpc' = [rpc EXCEPT ![c] = Rpc("stream", rpc[c].wants, rpc[c].key, rpc[c].at, h,
                                         rpc[c].denied)]
    /\ UNCHANGED <<poolVars, up, session, bounds>>

\* The call that runs for the RPC of client c has come to pc.
RunsTo(c, pc) == rpc[c].phase = "stream" /\ call[rpc[c].runs].pc = pc

Denied(c) == RunsTo(c, "failed") /\ rpc[c].wants = "shutdown"

\* The stream is not opened (no process, a closed connection, the timer), breaks, or ends
\* with an error of the backend: the instance is reported, whatever the reason, and the
\* RPC is sent to another one or answered.
StreamFails(c) ==
    /\ rpc[c].phase \in {"dial", "broken"} \/ RunsTo(c, "failed")
    /\ Report(c, Idle) \/ Report(c, Seeking(c, rpc[c].denied \/ Denied(c)))
    /\ call' = IF RunsTo(c, "failed") THEN [call EXCEPT ![rpc[c].runs] = Free] ELSE call
    /\ UNCHANGED <<up, session, bounds>>

\* The client cancels: a failure of the instance for the gateway, and the call goes on.
ClientGoes(c) ==
    /\ rpc[c].phase = "stream"
    /\ Report(c, Idle)
    /\ UNCHANGED <<backendVars, bounds>>

StreamEnds(c) ==
    /\ RunsTo(c, "replied")
    /\ rpc' = [rpc EXCEPT ![c] = Idle]
    /\ call' = [call EXCEPT ![rpc[c].runs] = Free]
    /\ UNCHANGED <<poolVars, up, session, bounds>>

\* A refresh no longer shows these instances.
Vanish(gone) ==
    /\ gone # {}
    /\ faults < MaxFaults
    /\ faults' = faults + 1
    /\ live' = live \ gone
    /\ home' = [k \in Keys |-> IF home[k] \in gone THEN NoInstance ELSE home[k]]
    /\ Release
    /\ rpc' = [c \in Clients |-> AfterClose(rpc[c], gone)]
    /\ UNCHANGED <<backendVars, rpcs>>

\* The gateway stops, or crashes, and another one starts with an empty pool.
GatewayRestarts ==
    /\ faults < MaxFaults
    /\ faults' = faults + 1
    /\ home' = [k \in Keys |-> NoInstance]
    /\ live' = {}
    /\ Release
    /\ rpc' = [c \in Clients |-> Idle]
    /\ UNCHANGED <<backendVars, rpcs>>

-----------------------------------------------------------------------------
(* MyService *)

\* Call h goes on at pc.
Goto(h, pc) == [call EXCEPT ![h] = Handler(pc, call[h].at, call[h].kind, call[h].key)]

\* ValidateAndSetClientSession, first half: the session is read ...
ValidateSession(h) ==
    /\ call[h].pc = "check"
    /\ call[h].kind = "echo"
    /\ call' = Goto(h, IF session[call[h].at] \in {NoKey, call[h].key}
                       THEN "set" ELSE "failed")
    /\ UNCHANGED <<poolVars, rpc, up, session, bounds>>

\* ... second half: and written, whatever it has become. Replies are built from here on,
\* with the session the process then has.
SetSession(h) ==
    /\ call[h].pc = "set"
    /\ session' = [session EXCEPT ![call[h].at] = call[h].key]
    /\ call' = Goto(h, "reply")
    /\ UNCHANGED <<poolVars, rpc, up, bounds>>

\* The last reply.
Reply(h) ==
    /\ call[h].pc = "reply"
    /\ call' = Goto(h, "replied")
    /\ UNCHANGED <<poolVars, rpc, up, session, bounds>>

\* MyServiceShutdown: only the process of the session exits, 200 ms later if it is not
\* gone before: Stop, which may happen at any time.
Shutdown(h) ==
    /\ call[h].pc = "check"
    /\ call[h].kind = "shutdown"
    /\ call' = Goto(h, IF session[call[h].at] = call[h].key THEN "replied" ELSE "failed")
    /\ UNCHANGED <<poolVars, rpc, up, session, bounds>>

\* A call whose stream is gone is over, or cancelled in the midst of its replies.
Leave(h) ==
    /\ call[h].pc \in {"reply", "replied", "failed"}
    /\ \A c \in Clients : rpc[c].runs # h
    /\ call' = [call EXCEPT ![h] = Free]
    /\ UNCHANGED <<poolVars, rpc, up, session, bounds>>

\* The process exits, or is killed, with the calls that run in it.
Stop(i) ==
    /\ i \in up
    /\ faults < MaxFaults
    /\ faults' = faults + 1
    /\ up' = up \ {i}
    /\ session' = [session EXCEPT ![i] = NoKey]
    /\ call' = [h \in Calls |-> IF call[h].at = i THEN Free ELSE call[h]]
    /\ rpc' = [c \in Clients |->
                IF rpc[c].phase = "stream" THEN AfterClose(rpc[c], {i}) ELSE rpc[c]]
    /\ UNCHANGED <<poolVars, rpcs>>

\* The container is started again; calls on their way to the old process keep it marked.
Boot(i) ==
    /\ i \notin up
    /\ up' = up \union {i}
    /\ released' = IF \E c \in Clients : rpc[c].at = i THEN released ELSE released \ {i}
    /\ UNCHANGED <<home, live, rpc, session, call, bounds>>

-----------------------------------------------------------------------------

Next ==
    \/ \E c \in Clients, k \in Keys, wants \in Methods : Arrive(c, wants, k)
    \/ \E c \in Clients :
        \/ VisitHome(c) \/ NoInstanceLeft(c) \/ NewStream(c)
        \/ StreamFails(c) \/ ClientGoes(c) \/ StreamEnds(c)
    \/ \E c \in Clients, i \in Instances : Settle(c, i)
    \/ \E gone \in SUBSET live : Vanish(gone)
    \/ GatewayRestarts
    \/ \E h \in Calls :
        \/ ValidateSession(h) \/ SetSession(h) \/ Reply(h) \/ Shutdown(h) \/ Leave(h)
    \/ \E i \in Instances : Stop(i) \/ Boot(i)

Spec == Init /\ [][Next]_vars

-----------------------------------------------------------------------------

\* An RPC record is in order while the calls are as running says ...
RpcOK(r, running) ==
    /\ r = Rpc(r.phase, r.wants, r.key, r.at, r.runs, r.denied)
    /\ r.phase \in {"idle", "seek", "dial", "stream", "broken"}
    /\ r.denied \in BOOLEAN
    /\ r.phase # "idle" => r.key \in Keys /\ r.wants \in Methods
    /\ IF r.phase \in {"dial", "stream", "broken"} THEN r.at \in Instances
       ELSE r.at = NoInstance
    /\ IF r.phase = "stream"
       THEN /\ r.runs \in Calls
            /\ running[r.runs].pc # "free"
            /\ running[r.runs].at = r.at
            /\ running[r.runs].key = r.key
       ELSE r.runs = NoCall

\* ... and a call while these processes are up.
HandlerOK(x, ups) ==
    /\ x = Handler(x.pc, x.at, x.kind, x.key)
    /\ x.pc \in {"free", "check", "set", "reply", "replied", "failed"}
    /\ IF x.pc = "free" THEN x = Free
       ELSE x.at \in ups /\ x.key \in Keys /\ x.kind \in Methods

\* A call is led by at most the RPC it was started for, and runs where that was sent to.
TypeOK ==
    /\ home \in [Keys -> Instances \union {NoInstance}]
    /\ live \subseteq Instances
    /\ DOMAIN rpc = Clients
    /\ \A c \in Clients : RpcOK(rpc[c], call)
    /\ up \subseteq Instances
    /\ session \in [Instances -> Keys \union {NoKey}]
    /\ DOMAIN call = Calls
    /\ \A h \in Calls : HandlerOK(call[h], up)
    /\ released \subseteq Instances
    /\ rpcs \in 0 .. MaxRPCs
    /\ faults \in 0 .. MaxFaults

\* A session has one home and a home one session; no two RPCs lead one call.
OneToOne ==
    /\ \A k, q \in Keys : home[k] = home[q] /\ home[k] # NoInstance => k = q
    /\ \A c, d \in Clients :
        rpc[c].phase = "stream" /\ rpc[d].phase = "stream" /\ rpc[c].runs = rpc[d].runs
            => c = d

\* The session in the memory of instance i, the calls that run in it and the leases on it
\* are those of the one session that is bound to it.
Attached(i) ==
    /\ session[i] # NoKey => home[session[i]] = i
    /\ \A h \in Calls : call[h].at = i => home[call[h].key] = i
    /\ \A c \in Clients :
        rpc[c].at = i /\ rpc[c].phase \in {"dial", "stream"} => home[rpc[c].key] = i

\* A process that does not run has no session; one that replies has.
Remembers ==
    /\ \A i \in Instances \ up : session[i] = NoKey
    /\ \A h \in Calls : call[h].pc = "reply" => session[call[h].at] # NoKey

\* No session conflict at an instance that kept its binding.
NoConflict ==
    \A h \in Calls :
        call[h].pc = "failed" /\ call[h].kind = "echo" => call[h].at \in released

\* An instance is attached to its session until it loses the binding.
IInv ==
    /\ TypeOK
    /\ OneToOne
    /\ \A i \in Instances \ released : Attached(i)
    /\ Remembers
    /\ NoConflict

\* The affinity of the whole system: two processes hold one session at a time only if
\* the binding of one of them was given up while its process lived on.
SessionOnOneInstance ==
    \A i, j \in Instances \ released :
        i # j /\ session[i] = session[j] => session[i] = NoKey

\* A client is told of a session conflict, or gets an answer with another session than
\* its own, only from an instance whose binding was given up (EchoService.cs:110, :115).
ConflictOnlyAfterRelease ==
    \A h \in Calls : call[h].at \notin released =>
        /\ ~(call[h].pc = "failed" /\ call[h].kind # "shutdown")
        /\ call[h].pc = "reply" => session[call[h].at] = call[h].key

Using == {<<rpc[c].key, rpc[c].at>> : c \in {d \in Clients : rpc[d].at # NoInstance}}

Pool == INSTANCE SessionAffinity
            WITH InstanceIDs <- Instances, using <- Using, closed <- FALSE

\* Between two starts of the gateway its handlers use the pool as SessionAffinity says,
\* and see no more of it than that: what ConnectionPool implements is what is needed here.
PoolKeepsPromise ==
    Pool!Init /\ [][Pool!Next \/ GatewayRestarts]_(Pool!vars)

\* What IntegrationTests/scenario/myservice_shutdown_errors.go:28 says of a shutdown
\* that an instance denied: the client is told so, not that there is no instance.
DeniedIsTold == [][\A c \in Clients : NoInstanceLeft(c) => ~rpc[c].denied]_vars

=============================================================================
