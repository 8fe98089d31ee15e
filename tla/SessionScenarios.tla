-------------------------- MODULE SessionScenarios --------------------------
(***************************************************************************)
(* The integration scenarios about sessions (IntegrationTests/scenario),   *)
(* run against the connection pool, the retries of the gateway's handler   *)
(* and the processes of MyService, in the environment docker-compose.yml   *)
(* describes.  Each scenario is a script; a test process sends its RPCs    *)
(* one at a time and judges the answers as the Go code does.               *)
(*                                                                         *)
(* The pool is ConnectionPool, with its refresh in two steps.  The handler *)
(* is as far as it decides which instance an RPC is sent to next, with     *)
(* which code it ends, and when: how its goroutines get there is           *)
(* TransparentProxy's.  Logins are GatewayScenarios'.  TTL and heartbeat   *)
(* of the registration outlast every scenario.                             *)
(***************************************************************************)
EXTENDS ConnectionPool

CONSTANTS
    Scenarios,     \* the scenarios that are run
    RetryCount,    \* RETRY_COUNT
    MaxRefreshes   \* bound: refreshes of the pool during a scenario

ASSUME SetupAssumption ==
    /\ RetryCount \in Nat \ {0}
    /\ MaxRefreshes \in Nat

ASSUME SessionsAssumption == {"s1", "s2", "s3", "s4"} \subseteq Keys

VARIABLES
    up,         \* the instances whose process runs
    session,    \* MSShared._assignedSession of each process
    exiting,    \* the processes that answered a shutdown and exit within 200 ms
    handler,    \* the RPC that occupies each slot of calls, at the gateway
    test,       \* the scenario: how far it is and what it has seen
    refreshes   \* refreshes begun

processVars == <<up, session, exiting>>
allVars == <<vars, processVars, handler, test, refreshes>>

-----------------------------------------------------------------------------
(* The scripts *)

\* A step of a script: what is done, for which session, and the codes that are accepted.
Step(does, who, codes) == [does |-> does, who |-> who, codes |-> codes]

Echo(s) == Step("echo", s, {"OK"})
EndSession(s) == Step("shutdown", s, {"OK"})
Subscribe(s) == Step("subscribe", s, {"OK"})
NextMessage(s) == Step("next", s, {"OK"})
\* A shutdown of which no answer fails the scenario.
Cleanup(s) == Step("cleanup", s, {})
Order(does) == Step(does, NoKey, {})

\* The call again while it answers Unavailable, at most five times (echoTwice).
Patient(s) == Step("patient", s, {"OK"})

Times(n, s) == [i \in 1 .. n |-> s]

BasicWorkflow == Times(10, Echo("s1")) \o <<EndSession("s1")>>

StickySession ==
    [i \in 1 .. 20 |-> Echo(IF i % 2 = 1 THEN "s1" ELSE "s2")]
        \o <<Order("verify"), EndSession("s1"), EndSession("s2")>>

SessionTransfer ==
    LET Leg == Times(2, Patient("s1")) \o <<EndSession("s1"), Order("sleep")>> IN
    Leg \o Leg \o Leg \o <<Step("echo", "s1", {"Unavailable", "ResourceExhausted"})>>

NoInstancesAvailable ==
    <<Echo("s1"), Echo("s2"), Echo("s3"), Step("echo", "s4", {"ResourceExhausted"})>>

SystemOverload ==
    LET Try(s) == Step("echo", s, {"OK", "Unavailable", "ResourceExhausted", "Internal"}) IN
    <<Try("s1"), Try("s2"), Try("s3"), Try("s4"), Order("verify"),
      Cleanup("s1"), Cleanup("s2"), Cleanup("s3"), Cleanup("s4")>>

GatewayErrorUnavailable ==
    <<Order("stop"), Order("sleep"), Step("echo", "s1", {"Unavailable"}), Order("start")>>

StreamSubscription ==
    <<Subscribe("s1"), NextMessage("s1"), NextMessage("s1"), Step("cancel", "s1", {}),
      Cleanup("s1")>>

StreamSubscriptionStop ==
    <<Echo("s1"), Subscribe("s1"), Step("kill", "s1", {}), NextMessage("s1"), Order("start")>>

\* The second step is skipped when its session gets no instance.
ShutdownErrors ==
    <<Step("shutdown", "s1", {"PermissionDenied"}),
      Step("echo", "s2", {"OK", "ResourceExhausted"}),
      Step("shutdown", "s3", {"PermissionDenied"})>>

Script ==
    [basic_workflow |-> BasicWorkflow,
     sticky_session |-> StickySession,
     session_transfer |-> SessionTransfer,
     no_instances_available |-> NoInstancesAvailable,
     system_overload |-> SystemOverload,
     gateway_error_unavailable |-> GatewayErrorUnavailable,
     stream_subscription |-> StreamSubscription,
     stream_subscription_myservice_stop |-> StreamSubscriptionStop,
     myservice_shutdown_errors |-> ShutdownErrors]

ASSUME ScenariosExist == Scenarios \subseteq DOMAIN Script

-----------------------------------------------------------------------------
(* The test process *)

Steps == Script[test.scenario]
Ended == test.step > Len(Steps)
Now == Steps[test.step]

\* The scenario goes on at its next step.
Advance == [test EXCEPT !.step = @ + 1, !.tries = 0]
Fail == [test EXCEPT !.ok = FALSE]

\* The pod that session s had is left behind: the next one must be another.
Forget(pod, s) == [Advance EXCEPT !.left = @ \union {pod}, !.pods[s] = NoInstance]

\* Echo, Shutdown and the checks after Recv: the code, and with it the pod.
Accepts(code, pod) ==
    /\ code \in Now.codes
    /\ code = "OK" => test.pods[Now.who] \in {NoInstance, pod} /\ pod \notin test.left

\* What the scenario remembers of an answer it accepts.
Remember(code, pod) ==
    IF code # "OK" THEN [Advance EXCEPT !.refused = @ \union {Now.who}]
    ELSE IF Now.does = "shutdown" THEN Forget(pod, Now.who)
    ELSE [Advance EXCEPT !.pods[Now.who] = pod]

Again(code) == Now.does = "patient" /\ code = "Unavailable" /\ test.tries < 4

\* The call of the current step is answered.
Answered(code, pod) ==
    test' = CASE Now.does = "cleanup" -> Advance
              [] Again(code) -> [test EXCEPT !.tries = @ + 1]
              [] OTHER -> IF Accepts(code, pod) THEN Remember(code, pod) ELSE Fail

\* What is checked between the calls of sticky_session and system_overload.
Verified ==
    IF test.scenario = "sticky_session" THEN test.pods["s1"] # test.pods["s2"]
    ELSE test.refused # {} /\ test.refused # Keys

\* In myservice_shutdown_errors nothing follows an Echo that found no instance; the
\* clean-up of system_overload is for the sessions that got one.
Skips ==
    \/ test.scenario = "myservice_shutdown_errors" /\ "s2" \in test.refused
    \/ Now.does = "cleanup" /\ Now.who \in test.refused

-----------------------------------------------------------------------------
(* The handler of the gateway *)

RPC(phase, method, key, attempt, transfer, code) ==
    [phase |-> phase, method |-> method, key |-> key, attempt |-> attempt,
     transfer |-> transfer, code |-> code]

NoRPC == RPC("idle", "none", NoKey, 0, 0, "OK")

\* The test waits for the answer of the RPC in slot c, or of some RPC.
Pending(c) == handler[c].phase \in {"seek", "dial", "stream", "denied"}
Waiting == \E c \in Calls : Pending(c)

Goes(c, phase) == [handler EXCEPT ![c].phase = phase]

\* The RPC in slot c is over and answered.
Ends(c, code, pod) ==
    /\ handler' = [handler EXCEPT ![c] = NoRPC]
    /\ Answered(code, pod)

\* GetConnection answers; which of the fresh connections a dial returns is of no matter.
GetConnection(c) ==
    /\ handler[c].phase = "seek"
    /\ CallSticky(c, handler[c].key)
    /\ calls'[c].conn \in openConns \union {CHOOSE n \in FreshConns : TRUE}
    /\ handler' = Goes(c, "dial")
    /\ UNCHANGED <<processVars, test, refreshes>>

\* ErrNoAvailableConnInstance ends the RPC. (A dial is lazy, so here none fails.)
NoConnection(c) ==
    /\ handler[c].phase = "seek"
    /\ \A i \in Listed : IsInstanceAssignedToOtherKey(i, handler[c].key)
    /\ CallRefused(handler[c].key)
    /\ Ends(c, "ResourceExhausted", NoInstance)
    /\ UNCHANGED <<processVars, refreshes>>

NewStream(c) ==
    /\ handler[c].phase = "dial"
    /\ calls[c].id \in up
    /\ handler' = Goes(c, "stream")
    /\ UNCHANGED <<vars, processVars, test, refreshes>>

\* Mutant: one attempt more than RETRY_COUNT.
OneTooMany(h) == h.attempt = RetryCount

LastAttempt(h) == h.attempt = RetryCount - 1

\* NewStream fails: the instance is reported, and another one is tried. (The host refuses
\* or is known to be gone; the timer of RETRY_TIMEOUT_MS would answer Canceled.)
NewStreamFails(c) ==
    /\ handler[c].phase = "dial"
    /\ calls[c].id \notin up
    /\ CallFails(c)
    /\ IF LastAttempt(handler[c])
       THEN Ends(c, "Unavailable", NoInstance)
       ELSE /\ handler' = [handler EXCEPT ![c].phase = "seek", ![c].attempt = @ + 1]
            /\ UNCHANGED test
    /\ UNCHANGED <<processVars, refreshes>>

\* The backend has sent an error, or the process is gone while the stream runs.
StreamFailed(c) ==
    \/ handler[c].phase = "denied"
    \/ handler[c].phase = "stream" /\ calls[c].id \notin up

\* The stream ends with an error: the instance is reported, and the RPC moves, with as
\* many attempts as at first. The scenarios send one message, which is held by then.
StreamFails(c) ==
    LET h == handler[c] IN
    /\ StreamFailed(c)
    /\ CallFails(c)
    /\ IF h.transfer >= RetryCount - 1
       THEN Ends(c, IF h.phase = "denied" THEN h.code ELSE "Unavailable", NoInstance)
       ELSE /\ handler' = [handler EXCEPT ![c] =
                            RPC("seek", h.method, h.key, 0, h.transfer + 1, "OK")]
            /\ UNCHANGED test
    /\ UNCHANGED <<processVars, refreshes>>

\* The client has cancelled its stream, which counts as a failure of the instance.
CancelledStream(c) ==
    /\ handler[c].phase = "cancelled"
    /\ CallFails(c)
    /\ handler' = [handler EXCEPT ![c] = NoRPC]
    /\ UNCHANGED <<processVars, test, refreshes>>

-----------------------------------------------------------------------------
(* MyService *)

\* What the process of instance i answers to a call with session k.
Reply(method, i, k) ==
    CASE method = "shutdown" -> IF session[i] = k THEN "OK" ELSE "PermissionDenied"
      [] session[i] \in {NoKey, k} -> "OK"
      [] OTHER -> "Internal"

\* A process serves a call: a unary one to its end, a subscription by one message.
Serve(c) ==
    LET h == handler[c]
        i == calls[c].id
        code == Reply(h.method, i, h.key)
    IN
    /\ h.phase = "stream"
    /\ i \in up
    /\ IF code # "OK"
       THEN /\ handler' = [handler EXCEPT ![c].phase = "denied", ![c].code = code]
            /\ UNCHANGED <<vars, session, exiting, test>>
       ELSE /\ session' = [session EXCEPT ![i] = h.key]
            /\ exiting' = IF h.method = "shutdown" THEN exiting \union {i} ELSE exiting
            /\ IF h.method = "subscribe"
               THEN handler' = Goes(c, "open") /\ Answered("OK", i) /\ UNCHANGED vars
               ELSE Ends(c, "OK", i) /\ CallEnds(c)
    /\ UNCHANGED <<up, refreshes>>

\* These processes are gone, with the session each of them remembered.
Vanish(gone) ==
    /\ up' = up \ gone
    /\ exiting' = exiting \ gone
    /\ session' = [i \in InstanceIDs |-> IF i \in gone THEN NoKey ELSE session[i]]

\* Environment.Exit.
Exit(i) ==
    /\ i \in exiting
    /\ Vanish({i})
    /\ UNCHANGED <<vars, handler, test, refreshes>>

-----------------------------------------------------------------------------
(* The steps of the scripts *)

Proceeds == test.ok /\ ~Ended /\ ~Waiting /\ ~Skips

Skip ==
    /\ test.ok /\ ~Ended /\ ~Waiting /\ Skips
    /\ test' = Advance
    /\ UNCHANGED <<vars, processVars, handler, refreshes>>

\* The method a step calls.
Method == CASE Now.does \in {"echo", "patient"} -> "echo"
            [] Now.does \in {"shutdown", "cleanup"} -> "shutdown"
            [] Now.does = "subscribe" -> "subscribe"
            [] OTHER -> "none"

Request(c) ==
    /\ Proceeds
    /\ Method # "none"
    /\ handler[c] = NoRPC
    /\ handler' = [handler EXCEPT ![c] = RPC("seek", Method, Now.who, 0, 0, "OK")]
    /\ UNCHANGED <<vars, processVars, test, refreshes>>

\* stream.Recv.
Receive(c) ==
    /\ Proceeds
    /\ Now.does = "next"
    /\ handler[c].phase = "open"
    /\ handler' = Goes(c, "stream")
    /\ UNCHANGED <<vars, processVars, test, refreshes>>

\* streamCancel.
CancelStream(c) ==
    /\ Proceeds
    /\ Now.does = "cancel"
    /\ handler[c].phase = "open"
    /\ handler' = Goes(c, "cancelled")
    /\ test' = Advance
    /\ UNCHANGED <<vars, processVars, refreshes>>

\* time.Sleep is longer than an exit takes, and than a connection to a process that is
\* gone goes unnoticed.
Sleep ==
    /\ Proceeds
    /\ Now.does = "sleep"
    /\ exiting = {}
    /\ test' = Advance
    /\ UNCHANGED <<vars, processVars, handler, refreshes>>

Verify ==
    /\ Proceeds
    /\ Now.does = "verify"
    /\ test' = IF Verified THEN Advance ELSE Fail
    /\ UNCHANGED <<vars, processVars, handler, refreshes>>

StopService ==
    /\ Proceeds
    /\ Now.does = "stop"
    /\ Vanish(InstanceIDs)
    /\ test' = Advance
    /\ UNCHANGED <<vars, handler, refreshes>>

\* The container of the pod of the stream, if there is another one to go on at.
KillContainer(i) ==
    /\ Proceeds
    /\ Now.does = "kill"
    /\ i = test.pods[Now.who]
    /\ Vanish({i})
    /\ test' = IF Cardinality(up) < 2 THEN Fail ELSE Forget(i, Now.who)
    /\ UNCHANGED <<vars, handler, refreshes>>

\* The processes register again when the scenario is over.
StartContainers ==
    /\ Proceeds
    /\ Now.does = "start"
    /\ up' = InstanceIDs
    /\ test' = Advance
    /\ UNCHANGED <<vars, session, exiting, handler, refreshes>>

-----------------------------------------------------------------------------

\* SetupEnvironment has waited until the containers run, and five seconds more: the
\* instances are registered and the pool has seen them.
ScenarioInit ==
    /\ Init
    /\ registered = InstanceIDs
    /\ Listed = InstanceIDs
    /\ up = InstanceIDs
    /\ session = [i \in InstanceIDs |-> NoKey]
    /\ exiting = {}
    /\ handler = [c \in Calls |-> NoRPC]
    /\ refreshes = 0
    /\ \E s \in Scenarios :
        test = [scenario |-> s, step |-> 1, tries |-> 0,
                pods |-> [k \in Keys |-> NoInstance], left |-> {}, refused |-> {},
                ok |-> TRUE]

Handle(c) ==
    \/ GetConnection(c) \/ NoConnection(c) \/ NewStream(c) \/ NewStreamFails(c)
    \/ StreamFails(c) \/ CancelledStream(c) \/ Serve(c)

Drive ==
    \/ \E c \in Calls : Request(c) \/ Receive(c) \/ CancelStream(c)
    \/ Skip \/ Sleep \/ Verify \/ StopService \/ StartContainers
    \/ \E i \in InstanceIDs : KillContainer(i)

Refresh ==
    /\ \/ FetchInstances /\ refreshes < MaxRefreshes /\ refreshes' = refreshes + 1
       \/ ApplyInstances /\ UNCHANGED refreshes
    /\ UNCHANGED <<processVars, handler, test>>

ScenarioNext ==
    \/ \E c \in Calls : Handle(c)
    \/ \E i \in InstanceIDs : Exit(i)
    \/ Drive
    \/ Refresh

\* The handlers, the processes and the test go on; of the refresh nothing is assumed.
ScenarioSpec ==
    /\ ScenarioInit /\ [][ScenarioNext]_allVars
    /\ \A c \in Calls : WF_allVars(Handle(c))
    /\ \A i \in InstanceIDs : WF_allVars(Exit(i))
    /\ WF_allVars(Drive)

-----------------------------------------------------------------------------

RPCs ==
    [phase : {"idle", "seek", "dial", "stream", "open", "denied", "cancelled"},
     method : {"none", "echo", "shutdown", "subscribe"}, key : Keys \union {NoKey},
     attempt : 0 .. RetryCount - 1, transfer : 0 .. RetryCount - 1,
     code : {"OK", "PermissionDenied", "Internal"}]

Tests ==
    [scenario : Scenarios, step : Nat \ {0}, tries : 0 .. 4,
     pods : [Keys -> InstanceIDs \union {NoInstance}],
     left : SUBSET InstanceIDs, refused : SUBSET Keys, ok : BOOLEAN]

ProcessesOK ==
    /\ up \subseteq InstanceIDs
    /\ session \in [InstanceIDs -> Keys \union {NoKey}]
    /\ exiting \subseteq up

\* An RPC is for a session, and holds a lease of the pool unless it looks for one; one
\* that a process denied has a code to say so.
HandlersOK ==
    /\ handler \in [Calls -> RPCs]
    /\ \A c \in Calls :
        /\ handler[c].phase # "idle" => handler[c].key \in Keys
        /\ handler[c].phase \in {"idle", "seek"} <=> calls[c] = Idle
        /\ handler[c].phase = "denied" => handler[c].code # "OK"

TestOK == test \in Tests /\ test.step <= Len(Steps) + 1

ScenarioTypeOK ==
    TypeOK /\ ProcessesOK /\ HandlersOK /\ TestOK /\ refreshes \in 0 .. MaxRefreshes

\* The steps that are for a session.
Sessional ==
    {"echo", "patient", "shutdown", "cleanup", "subscribe", "next", "cancel", "kill"}

\* The test waits for at most one answer at a time, in a step that is for a session, so an
\* answer is judged by the step that asked for it (judged by another, a scenario would
\* pass or fail by accident).
OneAtATime ==
    /\ \A c, d \in Calls : Pending(c) /\ Pending(d) => c = d
    /\ Waiting => ~Ended /\ Now.does \in Sessional

\* Every scenario comes to its end and passes (its run function returns nil), whatever
\* the order of the list, wherever a refresh falls between the steps of an RPC, and whether
\* or not the discoverer obeys when a failed instance is to be unregistered. For
\* myservice_shutdown_errors that is so only without a refresh: one that overlaps its first
\* step brings instances back, and then the RPC of its last step runs out of them.
ScenariosPass ==
    <>(\/ Ended /\ test.ok
       \/ test.scenario = "myservice_shutdown_errors" /\ refreshes > 0)

=============================================================================
