----------------------- MODULE SessionScenariosProofs -----------------------
(***************************************************************************)
(* Proofs about SessionScenarios, for any sets of instances, connections   *)
(* and calls, and any RETRY_COUNT: the gateway, the processes and the test *)
(* use the pool as ConnectionPool lets its callers use it, so what is      *)
(* proved of the pool holds in the whole system.                           *)
(***************************************************************************)
EXTENDS SessionScenarios, ConnectionPoolProofs

-----------------------------------------------------------------------------
(* The scripts *)

\* What the steps may say.
Kinds == Sessional \union {"verify", "sleep", "stop", "start"}
Answers == {"OK", "Unavailable", "ResourceExhausted", "Internal", "PermissionDenied"}

Sound ==
    {s \in [does : Kinds, who : Keys \union {NoKey}, codes : SUBSET Answers] :
        s.does \in Sessional => s.who \in Keys}

\* A step for a session is sound, and so is one for none.
LEMMA StepIsSound ==
  /\ \A does \in Kinds, who \in Keys : \A codes \in SUBSET Answers :
        Step(does, who, codes) \in Sound
  /\ \A does \in Kinds \ Sessional : Order(does) \in Sound
<1>1. {} \in SUBSET Answers
  OBVIOUS
<1> QED BY <1>1 DEF Step, Order, Sound

\* The sessions of the scripts.
LEMMA FourSessions == "s1" \in Keys /\ "s2" \in Keys /\ "s3" \in Keys /\ "s4" \in Keys
BY SessionsAssumption

\* What the scripts are made of.
LEMMA PartsAreSound ==
  ASSUME NEW s \in Keys
  PROVE  /\ Echo(s) \in Sound
         /\ EndSession(s) \in Sound
         /\ Subscribe(s) \in Sound
         /\ NextMessage(s) \in Sound
         /\ Cleanup(s) \in Sound
         /\ Patient(s) \in Sound
<1>1. {"OK"} \in SUBSET Answers /\ {} \in SUBSET Answers
  BY DEF Answers
<1>2. {"echo", "shutdown", "subscribe", "next", "cleanup", "patient"} \subseteq Kinds
  BY DEF Kinds, Sessional
<1>3. /\ Step("echo", s, {"OK"}) \in Sound
      /\ Step("shutdown", s, {"OK"}) \in Sound
      /\ Step("subscribe", s, {"OK"}) \in Sound
      /\ Step("next", s, {"OK"}) \in Sound
      /\ Step("cleanup", s, {}) \in Sound
      /\ Step("patient", s, {"OK"}) \in Sound
  BY <1>1, <1>2, StepIsSound
<1> QED BY <1>3 DEF Echo, EndSession, Subscribe, NextMessage, Cleanup, Patient

LEMMA OrdersAreSound ==
  /\ Order("verify") \in Sound
  /\ Order("sleep") \in Sound
  /\ Order("stop") \in Sound
  /\ Order("start") \in Sound
<1>1. {"verify", "sleep", "stop", "start"} \subseteq Kinds \ Sessional
  BY DEF Sessional, Kinds
<1> QED BY <1>1, StepIsSound

\* The steps that one scenario has of its own.
LEMMA OthersAreSound ==
  /\ Step("echo", "s1", {"Unavailable", "ResourceExhausted"}) \in Sound
  /\ Step("echo", "s4", {"ResourceExhausted"}) \in Sound
  /\ \A s \in Keys :
        Step("echo", s, {"OK", "Unavailable", "ResourceExhausted", "Internal"}) \in Sound
  /\ Step("echo", "s1", {"Unavailable"}) \in Sound
  /\ Step("cancel", "s1", {}) \in Sound
  /\ Step("kill", "s1", {}) \in Sound
  /\ Step("shutdown", "s1", {"PermissionDenied"}) \in Sound
  /\ Step("echo", "s2", {"OK", "ResourceExhausted"}) \in Sound
  /\ Step("shutdown", "s3", {"PermissionDenied"}) \in Sound
<1>1. /\ {"Unavailable", "ResourceExhausted"} \in SUBSET Answers
      /\ {"ResourceExhausted"} \in SUBSET Answers
      /\ {"OK", "Unavailable", "ResourceExhausted", "Internal"} \in SUBSET Answers
      /\ {"Unavailable"} \in SUBSET Answers
      /\ {} \in SUBSET Answers
      /\ {"PermissionDenied"} \in SUBSET Answers
      /\ {"OK", "ResourceExhausted"} \in SUBSET Answers
  BY DEF Answers
<1>2. {"echo", "cancel", "kill", "shutdown"} \subseteq Kinds
  BY DEF Kinds, Sessional
<1> QED BY <1>1, <1>2, FourSessions, StepIsSound

\* Repeating a step makes a script.
LEMMA TimesIsScript ==
  ASSUME NEW n \in Nat, NEW s \in Sound
  PROVE  Times(n, s) \in Seq(Sound)
BY DEF Times

\* Every script is a sequence of sound steps.
LEMMA ScriptsAreSound == \A s \in Scenarios : Script[s] \in Seq(Sound)
<1>1. BasicWorkflow \in Seq(Sound)
  <2>1. Times(10, Echo("s1")) \in Seq(Sound)
    BY FourSessions, PartsAreSound, TimesIsScript
  <2>2. <<EndSession("s1")>> \in Seq(Sound)
    BY FourSessions, PartsAreSound
  <2> QED BY <2>1, <2>2, ConcatProperties DEF BasicWorkflow
<1>2. StickySession \in Seq(Sound)
  <2> DEFINE Alternate == [i \in 1 .. 20 |-> Echo(IF i % 2 = 1 THEN "s1" ELSE "s2")]
  <2>1. \A i \in 1 .. 20 : Echo(IF i % 2 = 1 THEN "s1" ELSE "s2") \in Sound
    BY FourSessions, PartsAreSound
  <2>2. Alternate \in Seq(Sound)
    BY <2>1
  <2>3. <<Order("verify"), EndSession("s1"), EndSession("s2")>> \in Seq(Sound)
    BY FourSessions, PartsAreSound, OrdersAreSound
  <2>4. Alternate \o <<Order("verify"), EndSession("s1"), EndSession("s2")>> \in Seq(Sound)
    BY <2>2, <2>3, ConcatProperties
  <2> QED BY <2>4 DEF StickySession
<1>3. SessionTransfer \in Seq(Sound)
  <2> DEFINE Leg == Times(2, Patient("s1")) \o <<EndSession("s1"), Order("sleep")>>
             Final == <<Step("echo", "s1", {"Unavailable", "ResourceExhausted"})>>
  <2>1. Times(2, Patient("s1")) \in Seq(Sound)
    BY FourSessions, PartsAreSound, TimesIsScript
  <2>2. <<EndSession("s1"), Order("sleep")>> \in Seq(Sound)
    BY FourSessions, PartsAreSound, OrdersAreSound
  <2>3. Leg \in Seq(Sound)
    BY <2>1, <2>2, ConcatProperties
  <2>4. Final \in Seq(Sound)
    BY OthersAreSound
  <2> HIDE DEF Leg, Final
  <2>5. Leg \o Leg \o Leg \o Final \in Seq(Sound)
    BY <2>3, <2>4, ConcatProperties
  <2> QED BY <2>5 DEF SessionTransfer, Leg, Final
<1>4. NoInstancesAvailable \in Seq(Sound)
  <2>1. Step("echo", "s4", {"ResourceExhausted"}) \in Sound
    BY OthersAreSound
  <2> QED BY <2>1, FourSessions, PartsAreSound DEF NoInstancesAvailable
<1>5. SystemOverload \in Seq(Sound)
  <2>1. \A s \in Keys :
          Step("echo", s, {"OK", "Unavailable", "ResourceExhausted", "Internal"}) \in Sound
    BY OthersAreSound
  <2> QED BY <2>1, FourSessions, PartsAreSound, OrdersAreSound DEF SystemOverload
<1>6. GatewayErrorUnavailable \in Seq(Sound)
  <2>1. Step("echo", "s1", {"Unavailable"}) \in Sound
    BY OthersAreSound
  <2> QED BY <2>1, OrdersAreSound DEF GatewayErrorUnavailable
<1>7. StreamSubscription \in Seq(Sound)
  <2>1. Step("cancel", "s1", {}) \in Sound
    BY OthersAreSound
  <2> QED BY <2>1, FourSessions, PartsAreSound DEF StreamSubscription
<1>8. StreamSubscriptionStop \in Seq(Sound)
  <2>1. Step("kill", "s1", {}) \in Sound
    BY OthersAreSound
  <2> QED BY <2>1, FourSessions, PartsAreSound, OrdersAreSound DEF StreamSubscriptionStop
<1>9. ShutdownErrors \in Seq(Sound)
  <2>1. /\ Step("shutdown", "s1", {"PermissionDenied"}) \in Sound
        /\ Step("echo", "s2", {"OK", "ResourceExhausted"}) \in Sound
        /\ Step("shutdown", "s3", {"PermissionDenied"}) \in Sound
    BY OthersAreSound
  <2> QED BY <2>1 DEF ShutdownErrors
<1>10. \A s \in DOMAIN Script : Script[s] \in Seq(Sound)
  BY <1>1, <1>2, <1>3, <1>4, <1>5, <1>6, <1>7, <1>8, <1>9 DEF Script
<1> QED BY <1>10, ScenariosExist

-----------------------------------------------------------------------------
(* The test process *)

\* The step that is to be taken next is sound.
LEMMA NowIsSound == TestOK /\ ~Ended => Now \in Sound
<1> SUFFICES ASSUME TestOK, ~Ended PROVE Now \in Sound
  OBVIOUS
<1>1. Steps \in Seq(Sound)
  BY ScriptsAreSound DEF TestOK, Tests, Steps
<1>2. test.step \in 1 .. Len(Steps)
  BY <1>1 DEF TestOK, Tests, Ended
<1> QED BY <1>1, <1>2 DEF Now

\* What the test process may be after a step.
Later ==
    {t \in Tests : t.scenario = test.scenario /\ t.step \in {test.step, test.step + 1}}

LEMMA LaterIsOK == TestOK /\ ~Ended /\ test' \in Later => TestOK'
<1> SUFFICES ASSUME TestOK, ~Ended, test' \in Later PROVE TestOK'
  OBVIOUS
<1>1. Steps \in Seq(Sound)
  BY ScriptsAreSound DEF TestOK, Tests, Steps
<1>2. Steps' = Steps
  BY DEF Later, Steps
<1>3. Len(Steps) \in Nat
  BY <1>1
<1> QED BY <1>2, <1>3 DEF TestOK, Later, Tests, Ended

\* What changing one field of the test process makes of it.
LEMMA StepField ==
  ASSUME NEW t \in Tests, NEW n \in Nat \ {0}
  PROVE  /\ [t EXCEPT !.step = n] \in Tests
         /\ [t EXCEPT !.step = n].scenario = t.scenario
         /\ [t EXCEPT !.step = n].step = n
BY DEF Tests

LEMMA TriesField ==
  ASSUME NEW t \in Tests, NEW n \in 0 .. 4
  PROVE  /\ [t EXCEPT !.tries = n] \in Tests
         /\ [t EXCEPT !.tries = n].scenario = t.scenario
         /\ [t EXCEPT !.tries = n].step = t.step
BY DEF Tests

LEMMA PodsField ==
  ASSUME NEW t \in Tests, NEW s \in Keys, NEW pod \in InstanceIDs \union {NoInstance}
  PROVE  /\ [t EXCEPT !.pods[s] = pod] \in Tests
         /\ [t EXCEPT !.pods[s] = pod].scenario = t.scenario
         /\ [t EXCEPT !.pods[s] = pod].step = t.step
BY DEF Tests

LEMMA LeftField ==
  ASSUME NEW t \in Tests, NEW pods \in SUBSET InstanceIDs
  PROVE  /\ [t EXCEPT !.left = pods] \in Tests
         /\ [t EXCEPT !.left = pods].scenario = t.scenario
         /\ [t EXCEPT !.left = pods].step = t.step
BY DEF Tests

LEMMA RefusedField ==
  ASSUME NEW t \in Tests, NEW who \in SUBSET Keys
  PROVE  /\ [t EXCEPT !.refused = who] \in Tests
         /\ [t EXCEPT !.refused = who].scenario = t.scenario
         /\ [t EXCEPT !.refused = who].step = t.step
BY DEF Tests

LEMMA OkField ==
  ASSUME NEW t \in Tests
  PROVE  /\ [t EXCEPT !.ok = FALSE] \in Tests
         /\ [t EXCEPT !.ok = FALSE].scenario = t.scenario
         /\ [t EXCEPT !.ok = FALSE].step = t.step
BY DEF Tests

\* The ways the test process goes on.
LEMMA MovesAreLater ==
  ASSUME TestOK
  PROVE  /\ Advance \in Later
         /\ Fail \in Later
         /\ test.tries < 4 => [test EXCEPT !.tries = @ + 1] \in Later
         /\ \A pod \in InstanceIDs, s \in Keys : Forget(pod, s) \in Later
<1> DEFINE stepped == [test EXCEPT !.step = test.step + 1]
<1>1. test \in Tests /\ test.step + 1 \in Nat \ {0} /\ test.tries \in 0 .. 4
  BY DEF TestOK, Tests
<1>2. /\ stepped \in Tests
      /\ stepped.scenario = test.scenario
      /\ stepped.step = test.step + 1
  BY <1>1, StepField
<1>3. Advance = [stepped EXCEPT !.tries = 0]
  BY DEF Advance
<1> HIDE DEF stepped
<1>4. /\ Advance \in Tests
      /\ Advance.scenario = test.scenario
      /\ Advance.step = test.step + 1
  <2>1. 0 \in 0 .. 4
    OBVIOUS
  <2>2. /\ [stepped EXCEPT !.tries = 0] \in Tests
        /\ [stepped EXCEPT !.tries = 0].scenario = stepped.scenario
        /\ [stepped EXCEPT !.tries = 0].step = stepped.step
    BY <1>2, <2>1, TriesField
  <2> QED BY <1>2, <1>3, <2>2
<1>5. Fail \in Later
  BY <1>1, OkField DEF Fail, Later
<1>6. test.tries < 4 => [test EXCEPT !.tries = @ + 1] \in Later
  <2>1. test.tries < 4 => test.tries + 1 \in 0 .. 4
    BY <1>1
  <2> QED BY <1>1, <2>1, TriesField DEF Later
<1>7. ASSUME NEW pod \in InstanceIDs, NEW s \in Keys
      PROVE  Forget(pod, s) \in Later
  <2> DEFINE left == [Advance EXCEPT !.left = Advance.left \union {pod}]
  <2>1. Advance.left \union {pod} \in SUBSET InstanceIDs
    BY <1>4 DEF Tests
  <2>2. /\ left \in Tests
        /\ left.scenario = test.scenario
        /\ left.step = test.step + 1
    BY <1>4, <2>1, LeftField
  <2>3. Forget(pod, s) = [left EXCEPT !.pods[s] = NoInstance]
    BY DEF Forget
  <2> HIDE DEF left
  <2>4. /\ [left EXCEPT !.pods[s] = NoInstance] \in Tests
        /\ [left EXCEPT !.pods[s] = NoInstance].scenario = left.scenario
        /\ [left EXCEPT !.pods[s] = NoInstance].step = left.step
    BY <2>2, PodsField
  <2> QED BY <2>2, <2>3, <2>4 DEF Later
<1> QED BY <1>4, <1>5, <1>6, <1>7 DEF Later

\* An answer, judged by a step for a session, leaves the test process in order.
LEMMA AnsweredIsLater ==
  ASSUME TestOK, ~Ended, Now.does \in Sessional, NEW code,
         NEW pod, code = "OK" => pod \in InstanceIDs, Answered(code, pod)
  PROVE  test' \in Later
<1>1. Now.who \in Keys
  BY NowIsSound DEF Sound
<1>2. Advance \in Tests
  BY MovesAreLater DEF Later
<1>3. [Advance EXCEPT !.refused = @ \union {Now.who}] \in Later
  <2>1. Advance.refused \union {Now.who} \in SUBSET Keys
    BY <1>1, <1>2 DEF Tests
  <2> QED BY <1>2, <2>1, MovesAreLater, RefusedField DEF Later
<1>4. code = "OK" => [Advance EXCEPT !.pods[Now.who] = pod] \in Later
  <2>1. ASSUME code = "OK"
        PROVE  /\ [Advance EXCEPT !.pods[Now.who] = pod] \in Tests
               /\ [Advance EXCEPT !.pods[Now.who] = pod].scenario = Advance.scenario
               /\ [Advance EXCEPT !.pods[Now.who] = pod].step = Advance.step
    BY <1>1, <1>2, <2>1, PodsField
  <2> QED BY <2>1, MovesAreLater DEF Later
<1>5. Remember(code, pod) \in Later
  BY <1>1, <1>3, <1>4, MovesAreLater DEF Remember
<1> QED BY <1>5, MovesAreLater DEF Answered, Again

-----------------------------------------------------------------------------
(* The handlers *)

\* The phases in which an RPC has no answer yet.
Unanswered == {"seek", "dial", "stream", "denied"}

\* What changing the RPC of slot c, and the lease with it, makes of the handlers.
LEMMA SlotMoves ==
  ASSUME TypeOK, HandlersOK, NEW c \in Calls, NEW r \in RPCs, NEW l \in Leases \union {Idle},
         handler' = [handler EXCEPT ![c] = r], calls' = [calls EXCEPT ![c] = l],
         r.phase # "idle" => r.key \in Keys,
         r.phase \in {"idle", "seek"} <=> l = Idle,
         r.phase = "denied" => r.code # "OK"
  PROVE  HandlersOK'
BY DEF TypeOK, HandlersOK

\* A test that waited for no other RPC waits for no other one now.
LEMMA SlotWaits ==
  ASSUME HandlersOK, OneAtATime, NEW c \in Calls, NEW r \in RPCs,
         handler' = [handler EXCEPT ![c] = r],
         \/ r.phase \notin Unanswered /\ UNCHANGED test
         \/ r.phase \notin Unanswered /\ (Pending(c) \/ ~Waiting)
         \/ UNCHANGED test /\ Pending(c)
         \/ UNCHANGED test /\ ~Waiting /\ ~Ended /\ Now.does \in Sessional
  PROVE  OneAtATime'
<1>1. /\ \A d \in Calls \ {c} : handler'[d] = handler[d]
      /\ handler'[c] = r
  BY DEF HandlersOK
<1>2. \A d \in Calls \ {c} : Pending(d)' <=> Pending(d)
  BY <1>1 DEF Pending
<1>3. Pending(c)' <=> r.phase \in Unanswered
  BY <1>1 DEF Pending, Unanswered
<1>4. \/ Pending(c) \/ ~Waiting
      \/ r.phase \notin Unanswered /\ UNCHANGED test
  OBVIOUS
<1>5. \A d, e \in Calls : Pending(d)' /\ Pending(e)' => d = e
  BY <1>2, <1>3, <1>4 DEF OneAtATime, Waiting
<1>6. Waiting' => /\ UNCHANGED test
                  /\ ~Ended
                  /\ Now.does \in Sessional
  <2>1. SUFFICES ASSUME NEW d \in Calls, Pending(d)'
                 PROVE  UNCHANGED test /\ ~Ended /\ Now.does \in Sessional
    BY DEF Waiting
  <2>2. CASE d = c
    BY <1>3, <2>1, <2>2 DEF OneAtATime, Waiting
  <2>3. CASE d # c
    <3>1. Pending(d)
      BY <1>2, <2>1, <2>3
    <3>2. ~Ended /\ Now.does \in Sessional /\ Waiting
      BY <3>1 DEF OneAtATime, Waiting
    <3>3. ~Pending(c)
      BY <2>3, <3>1 DEF OneAtATime
    <3> QED BY <3>2, <3>3
  <2> QED BY <2>2, <2>3
<1>7. Waiting' => ~Ended' /\ Now'.does \in Sessional
  BY <1>6 DEF Ended, Now, Steps
<1> QED BY <1>5, <1>7 DEF OneAtATime

\* What changing one field of an RPC makes of it.
LEMMA PhaseField ==
  ASSUME NEW h \in RPCs,
         NEW p \in {"idle", "seek", "dial", "stream", "open", "denied", "cancelled"}
  PROVE  /\ [h EXCEPT !.phase = p] \in RPCs
         /\ [h EXCEPT !.phase = p].phase = p
         /\ [h EXCEPT !.phase = p].key = h.key
         /\ [h EXCEPT !.phase = p].attempt = h.attempt
BY DEF RPCs

LEMMA AttemptField ==
  ASSUME NEW h \in RPCs, NEW n \in 0 .. RetryCount - 1
  PROVE  /\ [h EXCEPT !.attempt = n] \in RPCs
         /\ [h EXCEPT !.attempt = n].phase = h.phase
         /\ [h EXCEPT !.attempt = n].key = h.key
BY DEF RPCs

LEMMA CodeField ==
  ASSUME NEW h \in RPCs, NEW code \in {"OK", "PermissionDenied", "Internal"}
  PROVE  /\ [h EXCEPT !.code = code] \in RPCs
         /\ [h EXCEPT !.code = code].phase = h.phase
         /\ [h EXCEPT !.code = code].key = h.key
         /\ [h EXCEPT !.code = code].code = code
BY DEF RPCs

LEMMA NoRPCType == NoRPC \in RPCs /\ NoRPC.phase = "idle"
BY SetupAssumption DEF NoRPC, RPC, RPCs

\* An RPC in slot c goes on and is not answered.
LEMMA GoesOn ==
  ASSUME TypeOK, HandlersOK, TestOK, OneAtATime,
         NEW c \in Calls, Pending(c), NEW r \in RPCs, NEW l \in Leases \union {Idle},
         handler' = [handler EXCEPT ![c] = r], calls' = [calls EXCEPT ![c] = l],
         UNCHANGED test, r.key = handler[c].key, r.phase # "idle",
         r.phase = "seek" <=> l = Idle, r.phase = "denied" => r.code # "OK"
  PROVE  HandlersOK' /\ TestOK' /\ OneAtATime'
<1>1. r.key \in Keys
  BY DEF HandlersOK, Pending
<1>2. HandlersOK'
  BY <1>1, SlotMoves
<1>3. OneAtATime'
  BY SlotWaits
<1>4. TestOK'
  BY DEF TestOK, Steps
<1> QED BY <1>2, <1>3, <1>4

\* An RPC in slot c is over and answered.
LEMMA EndsOK ==
  ASSUME TypeOK, HandlersOK, TestOK, OneAtATime,
         NEW c \in Calls, Pending(c), NEW code, NEW pod, code = "OK" => pod \in InstanceIDs,
         Ends(c, code, pod), calls' = [calls EXCEPT ![c] = Idle]
  PROVE  HandlersOK' /\ TestOK' /\ OneAtATime'
<1>1. ~Ended /\ Now.does \in Sessional
  BY DEF OneAtATime, Waiting
<1>2. TestOK'
  BY <1>1, AnsweredIsLater, LaterIsOK DEF Ends
<1>3. HandlersOK'
  BY NoRPCType, SlotMoves DEF Ends
<1>4. OneAtATime'
  BY NoRPCType, SlotWaits DEF Ends, Unanswered
<1> QED BY <1>2, <1>3, <1>4

\* What each use of the pool makes of the leases.
LEMMA LeasesOfCalls ==
  ASSUME TypeOK, NEW c \in Calls
  PROVE  /\ \A k \in Keys : CallSticky(c, k) =>
              \E l \in Leases : calls' = [calls EXCEPT ![c] = l] /\ l # Idle
         /\ CallFails(c) \/ CallEnds(c) => calls' = [calls EXCEPT ![c] = Idle]
         /\ UNCHANGED calls => calls' = [calls EXCEPT ![c] = calls[c]]
<1>1. ASSUME NEW k \in Keys, CallSticky(c, k)
      PROVE  \E l \in Leases : calls' = [calls EXCEPT ![c] = l] /\ l # Idle
  <2>1. PICK i \in InstanceIDs, n \in Conns : calls' = [calls EXCEPT ![c] = Lease(k, i, n)]
    BY <1>1 DEF CallSticky
  <2>2. Lease(k, i, n) \in Leases /\ Lease(k, i, n) # Idle
    BY NullsAreFresh DEF Lease, Leases
  <2> QED BY <2>1, <2>2
<1>2. UNCHANGED calls => calls' = [calls EXCEPT ![c] = calls[c]]
  BY DEF TypeOK
<1> QED BY <1>1, <1>2 DEF CallFails, CallEnds

\* The parts of the invariant that are not the pool's.
Rest == ProcessesOK /\ HandlersOK /\ TestOK /\ OneAtATime

\* The handler gets a connection for its session, or is refused one.
LEMMA SeekOK ==
  ASSUME TypeOK, Rest, NEW c \in Calls, GetConnection(c) \/ NoConnection(c)
  PROVE  Rest'
<1> USE DEF Rest
<1>1. ProcessesOK'
  BY DEF GetConnection, NoConnection, Ends, ProcessesOK, processVars
<1>2. handler[c] \in RPCs /\ handler[c].phase = "seek" /\ Pending(c)
  BY DEF HandlersOK, Pending, GetConnection, NoConnection
<1>3. CASE GetConnection(c)
  <2>1. PICK l \in Leases : calls' = [calls EXCEPT ![c] = l] /\ l # Idle
    BY <1>2, <1>3, LeasesOfCalls DEF GetConnection, HandlersOK
  <2> DEFINE r == [handler[c] EXCEPT !.phase = "dial"]
  <2>2. r \in RPCs /\ r.phase = "dial" /\ r.key = handler[c].key
    BY <1>2, PhaseField
  <2>3. handler' = [handler EXCEPT ![c] = r] /\ UNCHANGED test
    BY <1>3 DEF GetConnection, Goes
  <2> HIDE DEF r
  <2> QED BY <1>1, <1>2, <2>1, <2>2, <2>3, GoesOn
<1>4. CASE NoConnection(c)
  <2>1. Ends(c, "ResourceExhausted", NoInstance)
    BY <1>4 DEF NoConnection
  <2>2. calls' = [calls EXCEPT ![c] = Idle]
    BY <1>2, <1>4, LeasesOfCalls DEF NoConnection, CallRefused, HandlersOK
  <2> QED BY <1>1, <1>2, <2>1, <2>2, EndsOK
<1> QED BY <1>3, <1>4

\* The stream to the instance is opened, or that fails and another one is tried.
LEMMA DialOK ==
  ASSUME TypeOK, Rest, NEW c \in Calls, NewStream(c) \/ NewStreamFails(c)
  PROVE  Rest'
<1> USE DEF Rest
<1>1. ProcessesOK'
  BY DEF NewStream, NewStreamFails, ProcessesOK, processVars
<1>2. handler[c] \in RPCs /\ handler[c].phase = "dial" /\ Pending(c)
  BY DEF HandlersOK, Pending, NewStream, NewStreamFails
<1>3. CASE NewStream(c)
  <2>1. calls[c] \in Leases /\ calls[c] # Idle /\ calls' = [calls EXCEPT ![c] = calls[c]]
    BY <1>2, <1>3, LeasesOfCalls DEF NewStream, HandlersOK, TypeOK, vars
  <2> DEFINE r == [handler[c] EXCEPT !.phase = "stream"]
  <2>2. r \in RPCs /\ r.phase = "stream" /\ r.key = handler[c].key
    BY <1>2, PhaseField
  <2>3. handler' = [handler EXCEPT ![c] = r] /\ UNCHANGED test
    BY <1>3 DEF NewStream, Goes
  <2> HIDE DEF r
  <2> QED BY <1>1, <1>2, <2>1, <2>2, <2>3, GoesOn
<1>4. CASE NewStreamFails(c)
  <2>1. calls' = [calls EXCEPT ![c] = Idle]
    BY <1>4, LeasesOfCalls DEF NewStreamFails
  <2>2. CASE LastAttempt(handler[c])
    <3>1. Ends(c, "Unavailable", NoInstance)
      BY <1>4, <2>2 DEF NewStreamFails
    <3> QED BY <1>1, <1>2, <2>1, <3>1, EndsOK
  <2>3. CASE ~LastAttempt(handler[c])
    <3> DEFINE p == [handler[c] EXCEPT !.phase = "seek"]
               r == [p EXCEPT !.attempt = p.attempt + 1]
    <3>1. /\ p \in RPCs /\ p.phase = "seek" /\ p.key = handler[c].key
          /\ p.attempt = handler[c].attempt
      BY <1>2, PhaseField
    <3>2. p.attempt + 1 \in 0 .. RetryCount - 1
      BY <1>2, <2>3, <3>1, SetupAssumption DEF RPCs, LastAttempt
    <3>3. handler' = [handler EXCEPT ![c] = r] /\ UNCHANGED test
      <4>1. /\ handler' = [handler EXCEPT ![c].phase = "seek", ![c].attempt = @ + 1]
            /\ UNCHANGED test
        BY <1>4, <2>3 DEF NewStreamFails
      <4>2. handler \in [Calls -> RPCs]
        BY DEF HandlersOK
      <4> QED BY <4>1, <4>2
    <3> HIDE DEF p
    <3>4. r \in RPCs /\ r.phase = "seek" /\ r.key = handler[c].key
      BY <3>1, <3>2, AttemptField
    <3> HIDE DEF r
    <3> QED BY <1>1, <1>2, <2>1, <3>3, <3>4, GoesOn
  <2> QED BY <2>2, <2>3
<1> QED BY <1>3, <1>4

\* The stream ends with an error: the RPC moves to another instance, or ends.
LEMMA StreamFailsOK ==
  ASSUME TypeOK, Rest, NEW c \in Calls, StreamFails(c)
  PROVE  Rest'
<1> USE DEF Rest
<1>1. ProcessesOK'
  BY DEF StreamFails, ProcessesOK, processVars
<1>2. handler[c] \in RPCs /\ handler[c].phase \in {"stream", "denied"} /\ Pending(c)
  BY DEF HandlersOK, Pending, StreamFails, StreamFailed
<1>3. calls' = [calls EXCEPT ![c] = Idle]
  BY LeasesOfCalls DEF StreamFails
<1>4. CASE handler[c].transfer >= RetryCount - 1
  <2>1. PICK code : Ends(c, code, NoInstance) /\ code # "OK"
    BY <1>2, <1>4 DEF StreamFails, HandlersOK
  <2> QED BY <1>1, <1>2, <1>3, <2>1, EndsOK
<1>5. CASE ~(handler[c].transfer >= RetryCount - 1)
  <2> DEFINE r == RPC("seek", handler[c].method, handler[c].key, 0,
                      handler[c].transfer + 1, "OK")
  <2>1. handler' = [handler EXCEPT ![c] = r] /\ UNCHANGED test
    BY <1>5 DEF StreamFails
  <2>2. r \in RPCs /\ r.phase = "seek" /\ r.key = handler[c].key
    BY <1>2, <1>5, SetupAssumption DEF RPC, RPCs
  <2> HIDE DEF r
  <2> QED BY <1>1, <1>2, <1>3, <2>1, <2>2, GoesOn
<1> QED BY <1>4, <1>5

\* The gateway notices that the client has cancelled its stream.
LEMMA CancelledOK ==
  ASSUME TypeOK, Rest, NEW c \in Calls, CancelledStream(c)
  PROVE  Rest'
<1> USE DEF Rest
<1>1. ProcessesOK'
  BY DEF CancelledStream, ProcessesOK, processVars
<1>2. calls' = [calls EXCEPT ![c] = Idle]
  BY LeasesOfCalls DEF CancelledStream
<1>3. handler' = [handler EXCEPT ![c] = NoRPC] /\ UNCHANGED test
  BY DEF CancelledStream
<1>4. HandlersOK'
  BY <1>2, <1>3, NoRPCType, SlotMoves
<1>5. OneAtATime'
  BY <1>3, NoRPCType, SlotWaits DEF Unanswered
<1> QED BY <1>1, <1>3, <1>4, <1>5 DEF TestOK, Steps

\* A process answers.
LEMMA ServeOK ==
  ASSUME TypeOK, Rest, NEW c \in Calls, Serve(c)
  PROVE  Rest'
<1> USE DEF Rest
<1> DEFINE i == calls[c].id
           code == Reply(handler[c].method, i, handler[c].key)
<1>1. /\ handler[c] \in RPCs
      /\ handler[c].phase = "stream"
      /\ handler[c].key \in Keys
      /\ Pending(c)
  BY DEF HandlersOK, Pending, Serve
<1>2. calls[c] \in Leases /\ calls[c] # Idle /\ i \in InstanceIDs
  BY <1>1 DEF HandlersOK, TypeOK, Leases
<1>3. code \in {"OK", "PermissionDenied", "Internal"}
  BY DEF Reply
<1>4. CASE code # "OK"
  <2>1. ProcessesOK'
    BY <1>4 DEF Serve, ProcessesOK
  <2>2. calls' = [calls EXCEPT ![c] = calls[c]]
    BY <1>4, LeasesOfCalls DEF Serve, vars
  <2> DEFINE p == [handler[c] EXCEPT !.phase = "denied"]
             r == [p EXCEPT !.code = code]
  <2>3. handler' = [handler EXCEPT ![c] = r] /\ UNCHANGED test
    BY <1>4 DEF Serve
  <2>4. p \in RPCs /\ p.phase = "denied" /\ p.key = handler[c].key
    BY <1>1, PhaseField
  <2> HIDE DEF p, code
  <2>5. r \in RPCs /\ r.phase = "denied" /\ r.key = handler[c].key /\ r.code # "OK"
    BY <1>3, <1>4, <2>4, CodeField
  <2> HIDE DEF r
  <2> QED BY <1>1, <1>2, <2>1, <2>2, <2>3, <2>5, GoesOn
<1>5. CASE code = "OK"
  <2>1. ProcessesOK'
    <3>1. /\ i \in up
          /\ up' = up
          /\ session' = [session EXCEPT ![i] = handler[c].key]
          /\ exiting' \in {exiting, exiting \union {i}}
      BY <1>5 DEF Serve
    <3> HIDE DEF i
    <3> QED BY <1>1, <1>2, <3>1 DEF ProcessesOK
  <2>2. CASE handler[c].method = "subscribe"
    <3>1. calls' = [calls EXCEPT ![c] = calls[c]] /\ Answered("OK", i)
      BY <1>5, <2>2, LeasesOfCalls DEF Serve, vars
    <3> DEFINE r == [handler[c] EXCEPT !.phase = "open"]
    <3>2. handler' = [handler EXCEPT ![c] = r]
      BY <1>5, <2>2 DEF Serve, Goes
    <3>3. r \in RPCs /\ r.phase = "open" /\ r.key = handler[c].key
      BY <1>1, PhaseField
    <3> HIDE DEF r, i, code
    <3>4. HandlersOK'
      BY <1>1, <1>2, <3>1, <3>2, <3>3, SlotMoves
    <3>5. OneAtATime'
      BY <1>1, <3>2, <3>3, SlotWaits DEF Unanswered
    <3>6. ~Ended /\ Now.does \in Sessional
      BY <1>1 DEF OneAtATime, Waiting
    <3>7. TestOK'
      BY <1>2, <3>1, <3>6, AnsweredIsLater, LaterIsOK
    <3> QED BY <2>1, <3>4, <3>5, <3>7
  <2>3. CASE handler[c].method # "subscribe"
    <3>1. Ends(c, "OK", i) /\ CallEnds(c)
      BY <1>5, <2>3 DEF Serve
    <3> HIDE DEF i, code
    <3>2. calls' = [calls EXCEPT ![c] = Idle]
      BY <3>1, LeasesOfCalls
    <3> QED BY <1>1, <1>2, <2>1, <3>1, <3>2, EndsOK
  <2> QED BY <2>2, <2>3
<1> QED BY <1>4, <1>5

\* Processes vanish.
LEMMA VanishOK ==
  ASSUME ProcessesOK, NEW gone \in SUBSET InstanceIDs, Vanish(gone)
  PROVE  ProcessesOK'
BY DEF ProcessesOK, Vanish

\* A step of the test that changes no RPC is no answer to one.
LEMMA TestSteps ==
  ASSUME Rest, UNCHANGED <<handler, calls>>, ~Ended, ~Waiting, test' \in Later
  PROVE  HandlersOK' /\ TestOK' /\ OneAtATime'
<1>1. HandlersOK'
  BY DEF Rest, HandlersOK
<1>2. TestOK'
  BY LaterIsOK DEF Rest
<1>3. ~Waiting'
  BY DEF Waiting, Pending
<1> QED BY <1>1, <1>2, <1>3 DEF OneAtATime, Waiting

\* The test sends an RPC.
LEMMA RequestOK ==
  ASSUME TypeOK, Rest, NEW c \in Calls, Request(c)
  PROVE  Rest'
<1> USE DEF Rest
<1> DEFINE r == RPC("seek", Method, Now.who, 0, 0, "OK")
<1>1. ~Ended /\ ~Waiting
  BY DEF Request, Proceeds
<1>2. /\ Method \in {"echo", "shutdown", "subscribe"}
      /\ Now.does \in Sessional
  BY DEF Request, Method, Sessional
<1>3. Now.who \in Keys
  BY <1>1, <1>2, NowIsSound DEF Sound
<1>4. r \in RPCs /\ r.phase = "seek" /\ r.key \in Keys
  BY <1>2, <1>3, SetupAssumption DEF RPC, RPCs
<1>5. handler' = [handler EXCEPT ![c] = r] /\ UNCHANGED <<calls, processVars, test>>
  BY DEF Request, vars
<1>6. calls[c] = Idle /\ calls' = [calls EXCEPT ![c] = Idle]
  BY <1>5, NoRPCType DEF Request, HandlersOK, TypeOK
<1> HIDE DEF r
<1>7. HandlersOK'
  BY <1>4, <1>5, <1>6, SlotMoves
<1>8. OneAtATime'
  BY <1>1, <1>2, <1>4, <1>5, SlotWaits
<1> QED BY <1>5, <1>7, <1>8 DEF ProcessesOK, processVars, TestOK, Steps

\* The test waits for a message of its stream, or cancels the stream.
LEMMA StreamStepOK ==
  ASSUME TypeOK, Rest, NEW c \in Calls, Receive(c) \/ CancelStream(c)
  PROVE  Rest'
<1> USE DEF Rest
<1>1. ~Ended /\ ~Waiting
  BY DEF Receive, CancelStream, Proceeds
<1>2. /\ UNCHANGED <<calls, processVars>>
      /\ handler[c] \in RPCs
      /\ handler[c].phase = "open"
      /\ handler[c].key \in Keys
  BY DEF Receive, CancelStream, HandlersOK, vars
<1>3. calls[c] \in Leases /\ calls[c] # Idle /\ calls' = [calls EXCEPT ![c] = calls[c]]
  BY <1>2 DEF HandlersOK, TypeOK
<1>4. ProcessesOK'
  BY <1>2 DEF ProcessesOK, processVars
<1>5. CASE Receive(c)
  <2> DEFINE r == [handler[c] EXCEPT !.phase = "stream"]
  <2>1. handler' = [handler EXCEPT ![c] = r] /\ UNCHANGED test
    BY <1>5 DEF Receive, Goes
  <2>2. r \in RPCs /\ r.phase = "stream" /\ r.key = handler[c].key
    BY <1>2, PhaseField
  <2>3. Now.does \in Sessional
    BY <1>5 DEF Receive, Sessional
  <2> HIDE DEF r
  <2>4. HandlersOK'
    BY <1>2, <1>3, <2>1, <2>2, SlotMoves
  <2>5. OneAtATime'
    BY <1>1, <2>1, <2>2, <2>3, SlotWaits
  <2> QED BY <1>4, <2>1, <2>4, <2>5 DEF TestOK, Steps
<1>6. CASE CancelStream(c)
  <2> DEFINE r == [handler[c] EXCEPT !.phase = "cancelled"]
  <2>1. handler' = [handler EXCEPT ![c] = r] /\ test' = Advance
    BY <1>6 DEF CancelStream, Goes
  <2>2. r \in RPCs /\ r.phase = "cancelled" /\ r.key = handler[c].key
    BY <1>2, PhaseField
  <2> HIDE DEF r
  <2>3. HandlersOK'
    BY <1>2, <1>3, <2>1, <2>2, SlotMoves
  <2>4. OneAtATime'
    BY <1>1, <2>1, <2>2, SlotWaits DEF Unanswered
  <2>5. TestOK'
    BY <1>1, <2>1, MovesAreLater, LaterIsOK
  <2> QED BY <1>4, <2>3, <2>4, <2>5
<1> QED BY <1>5, <1>6

\* The test does something that is no RPC.
LEMMA OtherStepsOK ==
  ASSUME TypeOK, Rest,
         \/ Skip \/ Sleep \/ Verify \/ StopService \/ StartContainers
         \/ \E i \in InstanceIDs : KillContainer(i)
  PROVE  Rest'
<1> USE DEF Rest
<1>1. /\ ~Ended /\ ~Waiting
      /\ UNCHANGED <<handler, calls>>
  BY DEF Skip, Sleep, Verify, StopService, StartContainers, KillContainer, Proceeds, vars
<1>2. CASE Skip \/ Sleep \/ Verify
  <2>1. test' \in Later
    BY <1>2, MovesAreLater DEF Skip, Sleep, Verify
  <2>2. ProcessesOK'
    BY <1>2 DEF Skip, Sleep, Verify, ProcessesOK, processVars
  <2> QED BY <1>1, <2>1, <2>2, TestSteps
<1>3. CASE StopService
  <2>1. test' \in Later
    BY <1>3, MovesAreLater DEF StopService
  <2>2. ProcessesOK'
    BY <1>3, VanishOK DEF StopService
  <2> QED BY <1>1, <2>1, <2>2, TestSteps
<1>4. CASE StartContainers
  <2>1. test' \in Later
    BY <1>4, MovesAreLater DEF StartContainers
  <2>2. ProcessesOK'
    BY <1>4 DEF StartContainers, ProcessesOK
  <2> QED BY <1>1, <2>1, <2>2, TestSteps
<1>5. ASSUME NEW i \in InstanceIDs, KillContainer(i)
      PROVE  Rest'
  <2>1. Now.who \in Keys
    BY <1>1, <1>5, NowIsSound DEF KillContainer, Sound, Sessional
  <2>2. test' \in Later
    BY <1>5, <2>1, MovesAreLater DEF KillContainer
  <2>3. ProcessesOK'
    BY <1>5, VanishOK DEF KillContainer
  <2> QED BY <1>1, <2>2, <2>3, TestSteps
<1> QED BY <1>2, <1>3, <1>4, <1>5

\* A step that changes nothing but the pool and the processes.
LEMMA OutsideOK ==
  ASSUME Rest, UNCHANGED <<handler, calls, test>>, ProcessesOK'
  PROVE  Rest'
BY DEF Rest, HandlersOK, TestOK, Steps, OneAtATime, Waiting, Pending, Ended, Now

-----------------------------------------------------------------------------
(* The whole system *)

ScenarioInv == IInv /\ Rest /\ refreshes \in 0 .. MaxRefreshes

LEMMA ScenarioInitOK == ScenarioInit => ScenarioInv
<1> SUFFICES ASSUME ScenarioInit PROVE ScenarioInv
  OBVIOUS
<1>1. IInv
  BY InitSafe DEF ScenarioInit
<1>2. ProcessesOK
  BY DEF ScenarioInit, ProcessesOK
<1>3. /\ \A c \in Calls : handler[c] = NoRPC /\ calls[c] = Idle
      /\ HandlersOK
  BY NoRPCType DEF ScenarioInit, Init, HandlersOK
<1>4. OneAtATime
  BY <1>3, NoRPCType DEF OneAtATime, Waiting, Pending
<1>5. TestOK
  <2>1. PICK s \in Scenarios :
          test = [scenario |-> s, step |-> 1, tries |-> 0,
                  pods |-> [k \in Keys |-> NoInstance], left |-> {}, refused |-> {},
                  ok |-> TRUE]
    BY DEF ScenarioInit
  <2>2. test \in Tests /\ test.step = 1
    BY <2>1 DEF Tests
  <2>3. Steps \in Seq(Sound)
    BY <2>1, ScriptsAreSound DEF Steps
  <2>4. Len(Steps) \in Nat
    BY <2>3
  <2> QED BY <2>2, <2>4 DEF TestOK
<1>6. refreshes \in 0 .. MaxRefreshes
  BY SetupAssumption DEF ScenarioInit
<1> QED BY <1>1, <1>2, <1>3, <1>4, <1>5, <1>6 DEF Rest, ScenarioInv

\* Whatever the system does, it does with the pool what Next lets its callers do.
LEMMA PoolStep == ScenarioInv /\ [ScenarioNext]_allVars => [Next]_vars
<1> SUFFICES ASSUME ScenarioInv, [ScenarioNext]_allVars PROVE [Next]_vars
  OBVIOUS
<1>1. ASSUME NEW c \in Calls, Handle(c)
      PROVE  [Next]_vars
  <2>1. handler[c].phase = "seek" => handler[c].key \in Keys
    BY DEF ScenarioInv, Rest, HandlersOK
  <2>2. CASE GetConnection(c)
    BY <2>1, <2>2 DEF GetConnection, Next
  <2>3. CASE NoConnection(c)
    BY <2>1, <2>3 DEF NoConnection, Next
  <2>4. CASE NewStream(c)
    BY <2>4 DEF NewStream
  <2>5. CASE NewStreamFails(c) \/ StreamFails(c) \/ CancelledStream(c)
    BY <2>5 DEF NewStreamFails, StreamFails, CancelledStream, Next
  <2>6. CASE Serve(c)
    <3>1. UNCHANGED vars \/ CallEnds(c)
      BY <2>6 DEF Serve
    <3> QED BY <3>1 DEF Next
  <2> QED BY <1>1, <2>2, <2>3, <2>4, <2>5, <2>6 DEF Handle
<1>2. ASSUME NEW i \in InstanceIDs, Exit(i)
      PROVE  UNCHANGED vars
  BY <1>2 DEF Exit
<1>3. CASE Drive
  BY <1>3 DEF Drive, Request, Receive, CancelStream, Skip, Sleep, Verify, StopService,
              StartContainers, KillContainer
<1>4. CASE Refresh
  BY <1>4 DEF Refresh, Next
<1>5. CASE UNCHANGED allVars
  BY <1>5 DEF allVars
<1> QED BY <1>1, <1>2, <1>3, <1>4, <1>5 DEF ScenarioNext

LEMMA RestStep == ScenarioInv /\ [ScenarioNext]_allVars => Rest'
<1> SUFFICES ASSUME ScenarioInv, [ScenarioNext]_allVars PROVE Rest'
  OBVIOUS
<1>1. TypeOK /\ Rest
  BY DEF ScenarioInv, IInv
<1>2. ASSUME NEW c \in Calls, Handle(c)
      PROVE  Rest'
  BY <1>1, <1>2, SeekOK, DialOK, StreamFailsOK, CancelledOK, ServeOK DEF Handle
<1>3. ASSUME NEW i \in InstanceIDs, Exit(i)
      PROVE  Rest'
  <2>1. ProcessesOK'
    BY <1>1, <1>3, VanishOK DEF Exit, Rest
  <2> QED BY <1>1, <1>3, <2>1, OutsideOK DEF Exit, vars
<1>4. CASE Drive
  BY <1>1, <1>4, RequestOK, StreamStepOK, OtherStepsOK DEF Drive
<1>5. CASE Refresh
  <2>1. UNCHANGED <<handler, calls, test, processVars>>
    BY <1>5 DEF Refresh, FetchInstances, ApplyInstances
  <2>2. ProcessesOK'
    BY <1>1, <2>1 DEF Rest, ProcessesOK, processVars
  <2> QED BY <1>1, <2>1, <2>2, OutsideOK
<1>6. CASE UNCHANGED allVars
  <2>1. ProcessesOK'
    BY <1>1, <1>6 DEF Rest, ProcessesOK, processVars, allVars
  <2> QED BY <1>1, <1>6, <2>1, OutsideOK DEF allVars, vars
<1> QED BY <1>2, <1>3, <1>4, <1>5, <1>6 DEF ScenarioNext

LEMMA RefreshesStep ==
  ScenarioInv /\ [ScenarioNext]_allVars => refreshes' \in 0 .. MaxRefreshes
<1> SUFFICES ASSUME ScenarioInv, [ScenarioNext]_allVars
             PROVE  refreshes' \in 0 .. MaxRefreshes
  OBVIOUS
<1>1. refreshes \in 0 .. MaxRefreshes
  BY DEF ScenarioInv
<1>2. CASE Refresh
  BY <1>1, <1>2, SetupAssumption DEF Refresh
<1>3. CASE ~Refresh
  <2>1. ASSUME NEW c \in Calls, Handle(c)
        PROVE  UNCHANGED refreshes
    BY <2>1 DEF Handle, GetConnection, NoConnection, NewStream, NewStreamFails, StreamFails,
                CancelledStream, Serve
  <2>2. ASSUME NEW i \in InstanceIDs, Exit(i)
        PROVE  UNCHANGED refreshes
    BY <2>2 DEF Exit
  <2>3. Drive => UNCHANGED refreshes
    BY DEF Drive, Request, Receive, CancelStream, Skip, Sleep, Verify, StopService,
           StartContainers, KillContainer
  <2>4. UNCHANGED allVars => UNCHANGED refreshes
    BY DEF allVars
  <2>5. UNCHANGED refreshes
    BY <1>3, <2>1, <2>2, <2>3, <2>4 DEF ScenarioNext
  <2> QED BY <1>1, <2>5
<1> QED BY <1>2, <1>3

LEMMA ScenarioStep == ScenarioInv /\ [ScenarioNext]_allVars => ScenarioInv'
BY PoolStep, RestStep, RefreshesStep, NextSafe DEF ScenarioInv

\* The invariant of the whole system: that of the pool, a lease for every RPC beyond its
\* search and for no other, and a test that waits for one answer at a time.
THEOREM ScenarioSafety == ScenarioSpec => []ScenarioInv
BY ScenarioInitOK, ScenarioStep, PTL DEF ScenarioSpec

\* Every variable keeps its type: no RPC is tried or moved more often than RETRY_COUNT
\* allows (transparent.go:120-205), no script is left at its end.
THEOREM ScenarioTypeCorrect == ScenarioSpec => []ScenarioTypeOK
<1>1. ScenarioInv => ScenarioTypeOK
  BY DEF ScenarioInv, IInv, Rest, ScenarioTypeOK
<1> QED BY <1>1, ScenarioSafety, PTL

\* An answer is judged by the step of the script that asked for it.
THEOREM OneAtATimeHolds == ScenarioSpec => []OneAtATime
<1>1. ScenarioInv => OneAtATime
  BY DEF ScenarioInv, Rest
<1> QED BY <1>1, ScenarioSafety, PTL

\* The handlers use the pool as ConnectionPool lets its callers use it, so that what is
\* proved of the pool holds in the whole system.
THEOREM ScenariosUseThePool == ScenarioSpec => Spec
<1>1. ScenarioInit => Init
  BY DEF ScenarioInit
<1> QED BY <1>1, PoolStep, ScenarioSafety, PTL DEF ScenarioSpec, Spec

\* So while the handlers retry, move and lose their RPCs, no two sessions are bound to one
\* instance, and no connection leaks.
THEOREM PoolHoldsInScenarios == ScenarioSpec => [](OneSessionPerInstance /\ NoConnectionLeak)
BY ScenariosUseThePool, OneSessionPerInstanceHolds, NoConnectionLeakHolds, PTL

=============================================================================
