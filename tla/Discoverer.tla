----------------------------- MODULE Discoverer -----------------------------
(***************************************************************************)
(* The registry of the instances of one cluster: MyDiscoverer with its     *)
(* Redis (MyDiscoverer/handlers/http.go, adapters/myredis/cache.go), the   *)
(* MyService processes that register and send heartbeats                   *)
(* (MyService/MyService/DiscovererRegistrationService.cs), and the gateway *)
(* that lists and unregisters them (MyGateway/adapters/discoverer.go).     *)
(*                                                                         *)
(* Time passes in ticks.  Every timer counts down, and a tick waits for    *)
(* what is due, so a process that is up wakes on time.  A request takes up *)
(* to MaxDelay ticks to be handled; a process waits HttpTimeout ticks for  *)
(* the response, and what it no longer waits for is handled all the same.  *)
(***************************************************************************)
EXTENDS Integers, FiniteSets

CONSTANTS
    InstanceIDs,
    Ttl,          \* REGISTRATION_TTL_MS
    Heartbeat,    \* REGISTRATION_HEARTBEAT_INTERVAL_MS
    RetryDelay,   \* the 2 seconds between two attempts to register
    MaxTries,     \* the 100 attempts to register
    HttpTimeout,  \* HttpClient.Timeout
    MaxDelay,     \* bound: how long a request may be under way
    ReadsMayFail, \* whether a GET of Redis may fail
    NoListing     \* no listing is in progress

ASSUME TimesAreNumbers ==
    /\ Ttl \in Nat /\ Ttl > 0
    /\ Heartbeat \in Nat
    /\ RetryDelay \in Nat
    /\ MaxTries \in Nat /\ MaxTries > 0
    /\ HttpTimeout \in Nat
    /\ MaxDelay \in Nat
    /\ ReadsMayFail \in BOOLEAN

ASSUME NoListingIsFresh ==
    /\ NoListing \notin [todo : SUBSET InstanceIDs, found : SUBSET InstanceIDs,
                         must : SUBSET InstanceIDs, may : SUBSET InstanceIDs]
    /\ NoListing \notin [must : SUBSET InstanceIDs, may : SUBSET InstanceIDs]

\* The delay of a request that is not under way.
Nowhere == -1

VARIABLES
    ttl,      \* ticks until the key of an instance expires in Redis; 0 for no key
    process,  \* the registration task of each MyService process
    stray,    \* register requests under way that no process waits for
    listing,  \* ListAllValues in progress: [todo, found, must, may]
    answer,   \* what GetInstances last returned to the gateway
    kept      \* history: since its last registration, nothing went wrong for it

vars == <<ttl, process, stray, listing, answer, kept>>

Present == {i \in InstanceIDs : ttl[i] > 0}

\* What a listing in progress has to and may name, when the keys are now those.
Seen(now) ==
    IF listing = NoListing THEN NoListing
    ELSE [listing EXCEPT !.must = @ \intersect now, !.may = @ \union now]

-----------------------------------------------------------------------------
(* The registration task of MyService *)

\* RegisterAsync up to its await: pc posting; post is the delay left to the request.
Posting(joined, tries) ==
    [pc |-> "posting", joined |-> joined, tries |-> tries, timer |-> HttpTimeout,
     post |-> MaxDelay, reply |-> "none"]

Sleeping(joined, tries, ticks) ==
    [pc |-> "waiting", joined |-> joined, tries |-> tries, timer |-> ticks,
     post |-> Nowhere, reply |-> "none"]

Idle(pc) ==
    [pc |-> pc, joined |-> FALSE, tries |-> 0, timer |-> 0, post |-> Nowhere,
     reply |-> "none"]

Init ==
    /\ ttl = [i \in InstanceIDs |-> 0]
    /\ process = [i \in InstanceIDs |-> Idle("down")]
    /\ stray = {}
    /\ listing = NoListing
    /\ answer = {}
    /\ kept = [i \in InstanceIDs |-> FALSE]

\* ApplicationStarted: the first attempt.
Start(i) ==
    /\ process[i].pc = "down"
    /\ process' = [process EXCEPT ![i] = Posting(FALSE, 0)]
    /\ UNCHANGED <<ttl, stray, listing, answer, kept>>

\* Mutants: a failed heartbeat ends the task; the tries are counted to one too many.
TaskEndsOnFailure(p, success) ==
    IF success THEN Sleeping(TRUE, p.tries, Heartbeat)
    ELSE IF p.joined \/ p.tries + 1 = MaxTries THEN Idle("gaveUp")
    ELSE Sleeping(FALSE, p.tries + 1, RetryDelay)

OneTryMore(p, success) ==
    IF success \/ p.joined THEN Sleeping(TRUE, p.tries, Heartbeat)
    ELSE IF p.tries = MaxTries THEN Idle("gaveUp")
    ELSE Sleeping(FALSE, p.tries + 1, RetryDelay)

\* What follows RegisterAsync (lines 78-113): after the first success only heartbeats,
\* whose results are ignored; after MaxTries failures nothing, for ever.
AfterRegister(p, success) ==
    IF success \/ p.joined THEN Sleeping(TRUE, p.tries, Heartbeat)
    ELSE IF p.tries + 1 = MaxTries THEN Idle("gaveUp")
    ELSE Sleeping(FALSE, p.tries + 1, RetryDelay)

\* The request under way for process i, which it will not wait for any longer.
Abandoned(i) ==
    IF process[i].post = Nowhere THEN {} ELSE {[id |-> i, left |-> process[i].post]}

Responds(i) ==
    /\ process[i].reply # "none"
    /\ process' = [process EXCEPT ![i] = AfterRegister(@, @.reply = "ok")]
    /\ UNCHANGED <<ttl, stray, listing, answer, kept>>

\* The HTTP timeout, or a response that was lost: an exception, caught.
TimesOut(i) ==
    /\ process[i].pc = "posting"
    /\ process[i].timer = 0
    /\ process' = [process EXCEPT ![i] = AfterRegister(@, FALSE)]
    /\ stray' = stray \union Abandoned(i)
    /\ kept' = [kept EXCEPT ![i] = FALSE]
    /\ UNCHANGED <<ttl, listing, answer>>

Wakes(i) ==
    /\ process[i].pc = "waiting"
    /\ process[i].timer = 0
    /\ process' = [process EXCEPT ![i] = Posting(@.joined, @.tries)]
    /\ UNCHANGED <<ttl, stray, listing, answer, kept>>

\* The process is killed, or exits on MyServiceShutdown; it does not unregister.
Stops(i) ==
    /\ process[i].pc # "down"
    /\ process' = [process EXCEPT ![i] = Idle("down")]
    /\ stray' = stray \union Abandoned(i)
    /\ kept' = [kept EXCEPT ![i] = FALSE]
    /\ UNCHANGED <<ttl, listing, answer>>

-----------------------------------------------------------------------------
(* MyDiscoverer *)

\* Mutant: a renewal keeps the expiry of the key.
WriteOnce(i) ==
    /\ ttl' = [ttl EXCEPT ![i] = IF @ = 0 THEN Ttl ELSE @]
    /\ listing' = Seen(Present \union {i})

\* SET with an expiry creates the key or renews it.
WriteValue(i) ==
    /\ ttl' = [ttl EXCEPT ![i] = Ttl]
    /\ listing' = Seen(Present \union {i})

DeleteValue(i) ==
    /\ ttl' = [ttl EXCEPT ![i] = 0]
    /\ listing' = Seen(Present \ {i})

Answered(p, result) ==
    [pc |-> p.pc, joined |-> p.joined, tries |-> p.tries, timer |-> p.timer,
     post |-> Nowhere, reply |-> result]

\* RegisterInstance answers 200 after the write ...
RegisterInstance(i) ==
    /\ process[i].post # Nowhere
    /\ WriteValue(i)
    /\ process' = [process EXCEPT ![i] = Answered(@, "ok")]
    /\ kept' = [kept EXCEPT ![i] = TRUE]
    /\ UNCHANGED <<stray, answer>>

\* ... and 500 when Redis refuses it; a request that does not arrive fails as well.
RegisterFails(i) ==
    /\ process[i].post # Nowhere
    /\ process' = [process EXCEPT ![i] = Answered(@, "failed")]
    /\ kept' = [kept EXCEPT ![i] = FALSE]
    /\ UNCHANGED <<ttl, stray, listing, answer>>

RegisterStray(r) ==
    /\ r \in stray
    /\ stray' = stray \ {r}
    /\ \/ WriteValue(r.id)
       \/ UNCHANGED <<ttl, listing>>
    /\ UNCHANGED <<process, answer, kept>>

\* OnBackendFailure of a gateway; a request that fails changes nothing.
UnregisterInstance(i) ==
    /\ ttl[i] > 0
    /\ DeleteValue(i)
    /\ kept' = [kept EXCEPT ![i] = FALSE]
    /\ UNCHANGED <<process, stray, answer>>

\* ListAllValues: KEYS.  Its failure is a 500, an error that changes nothing.
ListKeys ==
    /\ listing = NoListing
    /\ listing' = [todo |-> Present, found |-> {}, must |-> Present, may |-> Present]
    /\ UNCHANGED <<ttl, process, stray, answer, kept>>

Skip(k) == [listing EXCEPT !.todo = @ \ {k}]
Take(k) == [Skip(k) EXCEPT !.found = @ \union {k}]

\* ... then one GET for each key: an error is taken for a key that is gone.
GetValue(k) ==
    /\ listing # NoListing
    /\ k \in listing.todo
    /\ \/ k \in Present /\ listing' = Take(k)
       \/ (k \in Present => ReadsMayFail) /\ listing' = Skip(k)
    /\ UNCHANGED <<ttl, process, stray, answer, kept>>

\* The HTTP status of a handler that ends well, and of each code of a MyError.
StatusOf == [ok |-> 200, bad_parameter |-> 400, entity_not_found |-> 404,
             internal_server_error |-> 500]

\* ListAllValues ends: nothing found, or nothing read, is an error of its own.
ListCode == IF listing.found = {} THEN "entity_not_found" ELSE "ok"

\* Mutant: only a 200 counts as an answer.
GetInstancesOf200(code, found) == IF StatusOf[code] = 200 THEN found ELSE answer

\* GetInstances of the gateway: 404 is an empty list; after another error than that
\* the gateway stays with what it had.
GetInstances(code, found) ==
    IF StatusOf[code] = 404 THEN {}
    ELSE IF StatusOf[code] = 200 THEN found
    ELSE answer

ListingReturns ==
    /\ listing # NoListing
    /\ listing.todo = {}
    /\ answer' = GetInstances(ListCode, listing.found)
    /\ listing' = NoListing
    /\ UNCHANGED <<ttl, process, stray, kept>>

Aged(p) ==
    IF p.pc \in {"posting", "waiting"}
    THEN [pc |-> p.pc, joined |-> p.joined, tries |-> p.tries, timer |-> p.timer - 1,
          post |-> IF p.post = Nowhere THEN Nowhere ELSE p.post - 1, reply |-> p.reply]
    ELSE p

\* Mutant: SET with an expiry of zero, which never ends.
NeverExpiring(t) == t

Expiring(t) == IF t = 0 THEN 0 ELSE t - 1

\* Time passes, unless something is due; Redis drops the keys that expire.
Tick ==
    /\ \A i \in InstanceIDs :
        /\ process[i].pc \in {"posting", "waiting"} => process[i].timer > 0
        /\ process[i].post # 0
    /\ \A r \in stray : r.left > 0
    /\ process' = [i \in InstanceIDs |-> Aged(process[i])]
    /\ stray' = {[r EXCEPT !.left = @ - 1] : r \in stray}
    /\ ttl' = [i \in InstanceIDs |-> Expiring(ttl[i])]
    /\ listing' = Seen({i \in InstanceIDs : Expiring(ttl[i]) > 0})
    /\ UNCHANGED <<answer, kept>>

Task(i) == Responds(i) \/ TimesOut(i) \/ Wakes(i)

Next ==
    \/ \E i \in InstanceIDs :
        \/ Task(i) \/ Start(i) \/ Stops(i)
        \/ RegisterInstance(i) \/ RegisterFails(i) \/ UnregisterInstance(i)
        \/ GetValue(i)
    \/ \E r \in stray : RegisterStray(r)
    \/ ListKeys \/ ListingReturns
    \/ Tick

Spec == Init /\ [][Next]_vars

\* Clocks run, processes that are up wake and requests end.  A discoverer that is
\* asked again and again registers the instance some time (SF); nothing makes a
\* process start or stop, or a gateway list or unregister.
FairSpec ==
    /\ Spec
    /\ WF_vars(Tick)
    /\ \A i \in InstanceIDs :
        /\ WF_vars(Task(i))
        /\ WF_vars(RegisterInstance(i) \/ RegisterFails(i))
        /\ SF_vars(RegisterInstance(i))
    /\ WF_vars(\E r \in stray : RegisterStray(r))

-----------------------------------------------------------------------------
(* Safety *)

Delays == 0 .. MaxDelay

Processes ==
    [pc : {"down", "posting", "waiting", "gaveUp"}, joined : BOOLEAN,
     tries : 0 .. MaxTries - 1, timer : Nat, post : Delays \union {Nowhere},
     reply : {"none", "ok", "failed"}]

Listings ==
    [todo : SUBSET InstanceIDs, found : SUBSET InstanceIDs,
     must : SUBSET InstanceIDs, may : SUBSET InstanceIDs]

TypeOK ==
    /\ ttl \in [InstanceIDs -> 0 .. Ttl]
    /\ process \in [InstanceIDs -> Processes]
    /\ stray \subseteq [id : InstanceIDs, left : Delays]
    /\ listing \in Listings \union {NoListing}
    /\ answer \subseteq InstanceIDs
    /\ kept \in [InstanceIDs -> BOOLEAN]

\* The heartbeats leave room for a lost second: for the response of one and the delay
\* of the next.  MSSConfig.Parse does not check anything of the kind.
HeartbeatInTime == HttpTimeout + Heartbeat + MaxDelay < Ttl

\* An instance whose registrations succeed, and that no gateway unregisters, never
\* drops out of the registry between two heartbeats, however long each request and
\* response takes, and whatever late request of an earlier process arrives
\* (DiscovererRegistrationService.cs:85-102, REGISTRATION_TTL_MS).
HeartbeatKeepsListed == \A i \in InstanceIDs : kept[i] => ttl[i] > 0

\* How the keys left to read and those found cover what the listing has to name.
ListingCovers ==
    listing # NoListing =>
        /\ listing.found \union listing.todo \subseteq listing.may
        /\ listing.must \subseteq Present
        /\ Present \subseteq listing.may
        /\ ~ReadsMayFail => listing.must \subseteq listing.found \union listing.todo

\* What is left of the time to live when everything is as late as it can be.
Margin ==
    \A i \in InstanceIDs :
        LET p == process[i] IN
        kept[i] =>
            /\ p.pc = "waiting" => p.joined /\ ttl[i] > p.timer + MaxDelay
            /\ p.pc = "posting" /\ p.post # Nowhere => ttl[i] > p.post
            /\ p.pc = "posting" /\ p.post = Nowhere =>
                p.reply = "ok" /\ ttl[i] > p.timer + Heartbeat + MaxDelay
            /\ p.pc \notin {"down", "gaveUp"}

\* What the parts of a process have to do with each other.
Shaped(p) ==
    /\ p.pc # "posting" => p.post = Nowhere /\ p.reply = "none"
    /\ p.pc = "posting" => p.timer <= HttpTimeout /\ (p.post = Nowhere <=> p.reply # "none")

ProcessShape == \A i \in InstanceIDs : Shaped(process[i])

-----------------------------------------------------------------------------
(* Liveness *)

\* An instance whose process is down, or has given up to register, leaves the
\* registry for good, although nobody unregisters it: also when one of its requests
\* was still under way.
SilentLeaves ==
    \A i \in InstanceIDs :
        <>[](process[i].pc \in {"down", "gaveUp"}) => <>[](i \notin Present)

\* An instance that has registered once and keeps running comes back after a gateway
\* unregistered it or a heartbeat failed, at a later heartbeat.
UnregisteredReturns ==
    \A i \in InstanceIDs :
        process[i].joined ~> i \in Present \/ process[i].pc = "down"

-----------------------------------------------------------------------------
(* The abstract registry *)

Registry == INSTANCE InstanceRegistry WITH
    NoInquiry <- NoListing,
    present <- Present,
    inquiry <- IF listing = NoListing THEN NoListing
               ELSE [must |-> listing.must, may |-> listing.may]

\* When no GET fails, KEYS and the GETs that follow answer like a single look at the
\* registry that is somewhere between the first and the last of them: they implement
\* InstanceRegistry, although no moment need have had exactly the instances named.
ImplementsRegistry == Registry!Spec

=============================================================================
