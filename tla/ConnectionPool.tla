--------------------------- MODULE ConnectionPool ---------------------------
(***************************************************************************)
(* The connection pool of one dynamic cluster of MyGateway                 *)
(* (MyGateway/service/connection_pool.go).                                 *)
(*                                                                         *)
(* Every exported method of the pool runs under the mutex p.mu from its    *)
(* first line to its return, so each is one action.  The exception is      *)
(* refresh: it calls the discoverer before it takes the lock, so it is two *)
(* actions, FetchInstances and ApplyInstances, and everything else may     *)
(* happen between them.                                                    *)
(*                                                                         *)
(* Around the pool the module keeps what the properties need to see: the   *)
(* registry of the discoverer, the connections that are really open, and   *)
(* the calls in flight, each holding what the pool handed out to it and    *)
(* reporting a failure with it at some later time, or never.               *)
(***************************************************************************)
EXTENDS Integers, FiniteSets, SequencesExt

CONSTANTS
    InstanceIDs,  \* the instance IDs a discoverer may ever list
    Keys,         \* the sticky keys (session ids); never the empty string
    Conns,        \* identities of *grpc.ClientConn objects
    Calls,        \* slots for calls in flight
    NoInstance,   \* the empty instance ID: a key without a binding
    NoKey,        \* the empty sticky key, of a call on a round-robin route
    NoConn,       \* the nil connection
    NoSnapshot,   \* refresh is not between its fetch and its lock
    Idle          \* a slot that holds no call

ASSUME NullsAreFresh ==
    /\ NoInstance \notin InstanceIDs
    /\ NoKey \notin Keys
    /\ NoConn \notin Conns
    /\ Idle \notin [key : Keys \union {NoKey}, id : InstanceIDs, conn : Conns]

ASSUME IdsAreFinite == IsFiniteSet(InstanceIDs)

VARIABLES
    instances,    \* p.instances, as the sequence of its instance IDs
    keyToID,      \* p.keyToID; NoInstance where the map has no entry
    instanceConn, \* p.instanceConn; NoConn where the map has no entry
    rr,           \* p.rr
    closed,       \* p.closed
    openConns,    \* the connections dialled and not closed
    snapshot,     \* local variable instances of refresh, before p.mu.Lock()
    registered,   \* what the discoverer would list now
    calls         \* what each call in flight got from the pool

poolVars == <<instances, keyToID, instanceConn, rr, closed, openConns>>
vars == <<poolVars, snapshot, registered, calls>>

-----------------------------------------------------------------------------
(* Helpers *)

Lease(k, i, n) == [key |-> k, id |-> i, conn |-> n]
Leases == [key : Keys \union {NoKey}, id : InstanceIDs, conn : Conns]
InFlight == {c \in Calls : calls[c] # Idle}

Listed == ToSet(instances)
Connected == {i \in InstanceIDs : instanceConn[i] # NoConn}

\* GetInstances answers with the registered instances in no particular order.
Listings == SetToSeqs(registered)

\* A pointer of a connection still referenced is not handed out again.
FreshConns == Conns \ (openConns \union {calls[c].conn : c \in InFlight})

\* Mutant: the scan starts without a look at the binding of the key.
NeverLive(k) == FALSE

\* The key is bound and the connection of its instance is in the cache.
HasLiveBinding(k) == keyToID[k] # NoInstance /\ keyToID[k] \in Connected

\* Mutant: a binding whose instance is not connected counts as free.
ConnectedToOtherKey(i, k) == \E q \in Keys \ {k} : HasLiveBinding(q) /\ keyToID[q] = i

\* isInstanceAssignedToOtherKey
IsInstanceAssignedToOtherKey(i, k) == \E q \in Keys \ {k} : keyToID[q] = i

\* Mutant: the cache is not looked up before dialling.
DialAgain(i, n) ==
    /\ n \in FreshConns
    /\ instanceConn' = [instanceConn EXCEPT ![i] = n]
    /\ openConns' = openConns \union {n}

\* getOrCreateConnLocked returning connection n of instance i ...
GetOrCreateConn(i, n) ==
    \/ /\ n # NoConn
       /\ n = instanceConn[i]
       /\ UNCHANGED <<instanceConn, openConns>>
    \/ /\ instanceConn[i] = NoConn
       /\ n \in FreshConns
       /\ instanceConn' = [instanceConn EXCEPT ![i] = n]
       /\ openConns' = openConns \union {n}

\* ... which can fail only when it has to dial.
DialMayFail(i) == instanceConn[i] = NoConn

\* Mutant: the entry is deleted and the connection left open.
DeleteEntries(ids) ==
    /\ instanceConn' = [i \in InstanceIDs |-> IF i \in ids THEN NoConn ELSE instanceConn[i]]
    /\ UNCHANGED openConns

\* conn.Close() and delete(p.instanceConn, id), for those that have a connection.
Disconnect(ids) ==
    /\ instanceConn' = [i \in InstanceIDs |-> IF i \in ids THEN NoConn ELSE instanceConn[i]]
    /\ openConns' = openConns \ {instanceConn[i] : i \in ids}

\* Mutant: the rotation stays where it is.
Same(p) == p

\* The position of the rotation after the one that was served.
After(p) == (p + 1) % Len(instances)

\* Mutants: no bounds check; a step back.
KeepIndex(list) == rr' = rr
StepBack(list) == rr' = rr - 1

\* The bounds check on p.rr that follows every change of the list.
ResetIndex(list) == rr' = IF rr >= Len(list) THEN 0 ELSE rr

-----------------------------------------------------------------------------
(* Operations of the pool *)

Init ==
    /\ registered \in SUBSET InstanceIDs
    \* the first refresh runs before NewConnectionPool returns; it may fail
    /\ instances \in Listings \union {<<>>}
    /\ keyToID = [k \in Keys |-> NoInstance]
    /\ instanceConn = [i \in InstanceIDs |-> NoConn]
    /\ rr = 0
    /\ closed = FALSE
    /\ openConns = {}
    /\ snapshot = NoSnapshot
    /\ calls = [c \in Calls |-> Idle]

\* Mutants: an empty answer is taken for an error; only an empty pool asks for more.
FetchSomeInstances ==
    /\ snapshot = NoSnapshot
    /\ snapshot' \in Listings \ {<<>>}
    /\ UNCHANGED <<poolVars, registered, calls>>

FetchWhenEmpty ==
    /\ instances = <<>>
    /\ snapshot = NoSnapshot
    /\ snapshot' \in Listings
    /\ UNCHANGED <<poolVars, registered, calls>>

\* refresh, lines 87-91: the answer of the discoverer, read without the lock.
\* An error of GetInstances ends refresh and changes nothing.  refreshLoop has no exit:
\* the fetches go on after Close.
FetchInstances ==
    /\ snapshot = NoSnapshot
    /\ snapshot' \in Listings
    /\ UNCHANGED <<poolVars, registered, calls>>

\* Mutant: a refresh starts over with every connection.
AllConnections == Connected

\* The connected instances that the new list misses.
Gone == Connected \ ToSet(snapshot)

\* refresh under the lock, lines 92-113.  There is no test of closed.
ApplyInstances ==
    /\ snapshot # NoSnapshot
    /\ Disconnect(Gone)
    /\ keyToID' = [k \in Keys |-> IF keyToID[k] \in Gone THEN NoInstance ELSE keyToID[k]]
    /\ instances' = snapshot
    /\ ResetIndex(snapshot)
    /\ snapshot' = NoSnapshot
    /\ UNCHANGED <<closed, registered, calls>>

\* GetConnectionRoundRobin answering with connection n of instance i: the
\* instances it tried before i could not be dialled.
GetConnectionRoundRobin(i, n) ==
    /\ ~closed
    /\ \E step \in 0 .. Len(instances) - 1 :
        LET At(s) == (rr + s) % Len(instances) IN
        /\ instances[At(step) + 1] = i
        /\ \A s \in 0 .. step - 1 : DialMayFail(instances[At(s) + 1])
        /\ rr' = After(At(step))
    /\ GetOrCreateConn(i, n)
    /\ UNCHANGED <<instances, keyToID, closed>>

\* An instance that the scan for key k passes over.
MayBeSkipped(i, k) == IsInstanceAssignedToOtherKey(i, k) \/ DialMayFail(i)

\* GetConnectionForKey answering from the binding of the key.
ReuseBinding(k, i, n) ==
    /\ ~closed
    /\ HasLiveBinding(k)
    /\ i = keyToID[k]
    /\ n = instanceConn[i]
    /\ UNCHANGED poolVars

\* GetConnectionForKey binding the key to the first free instance it reaches.
BindFreeInstance(k, i, n) ==
    /\ ~closed
    /\ ~HasLiveBinding(k)
    /\ \E p \in 1 .. Len(instances) :
        /\ instances[p] = i
        /\ \A q \in 1 .. p - 1 : MayBeSkipped(instances[q], k)
    /\ ~IsInstanceAssignedToOtherKey(i, k)
    /\ GetOrCreateConn(i, n)
    /\ keyToID' = [keyToID EXCEPT ![k] = i]
    /\ UNCHANGED <<instances, rr, closed>>

GetConnectionForKey(k, i, n) == ReuseBinding(k, i, n) \/ BindFreeInstance(k, i, n)

\* GetConnectionForKey answering ErrNoAvailableConnInstance: the stale binding
\* of the key is gone all the same.  (The errors that change nothing, those of
\* a closed pool and of GetConnectionRoundRobin, are stuttering steps.)
RefuseKey(k) ==
    /\ ~closed
    /\ ~HasLiveBinding(k)
    /\ \A i \in Listed : MayBeSkipped(i, k)
    /\ keyToID' = [keyToID EXCEPT ![k] = NoInstance]
    /\ UNCHANGED <<instances, instanceConn, rr, closed, openConns>>

\* The list without the first entry of instance i.
RemoveInstance(i) ==
    IF i \in Listed
    THEN \E p \in 1 .. Len(instances) :
            /\ instances[p] = i
            /\ \A q \in 1 .. p - 1 : instances[q] # i
            /\ instances' = RemoveAt(instances, p)
            /\ ResetIndex(instances')
    ELSE UNCHANGED <<instances, rr>>

\* OnBackendFailure.  The unregister request is sent under the lock and its
\* error ignored: unregisters says whether the discoverer obeyed.  A fetch or a
\* registration during that request commutes with it or with the rest of the step.
OnBackendFailure(k, i, unregisters) ==
    /\ keyToID' = IF k = NoKey THEN keyToID
                  ELSE [keyToID EXCEPT ![k] = NoInstance]
    /\ Disconnect({i})
    /\ RemoveInstance(i)
    /\ registered' = IF unregisters THEN registered \ {i} ELSE registered
    /\ UNCHANGED closed

\* Mutant: Close forgets to clear the bindings.
CloseConnections ==
    /\ ~closed
    /\ closed' = TRUE
    /\ Disconnect(Connected)
    /\ UNCHANGED <<keyToID, instances, rr>>

\* Close, when the pool is not closed yet; otherwise it changes nothing.
Close ==
    /\ ~closed
    /\ closed' = TRUE
    /\ Disconnect(Connected)
    /\ keyToID' = [k \in Keys |-> NoInstance]
    /\ UNCHANGED <<instances, rr>>

-----------------------------------------------------------------------------
(* The callers and the discoverer *)

\* A handler of the proxy obtains a connection ...
CallSticky(c, k) ==
    /\ calls[c] = Idle
    /\ \E i \in InstanceIDs, n \in Conns :
        /\ GetConnectionForKey(k, i, n)
        /\ calls' = [calls EXCEPT ![c] = Lease(k, i, n)]
    /\ UNCHANGED <<snapshot, registered>>

CallRoundRobin(c) ==
    /\ calls[c] = Idle
    /\ \E i \in InstanceIDs, n \in Conns :
        /\ GetConnectionRoundRobin(i, n)
        /\ calls' = [calls EXCEPT ![c] = Lease(NoKey, i, n)]
    /\ UNCHANGED <<snapshot, registered>>

CallRefused(k) == RefuseKey(k) /\ UNCHANGED <<snapshot, registered, calls>>

\* ... uses it for as long as it likes, and reports a failure or does not.
CallFails(c) ==
    /\ calls[c] # Idle
    /\ \E unregisters \in BOOLEAN :
        OnBackendFailure(calls[c].key, calls[c].id, unregisters)
    /\ calls' = [calls EXCEPT ![c] = Idle]
    /\ UNCHANGED snapshot

CallEnds(c) ==
    /\ calls[c] # Idle
    /\ calls' = [calls EXCEPT ![c] = Idle]
    /\ UNCHANGED <<poolVars, snapshot, registered>>

\* The deferred resolver.Close() of main; handlers may still be running.
Shutdown == Close /\ UNCHANGED <<snapshot, registered, calls>>

\* The registry changes by itself: a backend registers, or its entry expires.
Register(i) ==
    /\ i \notin registered
    /\ registered' = registered \union {i}
    /\ UNCHANGED <<poolVars, snapshot, calls>>

Expire(i) ==
    /\ i \in registered
    /\ registered' = registered \ {i}
    /\ UNCHANGED <<poolVars, snapshot, calls>>

Next ==
    \/ FetchInstances
    \/ ApplyInstances
    \/ \E c \in Calls : CallRoundRobin(c) \/ CallFails(c) \/ CallEnds(c)
    \/ \E c \in Calls, k \in Keys : CallSticky(c, k)
    \/ \E k \in Keys : CallRefused(k)
    \/ Shutdown
    \/ \E i \in InstanceIDs : Register(i) \/ Expire(i)

Spec == Init /\ [][Next]_vars

\* The ticker of refreshLoop fires again and again, and the discoverer answers
\* again and again.  Nothing is assumed of the callers or of the backends.
FairSpec == Spec /\ WF_vars(FetchInstances) /\ WF_vars(ApplyInstances)

-----------------------------------------------------------------------------
(* Safety *)

TypeOK ==
    /\ instances \in Seq(InstanceIDs)
    /\ keyToID \in [Keys -> InstanceIDs \union {NoInstance}]
    /\ instanceConn \in [InstanceIDs -> Conns \union {NoConn}]
    /\ rr \in Nat
    /\ closed \in BOOLEAN
    /\ openConns \subseteq Conns
    /\ snapshot \in Seq(InstanceIDs) \union {NoSnapshot}
    /\ registered \subseteq InstanceIDs
    /\ calls \in [Calls -> Leases \union {Idle}]

\* At most one session is bound to an instance, whatever mixture of rebinding,
\* refresh, late failure reports and re-registration the instance went through
\* (GetConnectionForKey, connection_pool.go:167-179).
OneSessionPerInstance ==
    \A k, q \in Keys :
        keyToID[k] = keyToID[q] /\ keyToID[k] # NoInstance => k = q

\* The open connections are exactly the cached ones, one per instance: no path
\* through failure, refresh and Close leaks a connection, none leaves a closed
\* one in the cache to be handed out again, and no two instances share one.
NoConnectionLeak ==
    /\ openConns = {instanceConn[i] : i \in Connected}
    /\ \A i, j \in Connected : instanceConn[i] = instanceConn[j] => i = j

\* A call whose connection is still open holds the connection that is cached for
\* the instance it was told: a later report of this call closes what it used, or
\* something newer, but never a connection of another instance.
LeaseIsCached ==
    \A c \in InFlight :
        calls[c].conn \in openConns => instanceConn[calls[c].id] = calls[c].conn

\* A connection is cached only for an instance in the list, so a refresh never
\* leaves the pool connected to an instance it no longer hands out, and the next
\* position of the rotation is a position of the list, which is free of
\* duplicates (connection_pool.go:99-113, 229-242).
ListCoversCache ==
    /\ Connected \subseteq Listed
    /\ rr < Len(instances) \/ rr = 0
    /\ IsInjective(instances)

\* Once Close has returned, nothing is cached or bound again, although refresh
\* and the failure reports of handlers still running go on changing the pool
\* without testing closed.
ClosedForGood == closed => Connected = {} /\ \A k \in Keys : keyToID[k] = NoInstance

\* A session moves off its instance only if the connection to that instance is
\* gone, is lost in the same step, or a call of this very session reports a
\* failure: never through the traffic or the failure of other sessions
\* (interfaces/connection_pool.go:15).
BindingIsSticky ==
    [][\A k \in Keys : keyToID[k] # NoInstance /\ keyToID'[k] # keyToID[k] =>
        \/ instanceConn[keyToID[k]] = NoConn
        \/ instanceConn'[keyToID[k]] = NoConn
        \/ \E c \in InFlight : calls[c].key = k /\ calls'[c] = Idle]_vars

\* A connection is closed only when its instance leaves the list or the pool is
\* closed: a refresh or the failure of one instance does not break the streams
\* running on another.
DisconnectedOnlyWhenDelisted ==
    [][\A i \in Connected :
        instanceConn'[i] # instanceConn[i] => closed' \/ i \notin ToSet(instances')]_vars

\* A snapshot waiting for the lock lists nobody twice.
SnapshotIsList == snapshot # NoSnapshot => IsInjective(snapshot)

\* The inductive invariant behind the safety properties: each conjunct needs others
\* to be preserved (OneSessionPerInstance stands alone; the account of the open
\* connections needs the cache to be injective; a lease stays good because a fresh
\* connection is nobody's lease; the cache stays inside a list without duplicates).
IInv ==
    /\ TypeOK
    /\ OneSessionPerInstance
    /\ NoConnectionLeak
    /\ LeaseIsCached
    /\ ListCoversCache
    /\ SnapshotIsList
    /\ ClosedForGood

-----------------------------------------------------------------------------
(* Liveness *)

\* However stale the snapshots that get applied, an instance that is gone from the
\* registry does not stay in the list of an open pool (refreshLoop,
\* connection_pool.go:73-79).
GoneIsDropped ==
    \A i \in InstanceIDs :
        ~closed /\ i \in Listed /\ i \notin registered
            ~> closed \/ i \notin Listed \/ i \in registered

\* An instance that stays registered is offered to the callers of an open pool again,
\* also after a failure report removed it from the list and the discoverer did not obey
\* (connection_pool.go:87-91, 234-243).  A closed pool has no callers to offer it to.
RegisteredIsOffered ==
    \A i \in InstanceIDs :
        ~closed /\ i \in registered /\ i \notin Listed
            ~> closed \/ i \in Listed \/ i \notin registered

-----------------------------------------------------------------------------
(* What the documentation promises and the code does not keep *)

\* The README says of a refresh: "connections to removed instances are closed and
\* sticky bindings cleared" (README.md:64).  After a refresh no session is bound
\* to an instance outside the list.
RefreshClearsBindings ==
    [][snapshot # NoSnapshot /\ snapshot' = NoSnapshot =>
        \A k \in Keys : keyToID'[k] \in ToSet(instances') \union {NoInstance}]_vars

\* The README says: "Same session-id always hits the same backend instance until
\* failure" (README.md:58).  A session stays bound while the connection to its
\* instance stays open.
BoundUntilFailure ==
    [][\A k \in Keys : HasLiveBinding(k) /\ keyToID'[k] # keyToID[k] =>
        instanceConn'[keyToID[k]] # instanceConn[keyToID[k]]]_vars

-----------------------------------------------------------------------------
(* The pool implements the abstract promise *)

Affinity == INSTANCE SessionAffinity WITH
    home <- keyToID,
    live <- Connected,
    using <- {<<calls[c].key, calls[c].id>> : c \in InFlight}

\* Every step of the pool, its callers and its refresh goroutine is a step that
\* SessionAffinity allows.
ImplementsAffinity == Affinity!Spec

=============================================================================
