------------------------ MODULE ConnectionPoolProofs ------------------------
(***************************************************************************)
(* Proofs about ConnectionPool, for any sets of instances, sessions and    *)
(* calls.                                                                  *)
(***************************************************************************)
EXTENDS ConnectionPool, SequenceTheorems, FiniteSetTheorems, TLAPS

-----------------------------------------------------------------------------
(* Sequences *)

\* Removing a position of a sequence keeps the other elements and their order.
LEMMA RemoveAtElements ==
  ASSUME NEW S, NEW s \in Seq(S), NEW p \in 1..Len(s)
  PROVE /\ RemoveAt(s,p) \in Seq(S)
        /\ Len(RemoveAt(s,p)) = Len(s) - 1
        /\ \A m \in 1..Len(s)-1 : RemoveAt(s,p)[m] = IF m < p THEN s[m] ELSE s[m+1]
<1> DEFINE a == SubSeq(s, 1, p-1)
           b == SubSeq(s, p+1, Len(s))
<1>0. Len(s) \in Nat /\ p \in Nat /\ p >= 1 /\ p <= Len(s)
  OBVIOUS
<1>1. a \in Seq(S) /\ Len(a) = p-1 /\ \A m \in 1..p-1 : a[m] = s[m]
  OBVIOUS
<1>2. b \in Seq(S) /\ Len(b) = Len(s)-p /\ \A m \in 1..Len(s)-p : b[m] = s[p+m]
  OBVIOUS
<1>3. RemoveAt(s,p) = a \o b
  BY DEF RemoveAt
<1> HIDE DEF a, b
<1>4. /\ a \o b \in Seq(S)
      /\ Len(a \o b) = Len(a) + Len(b)
      /\ \A m \in 1..Len(a)+Len(b) :
            (a \o b)[m] = IF m <= Len(a) THEN a[m] ELSE b[m - Len(a)]
  BY <1>1, <1>2, ConcatProperties
<1>5. ASSUME NEW m \in 1..Len(s)-1 PROVE (a \o b)[m] = IF m < p THEN s[m] ELSE s[m+1]
  <2>1. m \in 1..Len(a)+Len(b)
    BY <1>0, <1>1, <1>2
  <2>2. CASE m < p
    BY <2>1, <2>2, <1>0, <1>1, <1>4
  <2>3. CASE ~(m < p)
    <3>1. m - Len(a) \in 1..Len(s)-p /\ p + (m - Len(a)) = m+1 /\ ~(m <= Len(a))
      BY <2>3, <1>0, <1>1
    <3>2. (a \o b)[m] = b[m - Len(a)]
      BY <3>1, <2>1, <1>4
    <3> QED BY <3>1, <3>2, <2>3, <1>2
  <2> QED BY <2>2, <2>3
<1> QED BY <1>0, <1>1, <1>2, <1>3, <1>4, <1>5

\* Removing a position of a sequence without duplicates removes exactly that element:
\* what the slice append of OnBackendFailure does to p.instances (lines 234-236).
LEMMA RemoveAtFacts ==
  ASSUME NEW S, NEW s \in Seq(S), IsInjective(s), NEW p \in 1..Len(s)
  PROVE /\ IsInjective(RemoveAt(s,p))
        /\ ToSet(RemoveAt(s,p)) = ToSet(s) \ {s[p]}
<1> DEFINE t == RemoveAt(s,p)
<1>1. /\ t \in Seq(S) /\ Len(t) = Len(s)-1
      /\ \A m \in 1..Len(s)-1 : t[m] = IF m < p THEN s[m] ELSE s[m+1]
  BY RemoveAtElements
<1> HIDE DEF t
<1>2. DOMAIN s = 1..Len(s) /\ DOMAIN t = 1..Len(s)-1 /\ Len(s) \in Nat /\ p \in Nat
  BY <1>1, LenProperties
<1>3. IsInjective(t)
  <2>1. SUFFICES ASSUME NEW m \in 1..Len(s)-1, NEW n \in 1..Len(s)-1, t[m] = t[n]
                 PROVE m = n
    BY <1>2 DEF IsInjective
  <2>2. PICK mm \in 1..Len(s) : t[m] = s[mm] /\ mm = IF m < p THEN m ELSE m+1
    BY <1>1, <1>2
  <2>3. PICK nn \in 1..Len(s) : t[n] = s[nn] /\ nn = IF n < p THEN n ELSE n+1
    BY <1>1, <1>2
  <2>4. mm = nn
    BY <2>1, <2>2, <2>3, <1>2 DEF IsInjective
  <2> QED BY <2>2, <2>3, <2>4, <1>2
<1>4. ToSet(t) = ToSet(s) \ {s[p]}
  <2>1. ASSUME NEW m \in 1..Len(s)-1 PROVE t[m] \in ToSet(s) \ {s[p]}
    <3>1. PICK mm \in 1..Len(s) : t[m] = s[mm] /\ mm # p
      BY <1>1, <1>2
    <3> QED BY <3>1, <1>2 DEF IsInjective, ToSet
  <2>2. ASSUME NEW m \in 1..Len(s), s[m] # s[p] PROVE s[m] \in ToSet(t)
    <3>1. PICK mm \in 1..Len(s)-1 : t[mm] = s[m]
      <4>1. CASE m < p
        BY <4>1, <1>1, <1>2
      <4>2. CASE m > p
       <5>1. m-1 \in 1..Len(s)-1 /\ ~(m-1 < p) /\ (m-1)+1 = m
         BY <4>2, <1>2
       <5> QED BY <5>1, <1>1
      <4> QED BY <4>1, <4>2, <2>2, <1>2
    <3> QED BY <3>1, <1>2 DEF ToSet
  <2> QED BY <2>1, <2>2, <1>2 DEF ToSet
<1> QED BY <1>3, <1>4 DEF t

\* An answer of the discoverer lists each registered instance once.
LEMMA ListingFacts ==
  ASSUME TypeOK, NEW s \in Listings
  PROVE  s \in Seq(InstanceIDs) /\ IsInjective(s)
<1>1. Cardinality(registered) \in Nat
  BY IdsAreFinite, FS_Subset, FS_CardinalityType DEF TypeOK
<1>2. s \in [1 .. Cardinality(registered) -> registered]
  BY DEF Listings, SetToSeqs
<1>3. s \in Seq(registered)
  BY <1>1, <1>2
<1>4. s \in Seq(InstanceIDs)
  BY <1>3, SeqMonotonic DEF TypeOK
<1>5. IsInjective(s)
  BY <1>2 DEF Listings, SetToSeqs, IsInjective
<1> QED BY <1>4, <1>5

-----------------------------------------------------------------------------
(* Type correctness *)

\* OnBackendFailure leaves a list of instances and an index.
LEMMA RemoveInstanceType ==
  ASSUME TypeOK, IsInjective(instances), NEW i, RemoveInstance(i)
  PROVE  instances' \in Seq(InstanceIDs) /\ rr' \in Nat
<1>1. CASE i \in Listed
  <2>1. PICK p \in 1 .. Len(instances) :
          instances' = RemoveAt(instances, p) /\ ResetIndex(instances')
    BY <1>1 DEF RemoveInstance
  <2> QED BY <2>1, RemoveAtElements DEF TypeOK, ResetIndex
<1>2. CASE i \notin Listed
  BY <1>2 DEF RemoveInstance, TypeOK
<1> QED BY <1>1, <1>2

\* getOrCreateConnLocked caches connections only.
LEMMA GetOrCreateConnType ==
  ASSUME TypeOK, NEW i \in InstanceIDs, NEW n \in Conns, GetOrCreateConn(i, n)
  PROVE  /\ instanceConn' \in [InstanceIDs -> Conns \union {NoConn}]
         /\ openConns' \subseteq Conns
BY DEF TypeOK, GetOrCreateConn

\* NewConnectionPool builds a state of the right type.
LEMMA InitType == Init => TypeOK
<1> SUFFICES ASSUME Init PROVE TypeOK
  OBVIOUS
<1> USE DEF Init
<1>1. instances \in Seq(InstanceIDs)
  <2>1. Cardinality(registered) \in Nat
    BY IdsAreFinite, FS_Subset, FS_CardinalityType
  <2>2. ASSUME instances \in Listings PROVE instances \in Seq(InstanceIDs)
    <3>1. instances \in [1 .. Cardinality(registered) -> registered]
      BY <2>2 DEF Listings, SetToSeqs
    <3>2. instances \in Seq(registered)
      BY <2>1, <3>1
    <3> QED BY <3>2, SeqMonotonic
  <2> QED BY <2>2, EmptySeq
<1>2. keyToID \in [Keys -> InstanceIDs \union {NoInstance}]
  OBVIOUS
<1>3. instanceConn \in [InstanceIDs -> Conns \union {NoConn}]
  OBVIOUS
<1>4. calls \in [Calls -> Leases \union {Idle}]
  OBVIOUS
<1> QED BY <1>1, <1>2, <1>3, <1>4 DEF TypeOK

\* Every operation of the pool, of its callers and of the discoverer keeps the types.
LEMMA NextType == TypeOK /\ IsInjective(instances) /\ [Next]_vars => TypeOK'
<1> SUFFICES ASSUME TypeOK, IsInjective(instances), [Next]_vars PROVE TypeOK'
  OBVIOUS
<1> USE DEF TypeOK
<1>1. CASE FetchInstances
  <2>1. snapshot' \in Seq(InstanceIDs)
    BY <1>1, ListingFacts DEF FetchInstances
  <2> QED BY <1>1, <2>1 DEF FetchInstances, poolVars
<1>2. CASE ApplyInstances
  <2>1. instances' \in Seq(InstanceIDs) /\ rr' \in Nat
    BY <1>2 DEF ApplyInstances, ResetIndex
  <2> QED BY <1>2, <2>1 DEF ApplyInstances, Disconnect, Gone
<1>3. ASSUME NEW c \in Calls, CallRoundRobin(c) PROVE TypeOK'
  <2>1. PICK i \in InstanceIDs, n \in Conns :
          /\ GetConnectionRoundRobin(i, n)
          /\ calls' = [calls EXCEPT ![c] = Lease(NoKey, i, n)]
    BY <1>3 DEF CallRoundRobin
  <2>2. rr' \in Nat
    BY <2>1 DEF GetConnectionRoundRobin, After
  <2>3. Lease(NoKey, i, n) \in Leases
    BY DEF Lease, Leases
  <2>4. calls' \in [Calls -> Leases \union {Idle}]
    BY <2>1, <2>3
  <2>5. /\ instanceConn' \in [InstanceIDs -> Conns \union {NoConn}]
        /\ openConns' \subseteq Conns
    BY <2>1, GetOrCreateConnType DEF GetConnectionRoundRobin
  <2> QED BY <1>3, <2>1, <2>2, <2>4, <2>5 DEF CallRoundRobin, GetConnectionRoundRobin
<1>4. ASSUME NEW c \in Calls, NEW k \in Keys, CallSticky(c, k) PROVE TypeOK'
  <2>1. PICK i \in InstanceIDs, n \in Conns :
          /\ GetConnectionForKey(k, i, n)
          /\ calls' = [calls EXCEPT ![c] = Lease(k, i, n)]
    BY <1>4 DEF CallSticky
  <2>2. Lease(k, i, n) \in Leases
    BY DEF Lease, Leases
  <2>3. calls' \in [Calls -> Leases \union {Idle}]
    BY <2>1, <2>2
  <2>4. CASE ReuseBinding(k, i, n)
    BY <1>4, <2>3, <2>4 DEF CallSticky, ReuseBinding, poolVars
  <2>5. CASE BindFreeInstance(k, i, n)
    <3>1. /\ instanceConn' \in [InstanceIDs -> Conns \union {NoConn}]
          /\ openConns' \subseteq Conns
      BY <2>5, GetOrCreateConnType DEF BindFreeInstance
    <3>2. keyToID' \in [Keys -> InstanceIDs \union {NoInstance}]
      BY <2>5 DEF BindFreeInstance
    <3> QED BY <1>4, <2>3, <2>5, <3>1, <3>2 DEF CallSticky, BindFreeInstance
  <2> QED BY <2>1, <2>4, <2>5 DEF GetConnectionForKey
<1>5. ASSUME NEW k \in Keys, CallRefused(k) PROVE TypeOK'
  BY <1>5 DEF CallRefused, RefuseKey
<1>6. ASSUME NEW c \in Calls, CallFails(c) PROVE TypeOK'
  <2>1. PICK unregisters \in BOOLEAN :
          OnBackendFailure(calls[c].key, calls[c].id, unregisters)
    BY <1>6 DEF CallFails
  <2>2. calls' \in [Calls -> Leases \union {Idle}]
    BY <1>6 DEF CallFails
  <2>3. instances' \in Seq(InstanceIDs) /\ rr' \in Nat
    BY <2>1, RemoveInstanceType DEF OnBackendFailure
  <2>4. keyToID' \in [Keys -> InstanceIDs \union {NoInstance}]
    BY <2>1 DEF OnBackendFailure
  <2>5. /\ instanceConn' \in [InstanceIDs -> Conns \union {NoConn}]
        /\ openConns' \subseteq Conns
        /\ registered' \subseteq InstanceIDs
    BY <2>1 DEF OnBackendFailure, Disconnect
  <2> QED BY <1>6, <2>1, <2>2, <2>3, <2>4, <2>5 DEF CallFails, OnBackendFailure, Disconnect
<1>7. ASSUME NEW c \in Calls, CallEnds(c) PROVE TypeOK'
  BY <1>7 DEF CallEnds, poolVars
<1>8. CASE Shutdown
  BY <1>8 DEF Shutdown, Close, Disconnect
<1>9. ASSUME NEW i \in InstanceIDs, Register(i) \/ Expire(i) PROVE TypeOK'
  BY <1>9 DEF Register, Expire, poolVars
<1>10. CASE UNCHANGED vars
  BY <1>10 DEF vars, poolVars
<1> QED BY <1>1, <1>2, <1>3, <1>4, <1>5, <1>6, <1>7, <1>8, <1>9, <1>10 DEF Next

-----------------------------------------------------------------------------
(* The inductive invariant *)

\* The state NewConnectionPool leaves satisfies the inductive invariant.
LEMMA InitSafe == Init => IInv
<1> SUFFICES ASSUME Init PROVE IInv
  OBVIOUS
<1>1. TypeOK
  BY InitType
<1>2. OneSessionPerInstance
  BY DEF Init, OneSessionPerInstance
<1>3. Connected = {}
  BY DEF Init, Connected
<1>4. NoConnectionLeak /\ ClosedForGood
  BY <1>3 DEF Init, NoConnectionLeak, ClosedForGood
<1>5. InFlight = {}
  BY DEF Init, InFlight
<1>6. LeaseIsCached
  BY <1>5 DEF LeaseIsCached
<1>7. IsInjective(instances)
  <2>1. CASE instances = <<>>
    BY <2>1 DEF IsInjective
  <2>2. CASE instances \in Listings
    BY <2>2, <1>1, ListingFacts
  <2> QED BY <2>1, <2>2 DEF Init
<1>8. ListCoversCache
  BY <1>3, <1>7 DEF Init, ListCoversCache
<1>9. SnapshotIsList
  BY DEF Init, SnapshotIsList
<1> QED BY <1>1, <1>2, <1>4, <1>6, <1>8, <1>9 DEF IInv

\* getOrCreateConnLocked connects the instance asked for, breaks no account of the
\* open connections and leaves every earlier lease what it was.
LEMMA GetOrCreateConnSafe ==
  ASSUME IInv, NEW i \in InstanceIDs, NEW n \in Conns, GetOrCreateConn(i, n)
  PROVE  /\ instanceConn'[i] = n
         /\ Connected' = Connected \union {i}
         /\ NoConnectionLeak'
         /\ \A c \in InFlight : calls[c].conn \in openConns' =>
                instanceConn'[calls[c].id] = calls[c].conn
<1> USE NullsAreFresh DEF IInv, TypeOK
<1>1. CASE n = instanceConn[i] /\ UNCHANGED <<instanceConn, openConns>>
  BY <1>1 DEF Connected, NoConnectionLeak, LeaseIsCached
<1>2. CASE /\ instanceConn[i] = NoConn
           /\ n \in FreshConns
           /\ instanceConn' = [instanceConn EXCEPT ![i] = n]
           /\ openConns' = openConns \union {n}
  <2>1. n # NoConn /\ n \notin openConns /\ \A c \in InFlight : calls[c].conn # n
    BY <1>2 DEF FreshConns
  <2>2. Connected' = Connected \union {i} /\ i \notin Connected
    BY <1>2, <2>1 DEF Connected
  <2>3. \A j \in Connected : instanceConn'[j] = instanceConn[j] /\ instanceConn[j] \in openConns
    BY <1>2, <2>2 DEF NoConnectionLeak, Connected
  <2>4. instanceConn'[i] = n
    BY <1>2
  <2>5. NoConnectionLeak'
    BY <1>2, <2>1, <2>2, <2>3, <2>4 DEF NoConnectionLeak
  <2>6. ASSUME NEW c \in InFlight, calls[c].conn \in openConns'
        PROVE  instanceConn'[calls[c].id] = calls[c].conn
    <3>1. calls[c].conn \in openConns
      BY <1>2, <2>1, <2>6
    <3>2. instanceConn[calls[c].id] = calls[c].conn
      BY <3>1 DEF LeaseIsCached
    <3>3. calls[c].id \in InstanceIDs /\ calls[c].conn \in Conns
      BY DEF InFlight, Leases
    <3> QED BY <1>2, <3>2, <3>3
  <2> QED BY <2>2, <2>4, <2>5, <2>6
<1> QED BY <1>1, <1>2 DEF GetOrCreateConn

\* A lease just handed out is the cached connection of its instance.
LEMMA NewLeaseSafe ==
  ASSUME IInv, NEW c \in Calls, calls[c] = Idle, NEW k,
         NEW i \in InstanceIDs, NEW n \in Conns,
         calls' = [calls EXCEPT ![c] = Lease(k, i, n)],
         instanceConn'[i] = n,
         \A d \in InFlight : calls[d].conn \in openConns' =>
                instanceConn'[calls[d].id] = calls[d].conn
  PROVE  LeaseIsCached'
BY DEF IInv, TypeOK, LeaseIsCached, InFlight, Lease

\* refresh under the lock keeps the invariant, whatever snapshot it applies.
LEMMA ApplySafe == IInv /\ ApplyInstances => IInv'
<1> SUFFICES ASSUME IInv, ApplyInstances PROVE IInv'
  OBVIOUS
<1> USE NullsAreFresh
<1> DEFINE gone == Connected \ ToSet(snapshot)
<1>1. TypeOK'
  BY NextType DEF IInv, Next, ListCoversCache
<1>2. /\ instanceConn' = [i \in InstanceIDs |->
                              IF i \in gone THEN NoConn ELSE instanceConn[i]]
      /\ openConns' = openConns \ {instanceConn[i] : i \in gone}
      /\ keyToID' = [k \in Keys |->
                        IF keyToID[k] \in gone THEN NoInstance ELSE keyToID[k]]
      /\ instances' = snapshot
      /\ snapshot' = NoSnapshot
      /\ UNCHANGED <<closed, calls>>
  BY DEF ApplyInstances, Disconnect, Gone
<1>3. Connected' = Connected \intersect ToSet(snapshot)
  BY <1>2 DEF Connected
<1>4. \A i \in Connected' : instanceConn'[i] = instanceConn[i]
  BY <1>2, <1>3 DEF Connected
<1> HIDE DEF gone
<1>5. OneSessionPerInstance'
  BY <1>2 DEF IInv, OneSessionPerInstance
<1>6. NoConnectionLeak'
  <2>1. ASSUME NEW n \in openConns' PROVE \E i \in Connected' : n = instanceConn'[i]
    <3>1. PICK i \in Connected : n = instanceConn[i]
      BY <1>2, <2>1 DEF IInv, NoConnectionLeak
    <3>2. i \notin gone
      BY <1>2, <2>1, <3>1
    <3> QED BY <1>3, <1>4, <3>1, <3>2 DEF gone
  <2>2. ASSUME NEW i \in Connected' PROVE instanceConn'[i] \in openConns'
    <3>1. i \in Connected /\ i \notin gone
      BY <1>3 DEF gone
    <3>2. \A j \in gone : instanceConn[j] # instanceConn[i]
      BY <3>1 DEF IInv, NoConnectionLeak, gone
    <3> QED BY <1>2, <1>4, <3>1, <3>2 DEF IInv, NoConnectionLeak
  <2> QED BY <1>3, <1>4, <2>1, <2>2 DEF IInv, NoConnectionLeak
<1>7. LeaseIsCached'
  <2>1. SUFFICES ASSUME NEW c \in InFlight, calls[c].conn \in openConns'
                 PROVE  instanceConn'[calls[c].id] = calls[c].conn
    BY <1>2 DEF LeaseIsCached, InFlight
  <2>2. calls[c].id \in InstanceIDs /\ calls[c].conn \in Conns
    BY DEF IInv, TypeOK, InFlight, Leases
  <2>3. instanceConn[calls[c].id] = calls[c].conn
    BY <1>2, <2>1 DEF IInv, LeaseIsCached
  <2>4. calls[c].id \notin gone
    BY <1>2, <2>1, <2>3
  <2> QED BY <1>2, <2>2, <2>3, <2>4
<1>8. ListCoversCache'
  <2>1. IsInjective(instances')
    BY <1>2 DEF IInv, SnapshotIsList, ApplyInstances
  <2>2. Connected' \subseteq Listed'
    BY <1>2, <1>3 DEF Listed
  <2>3. snapshot \in Seq(InstanceIDs)
    BY DEF IInv, TypeOK, ApplyInstances
  <2>4. Len(snapshot) \in Nat /\ rr \in Nat
    BY <2>3 DEF IInv, TypeOK
  <2>5. rr' < Len(instances') \/ rr' = 0
    BY <1>2, <2>4 DEF ApplyInstances, ResetIndex
  <2> QED BY <2>1, <2>2, <2>5 DEF ListCoversCache
<1>9. SnapshotIsList'
  BY <1>2 DEF SnapshotIsList
<1>10. ClosedForGood'
  BY <1>2, <1>3 DEF IInv, ClosedForGood
<1> QED BY <1>1, <1>5, <1>6, <1>7, <1>8, <1>9, <1>10 DEF IInv

\* GetConnectionRoundRobin keeps the invariant.
LEMMA RoundRobinSafe ==
  ASSUME IInv, NEW c \in Calls, CallRoundRobin(c)
  PROVE  IInv'
<1>1. TypeOK'
  BY NextType DEF IInv, Next, ListCoversCache
<1>2. PICK i \in InstanceIDs, n \in Conns :
        /\ GetConnectionRoundRobin(i, n)
        /\ calls' = [calls EXCEPT ![c] = Lease(NoKey, i, n)]
  BY DEF CallRoundRobin
<1>3. /\ calls[c] = Idle
      /\ ~closed
      /\ UNCHANGED <<instances, keyToID, closed, snapshot>>
      /\ GetOrCreateConn(i, n)
  BY <1>2 DEF CallRoundRobin, GetConnectionRoundRobin
<1>4. PICK at \in 0 .. Len(instances) - 1 :
        instances[at + 1] = i /\ rr' = (at + 1) % Len(instances)
  <2>1. PICK step \in 0 .. Len(instances) - 1 :
          /\ instances[((rr + step) % Len(instances)) + 1] = i
          /\ rr' = (((rr + step) % Len(instances)) + 1) % Len(instances)
    BY <1>2 DEF GetConnectionRoundRobin, After
  <2>2. Len(instances) \in Nat \ {0} /\ rr + step \in Nat
    BY <2>1 DEF IInv, TypeOK
  <2>3. (rr + step) % Len(instances) \in 0 .. Len(instances) - 1
    BY <2>2
  <2> QED BY <2>1, <2>3
<1>5. /\ instanceConn'[i] = n
      /\ Connected' = Connected \union {i}
      /\ NoConnectionLeak'
      /\ \A d \in InFlight : calls[d].conn \in openConns' =>
             instanceConn'[calls[d].id] = calls[d].conn
  BY <1>3, GetOrCreateConnSafe
<1>6. LeaseIsCached'
  BY <1>2, <1>3, <1>5, NewLeaseSafe
<1>7. ListCoversCache'
  <2>1. Len(instances) \in Nat \ {0}
    BY <1>4 DEF IInv, TypeOK
  <2>2. rr' < Len(instances)
    BY <1>4, <2>1
  <2>3. i \in Listed
    BY <1>4, <2>1, LenProperties DEF IInv, TypeOK, Listed, ToSet
  <2> QED BY <1>3, <1>5, <2>2, <2>3 DEF IInv, ListCoversCache, Listed
<1> QED BY <1>1, <1>3, <1>5, <1>6, <1>7
        DEF IInv, OneSessionPerInstance, SnapshotIsList, ClosedForGood

\* GetConnectionForKey keeps the invariant, from the binding and from the scan.
LEMMA StickySafe ==
  ASSUME IInv, NEW c \in Calls, NEW k \in Keys, CallSticky(c, k)
  PROVE  IInv'
<1> USE NullsAreFresh
<1>1. TypeOK'
  BY NextType DEF IInv, Next, ListCoversCache
<1>2. PICK i \in InstanceIDs, n \in Conns :
        /\ GetConnectionForKey(k, i, n)
        /\ calls' = [calls EXCEPT ![c] = Lease(k, i, n)]
  BY DEF CallSticky
<1>3. calls[c] = Idle /\ UNCHANGED snapshot
  BY DEF CallSticky
<1>4. CASE ReuseBinding(k, i, n)
  <2>1. n = instanceConn[i] /\ UNCHANGED poolVars
    BY <1>4 DEF ReuseBinding
  <2>2. LeaseIsCached'
    <3>1. \A d \in InFlight : calls[d].conn \in openConns' =>
             instanceConn'[calls[d].id] = calls[d].conn
      BY <2>1 DEF IInv, LeaseIsCached, poolVars
    <3> QED BY <1>2, <1>3, <2>1, <3>1, NewLeaseSafe DEF poolVars
  <2> QED BY <1>1, <1>3, <2>1, <2>2
          DEF IInv, poolVars, OneSessionPerInstance, NoConnectionLeak, Connected,
              ListCoversCache, Listed, SnapshotIsList, ClosedForGood
<1>5. CASE BindFreeInstance(k, i, n)
  <2>1. /\ ~closed
        /\ ~IsInstanceAssignedToOtherKey(i, k)
        /\ GetOrCreateConn(i, n)
        /\ keyToID' = [keyToID EXCEPT ![k] = i]
        /\ UNCHANGED <<instances, rr, closed>>
    BY <1>5 DEF BindFreeInstance
  <2>2. /\ instanceConn'[i] = n
        /\ Connected' = Connected \union {i}
        /\ NoConnectionLeak'
        /\ \A d \in InFlight : calls[d].conn \in openConns' =>
               instanceConn'[calls[d].id] = calls[d].conn
    BY <2>1, GetOrCreateConnSafe
  <2>3. LeaseIsCached'
    BY <1>2, <1>3, <2>2, NewLeaseSafe
  <2>4. OneSessionPerInstance'
    BY <2>1 DEF IInv, TypeOK, OneSessionPerInstance, IsInstanceAssignedToOtherKey
  <2>5. i \in Listed
    BY <1>5, LenProperties DEF BindFreeInstance, IInv, TypeOK, Listed, ToSet
  <2>6. ListCoversCache'
    BY <2>1, <2>2, <2>5 DEF IInv, ListCoversCache, Listed
  <2> QED BY <1>1, <1>3, <2>1, <2>2, <2>3, <2>4, <2>6
          DEF IInv, SnapshotIsList, ClosedForGood
<1> QED BY <1>2, <1>4, <1>5 DEF GetConnectionForKey

\* The list OnBackendFailure leaves misses the failed instance and nothing else, and
\* its index is a position of it.
LEMMA RemoveInstanceFacts ==
  ASSUME IInv, NEW i, RemoveInstance(i)
  PROVE  /\ IsInjective(instances')
         /\ Listed' = Listed \ {i}
         /\ rr' < Len(instances') \/ rr' = 0
<1>1. CASE i \in Listed
  <2>1. PICK p \in 1 .. Len(instances) :
          /\ instances[p] = i
          /\ instances' = RemoveAt(instances, p)
          /\ ResetIndex(instances')
    BY <1>1 DEF RemoveInstance
  <2>2. IsInjective(instances') /\ ToSet(instances') = ToSet(instances) \ {i}
    BY <2>1, RemoveAtFacts DEF IInv, TypeOK, ListCoversCache
  <2>3. instances' \in Seq(InstanceIDs)
    BY RemoveInstanceType DEF IInv, ListCoversCache
  <2>4. rr' < Len(instances') \/ rr' = 0
    BY <2>1, <2>3 DEF ResetIndex, IInv, TypeOK
  <2> QED BY <2>2, <2>4 DEF Listed
<1>2. CASE i \notin Listed
  BY <1>2 DEF RemoveInstance, Listed, IInv, ListCoversCache
<1> QED BY <1>1, <1>2

\* OnBackendFailure keeps the invariant for a report of any lease, however late.
LEMMA FailureSafe ==
  ASSUME IInv, NEW c \in Calls, CallFails(c)
  PROVE  IInv'
<1> USE NullsAreFresh
<1>1. TypeOK'
  BY NextType DEF IInv, Next, ListCoversCache
<1> DEFINE i == calls[c].id
<1>2. PICK unregisters \in BOOLEAN : OnBackendFailure(calls[c].key, i, unregisters)
  BY DEF CallFails
<1>3. /\ instanceConn' = [j \in InstanceIDs |-> IF j = i THEN NoConn ELSE instanceConn[j]]
      /\ openConns' = openConns \ {instanceConn[i]}
      /\ keyToID' = IF calls[c].key = NoKey THEN keyToID
                    ELSE [keyToID EXCEPT ![calls[c].key] = NoInstance]
      /\ RemoveInstance(i)
      /\ calls' = [calls EXCEPT ![c] = Idle]
      /\ UNCHANGED <<closed, snapshot>>
  BY <1>2 DEF OnBackendFailure, Disconnect, CallFails
<1>4. i \in InstanceIDs
  BY DEF CallFails, IInv, TypeOK, Leases
<1> HIDE DEF i
<1>5. /\ Connected' = Connected \ {i}
      /\ \A j \in InstanceIDs \ {i} : instanceConn'[j] = instanceConn[j]
  BY <1>3, <1>4 DEF IInv, TypeOK, Connected
<1>6. OneSessionPerInstance'
  BY <1>3 DEF IInv, TypeOK, OneSessionPerInstance
<1>7. NoConnectionLeak'
  <2>1. openConns' = {instanceConn[j] : j \in Connected'}
    BY <1>3, <1>4, <1>5 DEF IInv, TypeOK, NoConnectionLeak, Connected
  <2>2. \A j \in Connected' : instanceConn'[j] = instanceConn[j]
    BY <1>5 DEF Connected
  <2> QED BY <1>5, <2>1, <2>2 DEF IInv, NoConnectionLeak
<1>8. LeaseIsCached'
  <2>1. SUFFICES ASSUME NEW d \in InFlight', calls'[d].conn \in openConns'
                 PROVE  instanceConn'[calls'[d].id] = calls'[d].conn
    BY DEF LeaseIsCached
  <2>2. d \in InFlight /\ calls'[d] = calls[d]
    BY <1>3 DEF InFlight, IInv, TypeOK
  <2>3. calls[d].id \in InstanceIDs
    BY <2>2 DEF IInv, TypeOK, InFlight, Leases
  <2>4. instanceConn[calls[d].id] = calls[d].conn /\ calls[d].conn # instanceConn[i]
    BY <1>3, <2>1, <2>2 DEF IInv, LeaseIsCached
  <2> QED BY <1>5, <2>2, <2>3, <2>4
<1>9. /\ IsInjective(instances')
      /\ Listed' = Listed \ {i}
      /\ rr' < Len(instances') \/ rr' = 0
  BY <1>3, RemoveInstanceFacts
<1>10. ListCoversCache'
  BY <1>5, <1>9 DEF IInv, ListCoversCache
<1>11. ClosedForGood'
  BY <1>3, <1>5 DEF IInv, TypeOK, ClosedForGood
<1> QED BY <1>1, <1>3, <1>6, <1>7, <1>8, <1>10, <1>11 DEF IInv, SnapshotIsList

\* Close keeps the invariant.
LEMMA CloseSafe == IInv /\ Shutdown => IInv'
<1> SUFFICES ASSUME IInv, Shutdown PROVE IInv'
  OBVIOUS
<1>1. TypeOK'
  BY NextType DEF IInv, Next, ListCoversCache
<1>2. Connected' = {} /\ \A k \in Keys : keyToID'[k] = NoInstance
  BY DEF Shutdown, Close, Disconnect, Connected
<1>3. openConns' = {}
  BY DEF Shutdown, Close, Disconnect, IInv, NoConnectionLeak
<1>4. UNCHANGED <<instances, rr, snapshot, calls>>
  BY DEF Shutdown, Close, Disconnect
<1> QED BY <1>1, <1>2, <1>3, <1>4
        DEF IInv, OneSessionPerInstance, NoConnectionLeak, LeaseIsCached,
            ListCoversCache, SnapshotIsList, ClosedForGood

\* The invariant is inductive.
LEMMA NextSafe == IInv /\ [Next]_vars => IInv'
<1> SUFFICES ASSUME IInv, [Next]_vars PROVE IInv'
  OBVIOUS
<1>0. TypeOK'
  BY NextType DEF IInv, ListCoversCache
<1>1. CASE FetchInstances
  <2>1. IsInjective(snapshot')
    BY <1>1, ListingFacts DEF FetchInstances, IInv
  <2> QED BY <1>0, <1>1, <2>1
          DEF FetchInstances, poolVars, IInv, OneSessionPerInstance, NoConnectionLeak,
              Connected, LeaseIsCached, InFlight, ListCoversCache, Listed,
              SnapshotIsList, ClosedForGood
<1>2. CASE ApplyInstances
  BY <1>2, ApplySafe
<1>3. ASSUME NEW c \in Calls, CallRoundRobin(c) PROVE IInv'
  BY <1>3, RoundRobinSafe
<1>4. ASSUME NEW c \in Calls, NEW k \in Keys, CallSticky(c, k) PROVE IInv'
  BY <1>4, StickySafe
<1>5. ASSUME NEW k \in Keys, CallRefused(k) PROVE IInv'
  <2>1. /\ keyToID' = [keyToID EXCEPT ![k] = NoInstance]
        /\ UNCHANGED <<instances, instanceConn, rr, closed, openConns, snapshot, calls>>
    BY <1>5 DEF CallRefused, RefuseKey
  <2> QED BY <1>0, <2>1
          DEF IInv, TypeOK, OneSessionPerInstance, NoConnectionLeak, Connected,
              LeaseIsCached, InFlight, ListCoversCache, Listed, SnapshotIsList,
              ClosedForGood
<1>6. ASSUME NEW c \in Calls, CallFails(c) PROVE IInv'
  BY <1>6, FailureSafe
<1>7. ASSUME NEW c \in Calls, CallEnds(c) PROVE IInv'
  <2>1. LeaseIsCached'
    BY <1>7 DEF CallEnds, poolVars, IInv, TypeOK, LeaseIsCached, InFlight
  <2> QED BY <1>0, <1>7, <2>1
          DEF CallEnds, poolVars, IInv, OneSessionPerInstance, NoConnectionLeak,
              Connected, ListCoversCache, Listed, SnapshotIsList, ClosedForGood
<1>8. CASE Shutdown
  BY <1>8, CloseSafe
<1>9. ASSUME NEW i \in InstanceIDs, Register(i) \/ Expire(i) PROVE IInv'
  BY <1>0, <1>9
     DEF Register, Expire, poolVars, IInv, OneSessionPerInstance, NoConnectionLeak,
         Connected, LeaseIsCached, InFlight, ListCoversCache, Listed, SnapshotIsList,
         ClosedForGood
<1>10. CASE UNCHANGED vars
  BY <1>0, <1>10
     DEF vars, poolVars, IInv, OneSessionPerInstance, NoConnectionLeak,
         Connected, LeaseIsCached, InFlight, ListCoversCache, Listed, SnapshotIsList,
         ClosedForGood
<1> QED BY <1>1, <1>2, <1>3, <1>4, <1>5, <1>6, <1>7, <1>8, <1>9, <1>10 DEF Next

\* The inductive invariant of connection_pool.go holds in every reachable state, for any
\* sets of instances, sessions, connections and calls.
THEOREM Safety == Spec => []IInv
BY InitSafe, NextSafe, PTL DEF Spec

\* Every variable of the pool keeps its type.
THEOREM TypeCorrect == Spec => []TypeOK
BY Safety, PTL DEF IInv

\* No two sessions are ever bound to one instance (GetConnectionForKey, lines 167-179).
THEOREM OneSessionPerInstanceHolds == Spec => []OneSessionPerInstance
BY Safety, PTL DEF IInv

\* The open connections are exactly the cached ones, each of one instance.
THEOREM NoConnectionLeakHolds == Spec => []NoConnectionLeak
BY Safety, PTL DEF IInv

\* A call whose connection is still open holds the cached connection of its instance.
THEOREM LeaseIsCachedHolds == Spec => []LeaseIsCached
BY Safety, PTL DEF IInv

\* Only listed instances are connected, the list has no duplicates and p.rr is a
\* position of it.
THEOREM ListCoversCacheHolds == Spec => []ListCoversCache
BY Safety, PTL DEF IInv

\* A closed pool never caches or binds anything again.
THEOREM ClosedForGoodHolds == Spec => []ClosedForGood
BY Safety, PTL DEF IInv

-----------------------------------------------------------------------------
(* Action properties *)

\* A session leaves its instance only when the connection is lost or a call of its own
\* reports a failure.
THEOREM BindingIsStickyHolds == Spec => BindingIsSticky
<1> DEFINE Sticky ==
      \A k \in Keys : keyToID[k] # NoInstance /\ keyToID'[k] # keyToID[k] =>
        \/ instanceConn[keyToID[k]] = NoConn
        \/ instanceConn'[keyToID[k]] = NoConn
        \/ \E c \in InFlight : calls[c].key = k /\ calls'[c] = Idle
<1>1. IInv /\ [Next]_vars => [Sticky]_vars
  <2>1. SUFFICES ASSUME IInv, Next, NEW k \in Keys,
                        keyToID[k] # NoInstance, keyToID'[k] # keyToID[k]
                 PROVE  \/ instanceConn[keyToID[k]] = NoConn
                        \/ instanceConn'[keyToID[k]] = NoConn
                        \/ \E c \in InFlight : calls[c].key = k /\ calls'[c] = Idle
    OBVIOUS
  <2>2. keyToID[k] \in InstanceIDs
    BY <2>1 DEF IInv, TypeOK
  <2>3. CASE ApplyInstances
    <3>1. keyToID[k] \in Connected \ ToSet(snapshot)
      BY <2>1, <2>3 DEF ApplyInstances, Disconnect, Gone
    <3> QED BY <2>2, <2>3, <3>1 DEF ApplyInstances, Disconnect, Gone
  <2>4. ASSUME NEW c \in Calls, NEW q \in Keys, CallSticky(c, q)
        PROVE  instanceConn[keyToID[k]] = NoConn
    <3>1. q = k /\ ~HasLiveBinding(k)
      BY <2>1, <2>4
         DEF CallSticky, GetConnectionForKey, ReuseBinding, BindFreeInstance, poolVars,
             IInv, TypeOK
    <3> QED BY <2>1, <2>2, <3>1 DEF HasLiveBinding, Connected
  <2>5. ASSUME NEW q \in Keys, CallRefused(q) PROVE instanceConn[keyToID[k]] = NoConn
    <3>1. q = k /\ ~HasLiveBinding(k)
      BY <2>1, <2>5 DEF CallRefused, RefuseKey, IInv, TypeOK
    <3> QED BY <2>1, <2>2, <3>1 DEF HasLiveBinding, Connected
  <2>6. ASSUME NEW c \in Calls, CallFails(c)
        PROVE  \E d \in InFlight : calls[d].key = k /\ calls'[d] = Idle
    <3>1. c \in InFlight /\ calls'[c] = Idle
      BY <2>1, <2>6 DEF CallFails, InFlight, IInv, TypeOK
    <3>2. calls[c].key = k
      BY <2>1, <2>6 DEF CallFails, OnBackendFailure, Disconnect, IInv, TypeOK
    <3> QED BY <3>1, <3>2
  <2>7. CASE Shutdown
    BY <2>2, <2>7 DEF Shutdown, Close, Disconnect, Connected
  <2> QED BY <2>1, <2>3, <2>4, <2>5, <2>6, <2>7
          DEF Next, FetchInstances, poolVars, CallRoundRobin, GetConnectionRoundRobin,
              CallEnds, Register, Expire
<1> QED BY <1>1, Safety, PTL DEF Spec, BindingIsSticky

\* No step takes the connection of a listed instance away, but Close.
LEMMA KeptConnections ==
  IInv /\ Next =>
    \A i \in Connected : instanceConn'[i] # instanceConn[i] =>
      closed' \/ i \notin ToSet(instances')
<1>1. SUFFICES ASSUME IInv, Next, NEW i \in Connected,
                      instanceConn'[i] # instanceConn[i]
               PROVE  closed' \/ i \notin ToSet(instances')
  OBVIOUS
<1>2. i \in InstanceIDs /\ instanceConn[i] # NoConn
  BY DEF Connected
<1>3. CASE ApplyInstances
  BY <1>1, <1>2, <1>3 DEF ApplyInstances, Disconnect, Gone
<1>4. ASSUME NEW j \in InstanceIDs, NEW n \in Conns, GetOrCreateConn(j, n)
      PROVE  FALSE
  BY <1>1, <1>2, <1>4 DEF GetOrCreateConn, IInv, TypeOK
<1>5. ASSUME NEW c \in Calls, CallFails(c) PROVE i \notin ToSet(instances')
  <2>1. i = calls[c].id
    BY <1>1, <1>2, <1>5 DEF CallFails, OnBackendFailure, Disconnect, IInv, TypeOK
  <2>2. RemoveInstance(i)
    BY <1>5, <2>1 DEF CallFails, OnBackendFailure
  <2> QED BY <1>1, <2>2, RemoveInstanceFacts DEF Listed
<1>6. CASE Shutdown
  BY <1>6 DEF Shutdown, Close, Disconnect
<1>7. ASSUME NEW c \in Calls, CallRoundRobin(c) PROVE FALSE
  BY <1>4, <1>7 DEF CallRoundRobin, GetConnectionRoundRobin
<1>8. ASSUME NEW c \in Calls, NEW k \in Keys, CallSticky(c, k) PROVE FALSE
  BY <1>1, <1>4, <1>8
     DEF CallSticky, GetConnectionForKey, ReuseBinding, BindFreeInstance, poolVars
<1> QED BY <1>1, <1>3, <1>5, <1>6, <1>7, <1>8
        DEF Next, FetchInstances, poolVars, CallRefused, RefuseKey, CallEnds,
            Register, Expire

\* A connection is closed only when its instance leaves the list or the pool is closed.
THEOREM DisconnectedOnlyWhenDelistedHolds == Spec => DisconnectedOnlyWhenDelisted
<1> DEFINE Kept ==
      \A i \in Connected : instanceConn'[i] # instanceConn[i] =>
        closed' \/ i \notin ToSet(instances')
<1>1. IInv /\ [Next]_vars => [Kept]_vars
  BY KeptConnections
<1> QED BY <1>1, Safety, PTL DEF Spec, DisconnectedOnlyWhenDelisted

-----------------------------------------------------------------------------
(* The pool implements SessionAffinity *)

\* The calls in flight as SessionAffinity sees them.
Users == {<<calls[c].key, calls[c].id>> : c \in InFlight}

\* A call that starts adds its session and instance to the users of the pool.
LEMMA UsersAfterStart ==
  ASSUME TypeOK, NEW c \in Calls, calls[c] = Idle,
         NEW k \in Keys \union {NoKey}, NEW i \in InstanceIDs, NEW n \in Conns,
         calls' = [calls EXCEPT ![c] = Lease(k, i, n)]
  PROVE  Users' = Users \union {<<k, i>>}
<1>0. Lease(k, i, n) # Idle
  BY NullsAreFresh DEF Lease
<1>1. InFlight' = InFlight \union {c} /\ c \notin InFlight
  BY <1>0 DEF TypeOK, InFlight
<1>2. \A d \in InFlight : calls'[d] = calls[d]
  BY <1>1 DEF TypeOK, InFlight
<1>3. calls'[c].key = k /\ calls'[c].id = i
  BY DEF TypeOK, Lease
<1> QED BY <1>1, <1>2, <1>3 DEF Users

\* A call that ends may leave another one of its session on its instance.
LEMMA UsersAfterEnd ==
  ASSUME TypeOK, NEW c \in InFlight, calls' = [calls EXCEPT ![c] = Idle]
  PROVE  /\ <<calls[c].key, calls[c].id>> \in Users
         /\ Users' \in {Users, Users \ {<<calls[c].key, calls[c].id>>}}
<1>1. InFlight' = InFlight \ {c} /\ c \in Calls
  BY DEF TypeOK, InFlight
<1>2. \A d \in InFlight \ {c} : calls'[d] = calls[d]
  BY <1>1 DEF TypeOK, InFlight
<1>3. Users' = {<<calls[d].key, calls[d].id>> : d \in InFlight \ {c}}
  BY <1>1, <1>2 DEF Users
<1>4. Users = {<<calls[d].key, calls[d].id>> : d \in InFlight \ {c}}
                \union {<<calls[c].key, calls[c].id>>}
  BY DEF Users
<1> QED BY <1>3, <1>4

\* The pool implements SessionAffinity: its initial states are initial there and each of
\* its steps is a step there or a stutter.
THEOREM ImplementsAffinityHolds == Spec => ImplementsAffinity
<1> USE NullsAreFresh
<1>1. Init => Affinity!Init
  BY DEF Init, Affinity!Init, Connected, InFlight
<1>2. IInv /\ [Next]_vars => [Affinity!Next]_(Affinity!vars)
  <2> SUFFICES ASSUME IInv, [Next]_vars PROVE Affinity!Next \/ UNCHANGED Affinity!vars
    OBVIOUS
  <2>0. TypeOK
    BY DEF IInv
  <2>1. CASE FetchInstances \/ UNCHANGED vars
    BY <2>1 DEF FetchInstances, vars, poolVars, Affinity!vars, Connected, InFlight
  <2>2. CASE ApplyInstances
    <3> DEFINE gone == Connected \ ToSet(snapshot)
    <3>1. /\ instanceConn' = [i \in InstanceIDs |->
                                IF i \in gone THEN NoConn ELSE instanceConn[i]]
          /\ keyToID' = [k \in Keys |->
                          IF keyToID[k] \in gone THEN NoInstance ELSE keyToID[k]]
          /\ UNCHANGED <<closed, calls>>
      BY <2>2 DEF ApplyInstances, Disconnect, Gone
    <3>2. Connected' = Connected \ gone
      BY <3>1 DEF Connected
    <3>3. Affinity!Vanish(gone)
      BY <3>1, <3>2 DEF Affinity!Vanish, InFlight
    <3> QED BY <3>3 DEF Affinity!Next
  <2>3. ASSUME NEW c \in Calls, CallRoundRobin(c) PROVE Affinity!Next
    <3>1. PICK i \in InstanceIDs, n \in Conns :
            /\ GetConnectionRoundRobin(i, n)
            /\ calls' = [calls EXCEPT ![c] = Lease(NoKey, i, n)]
      BY <2>3 DEF CallRoundRobin
    <3>2. Connected' = Connected \union {i}
      BY <3>1, GetOrCreateConnSafe DEF GetConnectionRoundRobin
    <3>3. Users' = Users \union {<<NoKey, i>>}
      BY <2>0, <2>3, <3>1, UsersAfterStart DEF CallRoundRobin
    <3>4. Affinity!Pass(i)
      BY <3>1, <3>2, <3>3 DEF Affinity!Pass, Users, GetConnectionRoundRobin
    <3> QED BY <3>4 DEF Affinity!Next
  <2>4. ASSUME NEW c \in Calls, NEW k \in Keys, CallSticky(c, k) PROVE Affinity!Next
    <3>1. PICK i \in InstanceIDs, n \in Conns :
            /\ GetConnectionForKey(k, i, n)
            /\ calls' = [calls EXCEPT ![c] = Lease(k, i, n)]
      BY <2>4 DEF CallSticky
    <3>2. Users' = Users \union {<<k, i>>}
      BY <2>0, <2>4, <3>1, UsersAfterStart DEF CallSticky
    <3>3. CASE ReuseBinding(k, i, n)
      <4>1. Affinity!Visit(k)
        BY <3>2, <3>3
           DEF Affinity!Visit, Affinity!AtHome, Users, ReuseBinding, HasLiveBinding,
               poolVars, Connected
      <4> QED BY <4>1 DEF Affinity!Next
    <3>4. CASE BindFreeInstance(k, i, n)
      <4>1. Connected' = Connected \union {i}
        BY <3>4, GetOrCreateConnSafe DEF BindFreeInstance
      <4>2. keyToID[k] \notin Connected
        BY <3>4 DEF BindFreeInstance, HasLiveBinding, Connected
      <4>3. Affinity!Settle(k, i)
        BY <3>2, <3>4, <4>1, <4>2
           DEF Affinity!Settle, Affinity!AtHome, Users, BindFreeInstance,
               IsInstanceAssignedToOtherKey
      <4> QED BY <4>3 DEF Affinity!Next
    <3> QED BY <3>1, <3>3, <3>4 DEF GetConnectionForKey
  <2>5. ASSUME NEW k \in Keys, CallRefused(k) PROVE Affinity!Next
    <3>1. keyToID[k] \notin Connected
      BY <2>5 DEF CallRefused, RefuseKey, HasLiveBinding, Connected
    <3>2. Affinity!Refuse(k)
      BY <2>5, <3>1
         DEF Affinity!Refuse, Affinity!AtHome, CallRefused, RefuseKey, Connected, InFlight
    <3> QED BY <3>2 DEF Affinity!Next
  <2>6. ASSUME NEW c \in Calls, CallFails(c) PROVE Affinity!Next
    <3> DEFINE u == <<calls[c].key, calls[c].id>>
    <3>1. PICK unregisters \in BOOLEAN :
            OnBackendFailure(calls[c].key, calls[c].id, unregisters)
      BY <2>6 DEF CallFails
    <3>2. c \in InFlight /\ calls' = [calls EXCEPT ![c] = Idle]
      BY <2>6 DEF CallFails, InFlight
    <3>3. u \in Users /\ Users' \in {Users, Users \ {u}}
      BY <2>0, <3>2, UsersAfterEnd
    <3>4. u \in (Keys \union {NoKey}) \X InstanceIDs
      BY <2>0, <3>2 DEF TypeOK, InFlight, Leases
    <3>5. Connected' = Connected \ {calls[c].id}
      BY <2>0, <3>1 DEF OnBackendFailure, Disconnect, Connected, TypeOK
    <3>6. keyToID' = [k \in Keys |-> IF k = calls[c].key THEN NoInstance ELSE keyToID[k]]
      <4>1. keyToID' = IF calls[c].key = NoKey THEN keyToID
                       ELSE [keyToID EXCEPT ![calls[c].key] = NoInstance]
        BY <3>1 DEF OnBackendFailure
      <4>2. keyToID = [k \in Keys |-> keyToID[k]]
        BY <2>0 DEF TypeOK
      <4>3. NoKey \notin Keys
        BY NullsAreFresh
      <4>4. CASE calls[c].key = NoKey
        BY <4>1, <4>2, <4>3, <4>4
      <4>5. CASE calls[c].key # NoKey
        BY <4>1, <4>2, <4>5
      <4> QED BY <4>4, <4>5
    <3>7. PICK v \in (Keys \union {NoKey}) \X InstanceIDs : v = u
      BY <3>4
    <3>8. v[1] = calls[c].key /\ v[2] = calls[c].id
      BY <3>7
    <3>9. Affinity!Fail(v)
      BY <3>1, <3>3, <3>5, <3>6, <3>7, <3>8 DEF Affinity!Fail, Users, OnBackendFailure, Disconnect
    <3> QED BY <3>9 DEF Affinity!Next
  <2>7. ASSUME NEW c \in Calls, CallEnds(c) PROVE Affinity!Next \/ UNCHANGED Affinity!vars
    <3> DEFINE u == <<calls[c].key, calls[c].id>>
    <3>1. c \in InFlight /\ calls' = [calls EXCEPT ![c] = Idle] /\ UNCHANGED poolVars
      BY <2>7 DEF CallEnds, InFlight
    <3>2. Users' \in {Users, Users \ {u}}
      BY <2>0, <3>1, UsersAfterEnd
    <3>3. u \in (Keys \union {NoKey}) \X InstanceIDs
      BY <2>0, <3>1 DEF TypeOK, InFlight, Leases
    <3>4. UNCHANGED <<keyToID, Connected, closed>>
      BY <3>1 DEF poolVars, Connected
    <3>5. CASE Users' = Users
      BY <3>4, <3>5 DEF Affinity!vars, Users
    <3>6. CASE Users' = Users \ {u}
      <4>1. PICK v \in (Keys \union {NoKey}) \X InstanceIDs : v = u
        BY <3>3
      <4>2. Affinity!Leave(v)
        BY <3>4, <3>6, <4>1 DEF Affinity!Leave, Users
      <4> QED BY <4>2 DEF Affinity!Next
    <3> QED BY <3>2, <3>5, <3>6
  <2>8. CASE Shutdown
    <3>1. Affinity!Close
      BY <2>8 DEF Affinity!Close, Shutdown, Close, Disconnect, Connected, InFlight
    <3> QED BY <3>1 DEF Affinity!Next
  <2>9. ASSUME NEW i \in InstanceIDs, Register(i) \/ Expire(i)
        PROVE  UNCHANGED Affinity!vars
    BY <2>9 DEF Register, Expire, poolVars, Affinity!vars, Connected, InFlight
  <2> QED BY <2>1, <2>2, <2>3, <2>4, <2>5, <2>6, <2>7, <2>8, <2>9 DEF Next
<1> QED BY <1>1, <1>2, Safety, PTL DEF Spec, ImplementsAffinity, Affinity!Spec

=============================================================================
