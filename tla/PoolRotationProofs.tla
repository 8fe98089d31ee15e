------------------------- MODULE PoolRotationProofs -------------------------
(***************************************************************************)
(* Proof that the rotation is even, for any list of instances and any      *)
(* traffic: the history of PoolRotation on top of what is proved of        *)
(* ConnectionPool.                                                         *)
(***************************************************************************)
EXTENDS PoolRotation, ConnectionPoolProofs

-----------------------------------------------------------------------------
(* The pool under the history *)

\* The history changes nothing of the pool.
LEMMA PoolUnderHistory == RotationSpec => []IInv
<1>1. RotationInit => IInv
  BY InitSafe DEF RotationInit
<1>2. IInv /\ [RotationNext]_<<vars, served>> => IInv'
  BY NextSafe DEF RotationNext
<1> QED BY <1>1, <1>2, PTL DEF RotationSpec

\* Only GetConnectionRoundRobin hands out a connection without a session.
LEMMA OnlyRoundRobinHandsOut ==
  ASSUME IInv, Next, NEW c \in Calls, HandedOut(c)
  PROVE  CallRoundRobin(c)
<1>0. calls[c] = Idle /\ calls'[c] # Idle /\ calls'[c].key = NoKey
      /\ calls \in [Calls -> Leases \union {Idle}]
  BY DEF HandedOut, IInv, TypeOK
<1>1. ASSUME NEW d \in Calls, NEW k \in Keys, CallSticky(d, k) PROVE FALSE
  <2>1. PICK i \in InstanceIDs, n \in Conns : calls' = [calls EXCEPT ![d] = Lease(k, i, n)]
    BY <1>1 DEF CallSticky
  <2>2. d = c
    BY <1>0, <2>1
  <2>3. calls'[c].key = k
    BY <1>0, <2>1, <2>2 DEF Lease
  <2> QED BY <1>0, <2>3, NullsAreFresh
<1>2. ASSUME NEW d \in Calls, CallFails(d) \/ CallEnds(d) PROVE FALSE
  BY <1>0, <1>2 DEF CallFails, CallEnds
<1>3. ASSUME NEW d \in Calls, CallRoundRobin(d) PROVE d = c
  BY <1>0, <1>3 DEF CallRoundRobin
<1> QED
  BY <1>0, <1>1, <1>2, <1>3
  DEF Next, FetchInstances, ApplyInstances, CallRefused, Shutdown, Register, Expire

\* While all of the list is connected, the instance at p.rr is handed out and p.rr moves
\* on by one: none is passed over.
LEMMA RotationTurn ==
  ASSUME IInv, AllConnected, NEW c \in Calls, CallRoundRobin(c)
  PROVE  /\ HandedOut(c) /\ \A d \in Calls : HandedOut(d) => d = c
         /\ ~closed /\ rr < Len(instances)
         /\ calls'[c].id = instances[rr + 1]
         /\ rr' = IF rr + 1 < Len(instances) THEN rr + 1 ELSE 0
         /\ UNCHANGED <<instances, instanceConn, closed>>
<1> DEFINE n == Len(instances)
<1>0. /\ n \in Nat /\ rr \in Nat /\ (rr < n \/ rr = 0)
      /\ calls \in [Calls -> Leases \union {Idle}]
      /\ instances \in Seq(InstanceIDs)
  BY DEF IInv, TypeOK, ListCoversCache
<1>1. PICK i \in InstanceIDs, m \in Conns :
        /\ GetConnectionRoundRobin(i, m)
        /\ calls' = [calls EXCEPT ![c] = Lease(NoKey, i, m)]
  BY DEF CallRoundRobin
<1>2. calls[c] = Idle
  BY DEF CallRoundRobin
<1>3. PICK step \in 0 .. n - 1 :
        LET At(s) == (rr + s) % n IN
        /\ instances[At(step) + 1] = i
        /\ \A s \in 0 .. step - 1 : DialMayFail(instances[At(s) + 1])
        /\ rr' = After(At(step))
  BY <1>1 DEF GetConnectionRoundRobin
<1>4. n > 0 /\ rr < n /\ (rr + 0) % n = rr
  BY <1>0, <1>3
<1>5. instances[rr + 1] \in Listed /\ instances[rr + 1] \in InstanceIDs
  BY <1>0, <1>4 DEF Listed, ToSet
<1>6. ~DialMayFail(instances[rr + 1])
  BY <1>5 DEF AllConnected, Connected, DialMayFail
<1>7. step = 0
  BY <1>3, <1>4, <1>6
<1>8. i = instances[rr + 1] /\ rr' = After(rr)
  BY <1>3, <1>4, <1>7
<1>9. After(rr) = IF rr + 1 < n THEN rr + 1 ELSE 0
  BY <1>0, <1>4 DEF After
<1>10. /\ ~closed /\ UNCHANGED <<instances, closed>> /\ GetOrCreateConn(i, m)
  BY <1>1 DEF GetConnectionRoundRobin
<1>11. UNCHANGED instanceConn
  BY <1>5, <1>8, <1>10 DEF GetOrCreateConn, AllConnected, Connected
<1>12. calls'[c] = Lease(NoKey, i, m) /\ \A d \in Calls : d # c => calls'[d] = calls[d]
  BY <1>0, <1>1
<1>13. calls'[c] # Idle /\ calls'[c].key = NoKey /\ calls'[c].id = i
  BY <1>12, NullsAreFresh DEF Lease
<1>14. HandedOut(c) /\ \A d \in Calls : HandedOut(d) => d = c
  BY <1>2, <1>12, <1>13 DEF HandedOut
<1> QED BY <1>4, <1>8, <1>9, <1>10, <1>11, <1>13, <1>14

\* A step that hands nothing out and leaves the list alone leaves p.rr alone, and nobody
\* has to be dialled after it who had not to before.
LEMMA QuietStep ==
  ASSUME IInv, AllConnected, [Next]_vars, instances' = instances,
         \A c \in Calls : ~HandedOut(c)
  PROVE  rr' = rr /\ (AllConnected' \/ closed')
<1>0. /\ rr \in Nat /\ Len(instances) \in Nat /\ (rr < Len(instances) \/ rr = 0)
      /\ instances \in Seq(InstanceIDs)
  BY DEF IInv, TypeOK, ListCoversCache
<1>1. CASE UNCHANGED vars
  BY <1>1 DEF vars, poolVars, AllConnected, Listed, Connected
<1>2. CASE Next
  <2>1. ASSUME ~closed' PROVE AllConnected'
    <3>1. SUFFICES ASSUME NEW i \in Listed PROVE i \in Connected'
      BY DEF AllConnected, Listed
    <3>2. i \in Connected
      BY DEF AllConnected
    <3>3. instanceConn'[i] = instanceConn[i]
      BY <1>2, <2>1, <3>2, KeptConnections DEF Listed
    <3> QED BY <3>2, <3>3 DEF Connected
  <2>2. rr' = rr
    <3>1. CASE ApplyInstances
      BY <1>0, <3>1 DEF ApplyInstances, ResetIndex
    <3>2. ASSUME NEW c \in Calls, CallRoundRobin(c) PROVE FALSE
      BY <3>2, RotationTurn
    <3>3. ASSUME NEW c \in Calls, CallFails(c) PROVE rr' = rr
      <4>1. RemoveInstance(calls[c].id)
        BY <3>3 DEF CallFails, OnBackendFailure
      <4>2. calls[c].id \notin Listed
        <5>1. Listed' = Listed \ {calls[c].id}
          BY <4>1, RemoveInstanceFacts
        <5> QED BY <5>1 DEF Listed
      <4> QED BY <4>1, <4>2 DEF RemoveInstance
    <3>4. ASSUME NEW c \in Calls, NEW k \in Keys, CallSticky(c, k) PROVE rr' = rr
      BY <3>4 DEF CallSticky, GetConnectionForKey, ReuseBinding, BindFreeInstance, poolVars
    <3> QED
      BY <1>2, <3>1, <3>2, <3>3, <3>4
      DEF Next, FetchInstances, poolVars, CallEnds, CallRefused, RefuseKey, Shutdown,
          Close, Register, Expire
  <2> QED BY <2>1, <2>2
<1> QED BY <1>1, <1>2

-----------------------------------------------------------------------------
(* The round *)

\* The instance at p.rr has not had its turn.
LEMMA NextIsNew ==
  ASSUME IInv, RoundAccount, rr < Len(instances)
  PROVE  instances[rr + 1] \notin served
<1>1. PICK s \in 0 .. Len(instances) :
        /\ s < Len(instances) \/ s = 0
        /\ served = {instances[p + 1] : p \in Turns(s)}
  BY DEF RoundAccount
<1>2. rr \in Nat /\ Len(instances) \in Nat /\ IsInjective(instances)
      /\ instances \in Seq(InstanceIDs)
  BY DEF IInv, TypeOK, ListCoversCache
<1>3. \A p \in Turns(s) : p # rr /\ p + 1 \in 1 .. Len(instances)
  BY <1>1, <1>2 DEF Turns
<1>4. rr + 1 \in 1 .. Len(instances)
  BY <1>2
<1>5. \A p \in Turns(s) : instances[p + 1] # instances[rr + 1]
  <2>1. TAKE p \in Turns(s)
  <2>2. p + 1 # rr + 1 /\ p + 1 \in 1 .. Len(instances)
    BY <1>2, <1>3 DEF Turns
  <2> QED BY <1>2, <1>4, <2>2 DEF IsInjective
<1> QED BY <1>1, <1>5

\* An empty round is in order wherever p.rr is.
LEMMA NewRound ==
  ASSUME IInv', served' = {}
  PROVE  RoundAccount'
<1>1. rr' \in Nat /\ Len(instances') \in Nat /\ (rr' < Len(instances') \/ rr' = 0)
  BY DEF IInv, TypeOK, ListCoversCache
<1>2. Turns(rr)' = {}
  BY <1>1 DEF Turns
<1>3. served' = {instances'[p + 1] : p \in Turns(rr)'} /\ rr' \in 0 .. Len(instances')
  BY <1>1, <1>2
<1> QED BY <1>1, <1>3 DEF RoundAccount

\* Every step keeps the account of the round.
LEMMA RoundStep ==
  IInv /\ RoundAccount /\ [RotationNext]_<<vars, served>> => RoundAccount'
<1> SUFFICES ASSUME IInv, RoundAccount, [RotationNext]_<<vars, served>>
             PROVE  RoundAccount'
  OBVIOUS
<1>0. /\ rr \in Nat /\ Len(instances) \in Nat /\ instances \in Seq(InstanceIDs)
      /\ IsInjective(instances)
  BY DEF IInv, TypeOK, ListCoversCache
<1>1. IInv'
  BY NextSafe DEF RotationNext
<1>2. CASE UNCHANGED <<vars, served>>
  BY <1>2 DEF vars, poolVars, RoundAccount, AllConnected, Listed, Connected, Turns
<1>3. CASE served' = {}
  BY <1>1, <1>3, NewRound
<1>4. CASE RotationNext /\ served' # {}
  <2>1. Next /\ instances' = instances /\ AllConnected
    BY <1>4 DEF RotationNext, RecordRound
  <2> DEFINE now == served \union {calls'[c].id : c \in {d \in Calls : HandedOut(d)}}
  <2>2. served' = now /\ now # Listed
    BY <1>4, <2>1 DEF RotationNext, RecordRound
  <2>3. PICK s \in 0 .. Len(instances) :
          /\ s < Len(instances) \/ s = 0
          /\ served = {instances[p + 1] : p \in Turns(s)}
    BY DEF RoundAccount
  <2>4. CASE \A c \in Calls : ~HandedOut(c)
    <3>1. served' = served
      BY <2>2, <2>4
    <3>2. rr' = rr /\ (AllConnected' \/ closed')
      BY <2>1, <2>4, QuietStep
    <3>3. Turns(s)' = Turns(s)
      BY <2>1, <3>2 DEF Turns
    <3> QED BY <2>1, <2>3, <3>1, <3>2, <3>3 DEF RoundAccount
  <2>5. ASSUME NEW c \in Calls, HandedOut(c) PROVE RoundAccount'
    <3>1. /\ \A d \in Calls : HandedOut(d) => d = c
          /\ rr < Len(instances)
          /\ calls'[c].id = instances[rr + 1]
          /\ rr' = IF rr + 1 < Len(instances) THEN rr + 1 ELSE 0
          /\ UNCHANGED <<instances, instanceConn>>
      BY <2>1, <2>5, OnlyRoundRobinHandsOut, RotationTurn
    <3>2. served' = served \union {instances[rr + 1]}
      BY <2>2, <2>5, <3>1
    <3>3. served' = {instances[p + 1] : p \in Turns(s) \union {rr}}
      BY <2>3, <3>2
    <3>4. AllConnected'
      BY <2>1, <3>1 DEF AllConnected, Listed, Connected
    <3>5. Turns(s) \union {rr} # 0 .. Len(instances) - 1
      <4>1. SUFFICES ASSUME Turns(s) \union {rr} = 0 .. Len(instances) - 1 PROVE FALSE
        OBVIOUS
      <4>2. served' = {instances[p + 1] : p \in 0 .. Len(instances) - 1}
        BY <3>3, <4>1
      <4>3. Listed = {instances[p] : p \in 1 .. Len(instances)}
        BY <1>0 DEF Listed, ToSet
      <4>4. \A p \in 1 .. Len(instances) : p - 1 \in 0 .. Len(instances) - 1 /\ (p - 1) + 1 = p
        BY <1>0
      <4>5. \A p \in 0 .. Len(instances) - 1 : p + 1 \in 1 .. Len(instances)
        BY <1>0
      <4>6. served' = Listed
        BY <4>2, <4>3, <4>4, <4>5
      <4> QED BY <2>2, <4>6
    <3>6. Turns(s)' = Turns(s) \union {rr}
      <4>1. Turns(s)' = IF s <= rr' THEN s .. rr' - 1
                        ELSE (s .. Len(instances) - 1) \union (0 .. rr' - 1)
        BY <3>1 DEF Turns
      <4>2. CASE s <= rr /\ rr + 1 < Len(instances)
        <5>1. Turns(s) \union {rr} = s .. rr
          BY <1>0, <4>2 DEF Turns
        <5> QED BY <1>0, <3>1, <4>1, <4>2, <5>1
      <4>3. CASE s <= rr /\ rr + 1 = Len(instances)
        <5>1. Turns(s) \union {rr} = s .. Len(instances) - 1
          BY <1>0, <4>3 DEF Turns
        <5>2. s # 0
          BY <3>5, <5>1
        <5> QED BY <1>0, <3>1, <4>1, <4>3, <5>1, <5>2
      <4>4. CASE s > rr
        <5>1. Turns(s) \union {rr} = (s .. Len(instances) - 1) \union (0 .. rr)
          BY <1>0, <4>4 DEF Turns
        <5>2. s # rr + 1
          BY <1>0, <2>3, <3>1, <3>5, <4>4, <5>1
        <5>3. rr + 1 < Len(instances) /\ s > rr + 1
          BY <1>0, <2>3, <3>1, <4>4, <5>2
        <5> QED BY <1>0, <3>1, <4>1, <5>1, <5>3
      <4> QED BY <1>0, <2>3, <3>1, <4>2, <4>3, <4>4
    <3> QED BY <2>3, <3>1, <3>3, <3>4, <3>6 DEF RoundAccount
  <2> QED BY <2>4, <2>5
<1> QED BY <1>2, <1>3, <1>4

\* The account of the round holds for any sets of instances, sessions and calls.
THEOREM RoundAccountHolds == RotationSpec => []RoundAccount
<1>1. RotationInit => RoundAccount
  BY DEF RotationInit, Init, RoundAccount, Turns
<1> QED BY <1>1, RoundStep, PoolUnderHistory, PTL DEF RotationSpec

\* Round robin is even: while the list stands and all of it is connected, nobody gets a
\* second turn before everybody had one (GetConnectionRoundRobin, lines 132-141).
THEOREM EvenRotationHolds == RotationSpec => EvenRotation
<1> DEFINE Even == \A c \in Calls : HandedOut(c) => calls'[c].id \notin served
<1>1. IInv /\ RoundAccount /\ [RotationNext]_<<vars, served>> => [Even]_<<vars, served>>
  <2>1. SUFFICES ASSUME IInv, RoundAccount, RotationNext, NEW c \in Calls, HandedOut(c)
                 PROVE  calls'[c].id \notin served
    OBVIOUS
  <2>2. CallRoundRobin(c)
    BY <2>1, OnlyRoundRobinHandsOut DEF RotationNext
  <2>3. CASE AllConnected
    BY <2>1, <2>2, <2>3, RotationTurn, NextIsNew
  <2>4. CASE ~AllConnected
    <3>1. ~closed
      BY <2>2 DEF CallRoundRobin, GetConnectionRoundRobin
    <3> QED BY <2>1, <2>4, <3>1 DEF RoundAccount
  <2> QED BY <2>3, <2>4
<1> QED BY <1>1, RoundAccountHolds, PoolUnderHistory, PTL DEF RotationSpec, EvenRotation

=============================================================================
