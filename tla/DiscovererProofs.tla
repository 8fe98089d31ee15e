-------------------------- MODULE DiscovererProofs --------------------------
(* Theorems about Discoverer, for any number of instances and any times. *)
EXTENDS Discoverer, TLAPS

-----------------------------------------------------------------------------
(* The states of one registration task *)

\* Sending a request leaves a task in a state it can be in (RegisterAsync).
LEMMA PostingIsProcess ==
    ASSUME NEW joined \in BOOLEAN, NEW tries \in 0 .. MaxTries - 1
    PROVE  Posting(joined, tries) \in Processes /\ Shaped(Posting(joined, tries))
  BY TimesAreNumbers DEF Processes, Posting, Nowhere, Delays, Shaped

\* A task that is down or has given up is in a state it can be in.
LEMMA IdleIsProcess ==
    ASSUME NEW pc \in {"down", "gaveUp"}
    PROVE  Idle(pc) \in Processes /\ Shaped(Idle(pc))
  BY TimesAreNumbers DEF Processes, Idle, Nowhere, Delays, Shaped

\* After an answer a task sleeps or has given up, and counts no try too many.
LEMMA AfterRegisterIsProcess ==
    ASSUME NEW p \in Processes, NEW b \in BOOLEAN
    PROVE  AfterRegister(p, b) \in Processes /\ Shaped(AfterRegister(p, b))
<1>1. p.joined \in BOOLEAN /\ p.tries \in 0 .. MaxTries - 1
  BY DEF Processes
<1>2. ASSUME NEW j \in BOOLEAN, NEW n \in 0 .. MaxTries - 1, NEW t \in Nat
      PROVE  Sleeping(j, n, t) \in Processes /\ Shaped(Sleeping(j, n, t))
  BY TimesAreNumbers DEF Sleeping, Processes, Nowhere, Delays, Shaped
<1>3. Idle("gaveUp") \in Processes /\ Shaped(Idle("gaveUp"))
  BY IdleIsProcess
<1>4. p.tries + 1 # MaxTries => p.tries + 1 \in 0 .. MaxTries - 1
  BY <1>1, TimesAreNumbers
<1> QED
  BY <1>1, <1>2, <1>3, <1>4, TimesAreNumbers DEF AfterRegister

\* A tick leaves a task whose timers are not due in a state it can be in.
LEMMA AgedIsProcess ==
    ASSUME NEW p \in Processes, Shaped(p), p.post # 0,
           p.pc \in {"posting", "waiting"} => p.timer > 0
    PROVE  Aged(p) \in Processes /\ Shaped(Aged(p))
  BY TimesAreNumbers DEF Aged, Processes, Nowhere, Delays, Shaped

\* The state of one task is replaced by another.
LEMMA OneProcess ==
    ASSUME TypeOK, ProcessShape, NEW i \in InstanceIDs, NEW p \in Processes, Shaped(p),
           process' = [process EXCEPT ![i] = p]
    PROVE  process' \in [InstanceIDs -> Processes] /\ ProcessShape'
  BY DEF TypeOK, ProcessShape, Shaped

-----------------------------------------------------------------------------
(* Types *)

\* Every variable keeps its type: no timer falls below zero, no process tries more
\* often than it may, no request is late (DiscovererRegistrationService.cs:71-116).
LEMMA TypeStep == TypeOK /\ ProcessShape /\ [Next]_vars => TypeOK' /\ ProcessShape'
<1> SUFFICES ASSUME TypeOK, ProcessShape, [Next]_vars
             PROVE  TypeOK' /\ ProcessShape'
  OBVIOUS
<1> USE TimesAreNumbers
<1>0. /\ \A i \in InstanceIDs : process[i] \in Processes /\ Shaped(process[i])
      /\ \A S \in SUBSET InstanceIDs : Seen(S) \in Listings \union {NoListing}
      /\ \A i \in InstanceIDs : Abandoned(i) \subseteq [id : InstanceIDs, left : Delays]
      /\ Present \subseteq InstanceIDs
  <2>1. \A i \in InstanceIDs : process[i] \in Processes /\ Shaped(process[i])
    BY DEF TypeOK, ProcessShape
  <2>2. ASSUME NEW S \in SUBSET InstanceIDs PROVE Seen(S) \in Listings \union {NoListing}
    <3>1. CASE listing = NoListing
      BY <3>1 DEF Seen
    <3>2. CASE listing \in Listings
      <4>1. [listing EXCEPT !.must = @ \intersect S, !.may = @ \union S] \in Listings
        BY <3>2 DEF Listings
      <4> QED
        BY <4>1 DEF Seen
    <3> QED
      BY <3>1, <3>2 DEF TypeOK
  <2>3. ASSUME NEW i \in InstanceIDs
        PROVE  Abandoned(i) \subseteq [id : InstanceIDs, left : Delays]
    BY <2>1 DEF Abandoned, Processes
  <2> QED
    BY <2>1, <2>2, <2>3 DEF Present
<1>1. ASSUME NEW i \in InstanceIDs, Start(i) PROVE TypeOK' /\ ProcessShape'
  <2>1. process' \in [InstanceIDs -> Processes] /\ ProcessShape'
    <3>1. Posting(FALSE, 0) \in Processes /\ Shaped(Posting(FALSE, 0))
      BY PostingIsProcess, 0 \in 0 .. MaxTries - 1
    <3> QED
      BY <1>1, <3>1, OneProcess DEF Start
  <2> QED
    BY <1>1, <2>1 DEF TypeOK, Start
<1>2. ASSUME NEW i \in InstanceIDs, Responds(i) PROVE TypeOK' /\ ProcessShape'
  <2>1. PICK b \in BOOLEAN : process' = [process EXCEPT ![i] = AfterRegister(process[i], b)]
    BY <1>2 DEF Responds
  <2>2. process' \in [InstanceIDs -> Processes] /\ ProcessShape'
    BY <1>0, <2>1, AfterRegisterIsProcess, OneProcess
  <2> QED
    BY <1>2, <2>2 DEF TypeOK, Responds
<1>3. ASSUME NEW i \in InstanceIDs, TimesOut(i) PROVE TypeOK' /\ ProcessShape'
  <2>1. process' = [process EXCEPT ![i] = AfterRegister(process[i], FALSE)]
    BY <1>3 DEF TimesOut
  <2>2. process' \in [InstanceIDs -> Processes] /\ ProcessShape'
    BY <1>0, <2>1, AfterRegisterIsProcess, OneProcess
  <2> QED
    BY <1>0, <1>3, <2>2 DEF TypeOK, TimesOut
<1>4. ASSUME NEW i \in InstanceIDs, Wakes(i) PROVE TypeOK' /\ ProcessShape'
  <2>1. process[i].joined \in BOOLEAN /\ process[i].tries \in 0 .. MaxTries - 1
    BY <1>0 DEF Processes
  <2>2. process' \in [InstanceIDs -> Processes] /\ ProcessShape'
    <3> DEFINE q == Posting(process[i].joined, process[i].tries)
    <3>1. q \in Processes /\ Shaped(q)
      BY <2>1, PostingIsProcess
    <3>2. process' = [process EXCEPT ![i] = q]
      BY <1>4 DEF Wakes
    <3> HIDE DEF q
    <3> QED
      BY <3>1, <3>2, OneProcess
  <2> QED
    BY <1>4, <2>2 DEF TypeOK, Wakes
<1>5. ASSUME NEW i \in InstanceIDs, Stops(i) PROVE TypeOK' /\ ProcessShape'
  <2>1. process' \in [InstanceIDs -> Processes] /\ ProcessShape'
    BY <1>5, IdleIsProcess, OneProcess DEF Stops
  <2> QED
    BY <1>0, <1>5, <2>1 DEF TypeOK, Stops
<1>6. ASSUME NEW i \in InstanceIDs, NEW x \in {"ok", "failed"}, process[i].post # Nowhere,
             process' = [process EXCEPT ![i] = Answered(@, x)]
      PROVE  process' \in [InstanceIDs -> Processes] /\ ProcessShape'
  <2> DEFINE q == Answered(process[i], x)
  <2>1. q \in Processes /\ Shaped(q)
    BY <1>0, <1>6 DEF Answered, Processes, Shaped
  <2> HIDE DEF q
  <2> QED
    BY <1>6, <2>1, OneProcess DEF q
<1>7. ASSUME NEW i \in InstanceIDs, RegisterInstance(i) PROVE TypeOK' /\ ProcessShape'
  <2>1. process' \in [InstanceIDs -> Processes] /\ ProcessShape'
    BY <1>6, <1>7 DEF RegisterInstance
  <2>2. ttl' \in [InstanceIDs -> 0 .. Ttl] /\ listing' \in Listings \union {NoListing}
    BY <1>0, <1>7 DEF RegisterInstance, WriteValue, TypeOK
  <2> QED
    BY <1>7, <2>1, <2>2 DEF TypeOK, RegisterInstance
<1>8. ASSUME NEW i \in InstanceIDs, RegisterFails(i) PROVE TypeOK' /\ ProcessShape'
  <2>1. process' \in [InstanceIDs -> Processes] /\ ProcessShape'
    BY <1>6, <1>8 DEF RegisterFails
  <2> QED
    BY <1>8, <2>1 DEF TypeOK, RegisterFails
<1>9. ASSUME UNCHANGED process PROVE process' \in [InstanceIDs -> Processes] /\ ProcessShape'
  BY <1>9 DEF TypeOK, ProcessShape
<1>10. ASSUME NEW i \in InstanceIDs, UnregisterInstance(i) PROVE TypeOK' /\ ProcessShape'
  <2>1. ttl' \in [InstanceIDs -> 0 .. Ttl] /\ listing' \in Listings \union {NoListing}
    BY <1>0, <1>10 DEF UnregisterInstance, DeleteValue, TypeOK
  <2> QED
    BY <1>9, <1>10, <2>1 DEF TypeOK, UnregisterInstance
<1>11. ASSUME NEW i \in InstanceIDs, GetValue(i) PROVE TypeOK' /\ ProcessShape'
  <2>1. listing \in Listings
    BY <1>11 DEF GetValue, TypeOK
  <2>2. Skip(i) \in Listings /\ Take(i) \in Listings
    BY <2>1 DEF Take, Skip, Listings
  <2>3. listing' \in Listings
    BY <1>11, <2>2 DEF GetValue
  <2> QED
    BY <1>9, <1>11, <2>3 DEF TypeOK, GetValue
<1>12. ASSUME NEW r \in stray, RegisterStray(r) PROVE TypeOK' /\ ProcessShape'
  <2>1. ttl' \in [InstanceIDs -> 0 .. Ttl] /\ listing' \in Listings \union {NoListing}
    BY <1>0, <1>12 DEF RegisterStray, WriteValue, TypeOK
  <2> QED
    BY <1>9, <1>12, <2>1 DEF TypeOK, RegisterStray
<1>13. ASSUME ListKeys PROVE TypeOK' /\ ProcessShape'
  BY <1>0, <1>9, <1>13 DEF ListKeys, TypeOK, Listings
<1>14. ASSUME ListingReturns PROVE TypeOK' /\ ProcessShape'
  <2>1. listing.found \subseteq InstanceIDs
    BY <1>14 DEF ListingReturns, TypeOK, Listings
  <2> QED
    BY <1>9, <1>14, <2>1 DEF ListingReturns, GetInstances, TypeOK
<1>15. ASSUME Tick PROVE TypeOK' /\ ProcessShape'
  <2>1. ASSUME NEW i \in InstanceIDs
        PROVE  Aged(process[i]) \in Processes /\ Shaped(Aged(process[i]))
    BY <1>0, <1>15, AgedIsProcess DEF Tick
  <2>2. process' \in [InstanceIDs -> Processes] /\ ProcessShape'
    BY <1>15, <2>1 DEF Tick, ProcessShape
  <2>3. ttl' \in [InstanceIDs -> 0 .. Ttl]
    <3>1. \A i \in InstanceIDs : ttl[i] \in 0 .. Ttl
      BY DEF TypeOK
    <3> QED
      BY <1>15, <3>1 DEF Tick, Expiring
  <2>4. stray' \subseteq [id : InstanceIDs, left : Delays]
    <3>1. ASSUME NEW r \in stray
          PROVE [r EXCEPT !.left = @ - 1] \in [id : InstanceIDs, left : Delays]
      <4>1. r \in [id : InstanceIDs, left : Delays] /\ r.left > 0
        BY <1>15 DEF Tick, TypeOK
      <4>2. r.left - 1 \in Delays
        BY <4>1 DEF Delays
      <4> QED
        BY <4>1, <4>2
    <3>2. stray' = {[r EXCEPT !.left = @ - 1] : r \in stray}
      BY <1>15 DEF Tick
    <3> QED
      BY <3>1, <3>2
  <2>5. listing' \in Listings \union {NoListing}
    BY <1>0, <1>15 DEF Tick
  <2> QED
    BY <1>15, <2>2, <2>3, <2>4, <2>5 DEF Tick, TypeOK
<1>16. CASE UNCHANGED vars
  BY <1>9, <1>16 DEF vars, TypeOK
<1> QED
  BY <1>1, <1>2, <1>3, <1>4, <1>5, <1>7, <1>8, <1>10, <1>11, <1>12, <1>13, <1>14, <1>15,
     <1>16 DEF Next, Task

\* TypeOK and the shape of the registration tasks hold whatever the times are
\* (DiscovererRegistrationService.cs, cache.go).
THEOREM TypeOKHolds == Spec => [](TypeOK /\ ProcessShape)
<1>1. Init => TypeOK /\ ProcessShape
  <2> QED
    BY IdleIsProcess, TimesAreNumbers DEF Init, TypeOK, ProcessShape
<1> QED
  BY <1>1, TypeStep, PTL DEF Spec

-----------------------------------------------------------------------------
(* The heartbeat *)

\* One step keeps the margin of every instance: it only shrinks with time, and a
\* registration restores it.
LEMMA MarginStep ==
    ASSUME HeartbeatInTime, TypeOK, ProcessShape, Margin, [Next]_vars
    PROVE  Margin'
<1> DEFINE Kept(i) ==
        LET p == process[i] IN
        kept[i] =>
            /\ p.pc = "waiting" => p.joined /\ ttl[i] > p.timer + MaxDelay
            /\ p.pc = "posting" /\ p.post # Nowhere => ttl[i] > p.post
            /\ p.pc = "posting" /\ p.post = Nowhere =>
                p.reply = "ok" /\ ttl[i] > p.timer + Heartbeat + MaxDelay
            /\ p.pc \notin {"down", "gaveUp"}
<1>0. /\ \A i \in InstanceIDs : Kept(i)
      /\ \A i \in InstanceIDs :
            process[i] \in Processes /\ Shaped(process[i]) /\ ttl[i] \in Nat /\ ttl[i] <= Ttl
      /\ kept \in [InstanceIDs -> BOOLEAN] /\ ttl \in [InstanceIDs -> 0 .. Ttl]
      /\ process \in [InstanceIDs -> Processes]
  BY TimesAreNumbers DEF Margin, TypeOK, ProcessShape
<1>1. SUFFICES ASSUME NEW j \in InstanceIDs PROVE Kept(j)'
  BY DEF Margin
<1> USE TimesAreNumbers DEF HeartbeatInTime
<1>2. ASSUME NEW i \in InstanceIDs, Start(i) PROVE Kept(j)'
  BY <1>0, <1>2 DEF Start, Posting, Nowhere, Shaped
<1>3. ASSUME NEW i \in InstanceIDs, Responds(i) PROVE Kept(j)'
  <2>1. CASE i # j
    BY <1>0, <1>3, <2>1 DEF Responds
  <2>2. CASE i = j
    <3>1. /\ process'[i] = AfterRegister(process[i], process[i].reply = "ok")
          /\ process[i].reply # "none" /\ ttl'[i] = ttl[i] /\ kept'[i] = kept[i]
      BY <1>0, <1>3 DEF Responds
    <3>2. process[i].pc = "posting" /\ process[i].post = Nowhere /\ process[i].timer \in Nat
      BY <1>0, <3>1 DEF Shaped, Processes
    <3>3. CASE kept[i]
      <4>1. process'[i] = Sleeping(TRUE, process[i].tries, Heartbeat)
        BY <1>0, <3>1, <3>2, <3>3 DEF AfterRegister
      <4>2. ttl[i] > Heartbeat + MaxDelay
        BY <1>0, <3>2, <3>3
      <4> QED
        BY <2>2, <3>1, <4>1, <4>2 DEF Sleeping
    <3> QED
      BY <2>2, <3>1, <3>3
  <2> QED
    BY <2>1, <2>2
<1>4. ASSUME NEW i \in InstanceIDs, TimesOut(i) PROVE Kept(j)'
  BY <1>0, <1>4 DEF TimesOut
<1>5. ASSUME NEW i \in InstanceIDs, Wakes(i) PROVE Kept(j)'
  BY <1>0, <1>5 DEF Wakes, Posting, Nowhere
<1>6. ASSUME NEW i \in InstanceIDs, Stops(i) PROVE Kept(j)'
  BY <1>0, <1>6 DEF Stops
<1>7. ASSUME NEW i \in InstanceIDs, RegisterInstance(i) PROVE Kept(j)'
  <2>1. CASE i # j
    BY <1>0, <1>7, <2>1 DEF RegisterInstance, WriteValue
  <2>2. CASE i = j
    <3>1. process'[i] = Answered(process[i], "ok") /\ ttl'[i] = Ttl
      BY <1>0, <1>7 DEF RegisterInstance, WriteValue
    <3>2. process[i].pc = "posting" /\ process[i].timer \in Nat /\ process[i].timer <= HttpTimeout
      BY <1>0, <1>7 DEF RegisterInstance, Shaped, Processes
    <3> QED
      BY <2>2, <3>1, <3>2 DEF Answered
  <2> QED
    BY <2>1, <2>2
<1>8. ASSUME NEW i \in InstanceIDs, RegisterFails(i) PROVE Kept(j)'
  BY <1>0, <1>8 DEF RegisterFails
<1>9. ASSUME NEW i \in InstanceIDs, UnregisterInstance(i) PROVE Kept(j)'
  BY <1>0, <1>9 DEF UnregisterInstance, DeleteValue
<1>10. ASSUME UNCHANGED <<ttl, process, kept>> PROVE Kept(j)'
  BY <1>0, <1>10
<1>11. ASSUME NEW r \in stray, RegisterStray(r) PROVE Kept(j)'
  <2>1. process'[j] = process[j] /\ kept'[j] = kept[j]
    BY <1>11 DEF RegisterStray
  <2>2. ttl'[j] \in {ttl[j], Ttl}
    BY <1>0, <1>11 DEF RegisterStray, WriteValue
  <2>3. Kept(j) /\ Shaped(process[j]) /\ process[j] \in Processes /\ ttl[j] \in Nat
        /\ ttl[j] <= Ttl
    BY <1>0
  <2> QED
    BY <2>1, <2>2, <2>3 DEF Processes, Delays
<1>12. ASSUME Tick PROVE Kept(j)'
  <2>1. /\ process'[j] = Aged(process[j]) /\ kept'[j] = kept[j]
        /\ ttl'[j] = IF ttl[j] = 0 THEN 0 ELSE ttl[j] - 1
        /\ process[j].pc \in {"posting", "waiting"} => process[j].timer > 0
        /\ process[j].post # 0
    BY <1>12 DEF Tick, Expiring
  <2>2. Kept(j) /\ Shaped(process[j]) /\ process[j] \in Processes /\ ttl[j] \in Nat
    BY <1>0
  <2> QED
    BY <2>1, <2>2 DEF Aged, Processes, Nowhere, Delays, Shaped
<1> QED
  BY <1>2, <1>3, <1>4, <1>5, <1>6, <1>7, <1>8, <1>9, <1>10, <1>11, <1>12
     DEF Next, Task, vars, GetValue, ListKeys, ListingReturns

\* With HeartbeatInTime an instance that keeps registering never drops out of the
\* registry between two heartbeats, for any number of instances and any timers.
THEOREM HeartbeatKeepsListedHolds ==
    ASSUME HeartbeatInTime
    PROVE  Spec => []HeartbeatKeepsListed
<1>1. Init => Margin
  BY DEF Init, Margin
<1>2. TypeOK /\ ProcessShape /\ Margin => HeartbeatKeepsListed
  <2> SUFFICES ASSUME TypeOK, ProcessShape, Margin, NEW i \in InstanceIDs, kept[i]
               PROVE  ttl[i] > 0
    BY DEF HeartbeatKeepsListed
  <2>1. process[i] \in Processes /\ Shaped(process[i]) /\ ttl[i] \in Nat
    BY TimesAreNumbers DEF TypeOK, ProcessShape
  <2> QED
    BY <2>1, TimesAreNumbers DEF Margin, Processes, Shaped, Delays, Nowhere
<1>3. TypeOK /\ ProcessShape /\ Margin /\ [Next]_vars => Margin'
  BY MarginStep
<1> QED
  BY <1>1, <1>2, <1>3, TypeOKHolds, PTL DEF Spec

-----------------------------------------------------------------------------
(* The listing *)

\* The listing in progress as the abstract registry sees it.
Inquiry ==
    IF listing = NoListing THEN NoListing ELSE [must |-> listing.must, may |-> listing.may]

\* A change of the keys is seen by the listing in progress as by its inquiry, and
\* leaves it covered (cache.go:57-94).
LEMMA ChangeCovers ==
    ASSUME TypeOK, ListingCovers, listing' = Seen(Present'), Present' \subseteq InstanceIDs
    PROVE  ListingCovers' /\ Inquiry' = Registry!Seen(Present')
<1>1. CASE listing = NoListing
  BY <1>1 DEF Seen, ListingCovers, Inquiry, Registry!Seen
<1>2. CASE listing \in Listings
  <2>1. /\ listing' \in Listings
        /\ listing'.must = listing.must \intersect Present'
        /\ listing'.may = listing.may \union Present'
        /\ listing'.todo = listing.todo /\ listing'.found = listing.found
    BY <1>2, NoListingIsFresh DEF Seen, Listings
  <2>2. listing # NoListing /\ listing' # NoListing
    BY <1>2, <2>1, NoListingIsFresh DEF Listings
  <2>3. ListingCovers'
    BY <2>1, <2>2 DEF ListingCovers
  <2>4. Inquiry' = [must |-> listing.must \intersect Present', may |-> listing.may \union Present']
    BY <2>1, <2>2 DEF Inquiry
  <2>5. Registry!Seen(Present')
          = [must |-> listing.must \intersect Present', may |-> listing.may \union Present']
    <3>1. [must |-> listing.must, may |-> listing.may]
            \in [must : SUBSET InstanceIDs, may : SUBSET InstanceIDs]
      BY <1>2 DEF Listings
    <3> QED
      BY <2>2, <3>1, NoListingIsFresh DEF Registry!Seen
  <2> QED
    BY <2>3, <2>4, <2>5
<1> QED
  BY <1>1, <1>2 DEF TypeOK

\* One step keeps the listing covered; when no GET fails it is a step of the abstract
\* registry or leaves that as it is.
LEMMA ListingStep ==
    ASSUME TypeOK, ProcessShape, ListingCovers, [Next]_vars
    PROVE  ListingCovers' /\ (~ReadsMayFail => [Registry!Next]_(Registry!vars))
<1> DEFINE Goal == ListingCovers' /\ (~ReadsMayFail => [Registry!Next]_(Registry!vars))
<1>0. /\ \A i \in InstanceIDs : ttl[i] \in Nat
      /\ ttl \in [InstanceIDs -> 0 .. Ttl] /\ Present \subseteq InstanceIDs
      /\ TypeOK'
  BY TypeStep, TimesAreNumbers DEF TypeOK, Present
<1>1. ASSUME listing' = Seen(Present'), UNCHANGED answer PROVE Goal
  <2>1. Present' \subseteq InstanceIDs
    BY DEF Present
  <2>2. ListingCovers' /\ Inquiry' = Registry!Seen(Present')
    BY <1>1, <2>1, ChangeCovers
  <2>3. Registry!Change
    BY <1>1, <2>1, <2>2 DEF Registry!Change, Inquiry
  <2> QED
    BY <2>2, <2>3 DEF Registry!Next
<1>2. ASSUME UNCHANGED <<ttl, listing, answer>> PROVE Goal
  <2>1. ListingCovers'
    BY <1>2 DEF ListingCovers, Present
  <2> QED
    BY <1>2, <2>1 DEF Registry!vars, Present
<1>3. ASSUME NEW i \in InstanceIDs, WriteValue(i), UNCHANGED answer PROVE Goal
  <2>1. Present' = Present \union {i}
    BY <1>0, <1>3, TimesAreNumbers DEF WriteValue, Present
  <2> QED
    BY <1>1, <1>3, <2>1 DEF WriteValue
<1>4. ASSUME NEW i \in InstanceIDs, UnregisterInstance(i) PROVE Goal
  <2>1. Present' = Present \ {i}
    BY <1>0, <1>4 DEF UnregisterInstance, DeleteValue, Present
  <2> QED
    BY <1>1, <1>4, <2>1 DEF UnregisterInstance, DeleteValue
<1>5. ASSUME Tick PROVE Goal
  <2>1. Present' = {i \in InstanceIDs : Expiring(ttl[i]) > 0}
    BY <1>0, <1>5 DEF Tick, Present
  <2> QED
    BY <1>1, <1>5, <2>1 DEF Tick
<1>6. ASSUME NEW i \in InstanceIDs, GetValue(i) PROVE Goal
  <2>1. listing \in Listings /\ Present' = Present
    BY <1>6 DEF GetValue, TypeOK, Present
  <2>2. /\ listing'.must = listing.must /\ listing'.may = listing.may
        /\ listing'.todo = listing.todo \ {i}
        /\ \/ listing'.found = listing.found /\ (i \in Present => ReadsMayFail)
           \/ listing'.found = listing.found \union {i}
        /\ listing' \in Listings
    <3>1. /\ Skip(i) = [todo |-> listing.todo \ {i}, found |-> listing.found,
                       must |-> listing.must, may |-> listing.may]
          /\ Take(i) = [todo |-> listing.todo \ {i}, found |-> listing.found \union {i},
                       must |-> listing.must, may |-> listing.may]
      <4>1. PICK a, b, c, d \in SUBSET InstanceIDs :
              listing = [todo |-> a, found |-> b, must |-> c, may |-> d]
        BY <2>1 DEF Listings
      <4>2. Skip(i) = [todo |-> a \ {i}, found |-> b, must |-> c, may |-> d]
        BY <4>1 DEF Skip
      <4>3. Take(i) = [todo |-> a \ {i}, found |-> b \union {i}, must |-> c, may |-> d]
        BY <4>2 DEF Take
      <4> QED
        BY <4>1, <4>2, <4>3
    <3>2. Skip(i) \in Listings /\ Take(i) \in Listings
      BY <2>1, <3>1 DEF Listings
    <3>3. CASE listing' = Take(i)
      BY <3>1, <3>2, <3>3
    <3>4. CASE listing' = Skip(i) /\ (i \in Present => ReadsMayFail)
      BY <3>1, <3>2, <3>4
    <3> QED
      BY <1>6, <3>3, <3>4 DEF GetValue
  <2>3. listing # NoListing /\ listing' # NoListing /\ i \in listing.todo
    BY <1>6, <2>2, NoListingIsFresh DEF GetValue, Listings
  <2>4. ListingCovers'
    BY <2>1, <2>2, <2>3 DEF ListingCovers
  <2>5. UNCHANGED Registry!vars
    BY <1>6, <2>1, <2>2, <2>3 DEF GetValue, Registry!vars
  <2> QED
    BY <2>4, <2>5
<1>7. ASSUME ListKeys PROVE Goal
  <2>1. /\ listing = NoListing /\ Present' = Present
        /\ listing' = [todo |-> Present, found |-> {}, must |-> Present, may |-> Present]
    BY <1>7 DEF ListKeys, Present
  <2>2. listing' # NoListing
    BY <1>0, <2>1, NoListingIsFresh
  <2>3. ListingCovers'
    BY <2>1, <2>2 DEF ListingCovers
  <2>4. Registry!Ask
    BY <1>7, <2>1, <2>2 DEF ListKeys, Registry!Ask
  <2> QED
    BY <2>3, <2>4 DEF Registry!Next
<1>8. ASSUME ListingReturns PROVE Goal
  <2>1. /\ listing # NoListing /\ listing' = NoListing /\ listing.todo = {}
        /\ answer' = GetInstances(ListCode, listing.found) /\ Present' = Present
    BY <1>8 DEF ListingReturns, Present
  <2>2. answer' = listing.found
    BY <2>1 DEF GetInstances, ListCode, StatusOf
  <2>3. ListingCovers'
    BY <2>1 DEF ListingCovers
  <2>4. ASSUME ~ReadsMayFail PROVE Registry!Answer
    <3>1. [must |-> listing.must, may |-> listing.may]
            \in [must : SUBSET InstanceIDs, may : SUBSET InstanceIDs]
      BY <2>1 DEF TypeOK, Listings
    <3>2. listing.must \subseteq answer' /\ answer' \subseteq listing.may
      BY <2>1, <2>2, <2>4 DEF ListingCovers
    <3> QED
      BY <2>1, <3>1, <3>2, NoListingIsFresh DEF Registry!Answer
  <2> QED
    BY <2>3, <2>4 DEF Registry!Next
<1>9. ASSUME NEW r \in stray, RegisterStray(r) PROVE Goal
  <2>1. r.id \in InstanceIDs
    BY DEF TypeOK
  <2> QED
    BY <1>2, <1>3, <1>9, <2>1 DEF RegisterStray
<1> QED
  BY <1>2, <1>3, <1>4, <1>5, <1>6, <1>7, <1>8, <1>9
     DEF Next, vars, Task, Responds, TimesOut, Wakes, Start, Stops, RegisterInstance,
         RegisterFails

\* When no GET fails, KEYS and the GETs after it answer like the abstract registry.
THEOREM ImplementsRegistryHolds ==
    ASSUME ~ReadsMayFail
    PROVE  Spec => ImplementsRegistry
<1>1. Init => ListingCovers
  BY DEF Init, ListingCovers
<1>2. Init => Registry!Init
  BY DEF Init, Registry!Init, Present
<1>3. TypeOK /\ ProcessShape /\ ListingCovers /\ [Next]_vars
        => ListingCovers' /\ [Registry!Next]_(Registry!vars)
  BY ListingStep
<1> QED
  BY <1>1, <1>2, <1>3, TypeOKHolds, PTL DEF Spec, ImplementsRegistry, Registry!Spec

=============================================================================
