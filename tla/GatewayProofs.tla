--------------------------- MODULE GatewayProofs ---------------------------
(***************************************************************************)
(* Proofs about Gateway, for every set of instances, sessions, clients and *)
(* calls and for every bound: the inductive invariant IInv, and what a     *)
(* session can rely on as long as its binding is not given up.             *)
(***************************************************************************)
EXTENDS Gateway, TLAPS

-----------------------------------------------------------------------------
(* The records *)

\* The fields of an RPC record.
LEMMA RpcFields ==
    ASSUME NEW p, NEW w, NEW k, NEW a, NEW h, NEW d
    PROVE  /\ Rpc(p, w, k, a, h, d).phase = p
           /\ Rpc(p, w, k, a, h, d).wants = w
           /\ Rpc(p, w, k, a, h, d).key = k
           /\ Rpc(p, w, k, a, h, d).at = a
           /\ Rpc(p, w, k, a, h, d).runs = h
           /\ Rpc(p, w, k, a, h, d).denied = d
BY DEF Rpc

\* The fields of a call record.
LEMMA HandlerFields ==
    ASSUME NEW pc, NEW at, NEW kind, NEW key
    PROVE  /\ Handler(pc, at, kind, key).pc = pc
           /\ Handler(pc, at, kind, key).at = at
           /\ Handler(pc, at, kind, key).kind = kind
           /\ Handler(pc, at, kind, key).key = key
BY DEF Handler

\* A slot for calls that is not in use.
LEMMA FreeFields == Free.pc = "free" /\ Free.at = NoInstance /\ Free.key = NoKey
BY HandlerFields DEF Free

\* A free slot is in order, whichever processes are up.
LEMMA FreeOK == ASSUME NEW ups PROVE HandlerOK(Free, ups)
<1>1. Free = Handler(Free.pc, Free.at, Free.kind, Free.key)
  BY HandlerFields DEF Free
<1> QED BY <1>1, FreeFields DEF HandlerOK

\* No RPC: in order, whichever calls run.
LEMMA IdleOK ==
    ASSUME NEW f
    PROVE  /\ RpcOK(Idle, f)
           /\ Idle.phase = "idle"
           /\ Idle.at = NoInstance
           /\ Idle.runs = NoCall
<1>1. /\ Idle.phase = "idle" /\ Idle.at = NoInstance /\ Idle.runs = NoCall
      /\ Idle.denied = FALSE /\ Idle.wants = "nothing" /\ Idle.key = NoKey
  BY DEF Idle, Rpc
<1>2. Idle = Rpc(Idle.phase, Idle.wants, Idle.key, Idle.at, Idle.runs, Idle.denied)
  BY <1>1 DEF Idle
<1> QED BY <1>1, <1>2 DEF RpcOK

\* The record of an RPC that looks for a connection or has a lease.
LEMMA WaitingOK ==
    ASSUME NEW f, NEW w \in Methods, NEW k \in Keys, NEW d \in BOOLEAN, NEW i \in Instances
    PROVE  /\ RpcOK(Rpc("seek", w, k, NoInstance, NoCall, d), f)
           /\ RpcOK(Rpc("dial", w, k, i, NoCall, d), f)
           /\ RpcOK(Rpc("broken", w, k, i, NoCall, d), f)
BY RpcFields DEF RpcOK

\* What is known of an RPC record in order.
LEMMA RpcMeans ==
    ASSUME NEW r, NEW f, RpcOK(r, f)
    PROVE  /\ r.phase \in {"idle", "seek", "dial", "stream", "broken"}
           /\ r.denied \in BOOLEAN
           /\ r.phase # "idle" => r.key \in Keys /\ r.wants \in Methods
           /\ r.phase \in {"dial", "stream", "broken"} => r.at \in Instances
           /\ r.phase \in {"idle", "seek"} => r.at = NoInstance
           /\ r.phase = "stream" =>
                /\ r.runs \in Calls
                /\ f[r.runs].pc # "free"
                /\ f[r.runs].at = r.at
                /\ f[r.runs].key = r.key
           /\ r.phase # "stream" => r.runs = NoCall
BY DEF RpcOK

\* An RPC record stays in order while the call it leads keeps its place and session.
LEMMA RpcFrame ==
    ASSUME NEW r, NEW f, NEW g, RpcOK(r, f),
           r.phase = "stream" =>
               /\ g[r.runs].pc # "free"
               /\ g[r.runs].at = f[r.runs].at
               /\ g[r.runs].key = f[r.runs].key
    PROVE  RpcOK(r, g)
BY DEF RpcOK

\* A closed connection leaves the session and the instance of an RPC, and no call.
LEMMA AfterCloseOK ==
    ASSUME NEW r, NEW f, NEW gone, RpcOK(r, f)
    PROVE  /\ RpcOK(AfterClose(r, gone), f)
           /\ AfterClose(r, gone).at = r.at
           /\ AfterClose(r, gone).key = r.key
           /\ AfterClose(r, gone).phase = "broken" \/ AfterClose(r, gone) = r
           /\ r.phase = "stream" /\ r.at \in gone => AfterClose(r, gone).phase = "broken"
<1>1. CASE r.at \in gone /\ r.phase \in {"dial", "stream"}
  <2> DEFINE q == Rpc("broken", r.wants, r.key, r.at, NoCall, r.denied)
  <2>1. AfterClose(r, gone) = q
    BY <1>1 DEF AfterClose
  <2>2. r.wants \in Methods /\ r.key \in Keys /\ r.at \in Instances /\ r.denied \in BOOLEAN
    BY <1>1, RpcMeans
  <2>3. RpcOK(q, f)
    BY <2>2, WaitingOK
  <2>4. q.phase = "broken" /\ q.at = r.at /\ q.key = r.key
    BY RpcFields
  <2> QED BY <2>1, <2>3, <2>4
<1>2. CASE ~(r.at \in gone /\ r.phase \in {"dial", "stream"})
  BY <1>2 DEF AfterClose
<1> QED BY <1>1, <1>2

-----------------------------------------------------------------------------
(* The steps: what they do to the records *)

\* A call that goes on keeps its place, its kind and its session.
LEMMA GotoOK ==
    ASSUME TypeOK, NEW h \in Calls, call[h].pc # "free",
           NEW pc \in {"set", "reply", "replied", "failed"}
    PROVE  /\ DOMAIN Goto(h, pc) = Calls
           /\ Goto(h, pc)[h].pc = pc
           /\ \A g \in Calls \ {h} : Goto(h, pc)[g] = call[g]
           /\ \A g \in Calls :
                /\ HandlerOK(Goto(h, pc)[g], up)
                /\ Goto(h, pc)[g].at = call[g].at
                /\ Goto(h, pc)[g].key = call[g].key
                /\ Goto(h, pc)[g].kind = call[g].kind
           /\ \A c \in Clients : RpcOK(rpc[c], Goto(h, pc))
<1> DEFINE x == Handler(pc, call[h].at, call[h].kind, call[h].key)
<1>1. x.pc = pc /\ x.at = call[h].at /\ x.kind = call[h].kind /\ x.key = call[h].key
  BY HandlerFields
<1>2. HandlerOK(call[h], up)
  BY DEF TypeOK
<1>3. HandlerOK(x, up)
  BY <1>1, <1>2 DEF HandlerOK
<1>4. DOMAIN call = Calls
  BY DEF TypeOK
<1>5. Goto(h, pc) = [call EXCEPT ![h] = x]
  BY DEF Goto
<1> HIDE DEF x
<1>6. Goto(h, pc)[h] = x /\ \A g \in Calls \ {h} : Goto(h, pc)[g] = call[g]
  BY <1>4, <1>5
<1>7. \A g \in Calls :
        /\ HandlerOK(Goto(h, pc)[g], up)
        /\ Goto(h, pc)[g].at = call[g].at
        /\ Goto(h, pc)[g].key = call[g].key
        /\ Goto(h, pc)[g].kind = call[g].kind
        /\ call[g].pc # "free" => Goto(h, pc)[g].pc # "free"
  BY <1>1, <1>3, <1>6 DEF TypeOK
<1>8. ASSUME NEW c \in Clients PROVE RpcOK(rpc[c], Goto(h, pc))
  <2>1. RpcOK(rpc[c], call)
    BY DEF TypeOK
  <2> QED BY <1>7, <2>1, RpcMeans, RpcFrame
<1> QED BY <1>1, <1>4, <1>5, <1>6, <1>7, <1>8

\* Freeing a call that no RPC leads leaves everything else in order.
LEMMA FreeingOK ==
    ASSUME TypeOK, NEW h \in Calls, NEW c \in Clients, rpc[c].phase = "stream" => rpc[c].runs # h
    PROVE  RpcOK(rpc[c], [call EXCEPT ![h] = Free])
<1> DEFINE g == [call EXCEPT ![h] = Free]
<1>1. RpcOK(rpc[c], call)
  BY DEF TypeOK
<1>2. DOMAIN call = Calls
  BY DEF TypeOK
<1>3. rpc[c].phase = "stream" => rpc[c].runs \in Calls /\ g[rpc[c].runs] = call[rpc[c].runs]
  BY <1>1, <1>2, RpcMeans
<1>4. rpc[c].phase = "stream" => call[rpc[c].runs].pc # "free"
  BY <1>1, RpcMeans
<1> HIDE DEF g
<1>5. RpcOK(rpc[c], g)
  BY <1>1, <1>3, <1>4, RpcFrame
<1> QED BY <1>5 DEF g

\* The calls stay in order when one is freed.
LEMMA FreedOK ==
    ASSUME TypeOK, NEW h \in Calls
    PROVE  /\ DOMAIN [call EXCEPT ![h] = Free] = Calls
           /\ \A g \in Calls : HandlerOK([call EXCEPT ![h] = Free][g], up)
BY FreeOK DEF TypeOK

\* A binding that is changed leaves its mark; so the others are as they were.
LEMMA ReleaseKeeps ==
    ASSUME Release, NEW i \in Instances \ released'
    PROVE  /\ i \in Instances \ released
           /\ NoInstance # i
           /\ \A k \in Keys : home[k] = i => home'[k] = i
BY NoInstanceAssumption DEF Release

\* Marks are only put on instances.
LEMMA ReleaseType ==
    ASSUME TypeOK, Release
    PROVE  released' \subseteq Instances
BY DEF TypeOK, Release

\* A session that is not yet bound, or bound to a dead connection, may be bound to a free
\* instance; a binding may be cleared.
LEMMA BindOK ==
    ASSUME TypeOK, OneToOne, NEW k \in Keys, NEW i \in Instances \union {NoInstance},
           i # NoInstance => IsFree(i, k)
    PROVE  /\ Bind(k, i) \in [Keys -> Instances \union {NoInstance}]
           /\ Bind(k, i)[k] = i
           /\ \A p, q \in Keys :
                Bind(k, i)[p] = Bind(k, i)[q] /\ Bind(k, i)[p] # NoInstance => p = q
<1>1. home \in [Keys -> Instances \union {NoInstance}]
  BY DEF TypeOK
<1>2. Bind(k, i) = [home EXCEPT ![k] = i]
  BY DEF Bind
<1>3. \A p, q \in Keys : home[p] = home[q] /\ home[p] # NoInstance => p = q
  BY DEF OneToOne
<1> QED BY <1>1, <1>2, <1>3 DEF IsFree

-----------------------------------------------------------------------------
(* The steps: what they preserve *)

\* A step at the gateway: bindings come with marks, leases with bindings, streams only end
\* and calls are only freed.
LEMMA GatewayStep ==
    ASSUME IInv,
           UNCHANGED <<up, session>>,
           home' \in [Keys -> Instances \union {NoInstance}],
           \A p, q \in Keys : home'[p] = home'[q] /\ home'[p] # NoInstance => p = q,
           live' \subseteq Instances,
           released \subseteq released',
           released' \subseteq Instances,
           \A i \in Instances \ released' : \A k \in Keys : home[k] = i => home'[k] = i,
           rpcs' \in 0 .. MaxRPCs,
           faults' \in 0 .. MaxFaults,
           DOMAIN rpc' = Clients,
           DOMAIN call' = Calls,
           \A h \in Calls : call'[h] = call[h] \/ call'[h] = Free,
           \A d \in Clients :
                /\ RpcOK(rpc'[d], call')
                /\ rpc'[d].phase = "stream" => rpc'[d] = rpc[d]
                /\ rpc'[d].phase = "dial" =>
                      rpc'[d] = rpc[d] \/ home'[rpc'[d].key] = rpc'[d].at
    PROVE  IInv'
<1>1. TypeOK'
  <2>1. \A h \in Calls : HandlerOK(call'[h], up')
    BY FreeOK DEF IInv, TypeOK
  <2> QED BY <2>1 DEF IInv, TypeOK
<1>2. OneToOne'
  BY DEF IInv, OneToOne
<1>3. ASSUME NEW i \in Instances \ released' PROVE Attached(i)'
  <2>1. Attached(i) /\ i # NoInstance
    BY NoInstanceAssumption DEF IInv
  <2>2. session'[i] # NoKey => home'[session'[i]] = i
    BY <2>1 DEF Attached, IInv, TypeOK
  <2>3. ASSUME NEW h \in Calls, call'[h].at = i PROVE home'[call'[h].key] = i
    <3>1. call'[h] = call[h] /\ call[h].pc # "free"
      BY <2>1, <2>3, FreeFields DEF IInv, TypeOK, HandlerOK
    <3>2. call[h].key \in Keys
      BY <3>1 DEF IInv, TypeOK, HandlerOK
    <3> QED BY <2>1, <2>3, <3>1, <3>2 DEF Attached
  <2>4. ASSUME NEW c \in Clients, rpc'[c].at = i, rpc'[c].phase \in {"dial", "stream"}
        PROVE  home'[rpc'[c].key] = i
    <3>1. CASE rpc'[c] = rpc[c]
      <4>1. RpcOK(rpc[c], call)
        BY DEF IInv, TypeOK
      <4>2. rpc[c].key \in Keys
        BY <2>4, <3>1, <4>1, RpcMeans
      <4> QED BY <2>1, <2>4, <3>1, <4>2 DEF Attached
    <3> QED BY <2>4, <3>1
  <2> QED BY <2>2, <2>3, <2>4 DEF Attached
<1>4. Remembers'
  BY FreeFields DEF IInv, Remembers
<1>5. NoConflict'
  BY FreeFields DEF IInv, NoConflict
<1> QED BY <1>1, <1>2, <1>3, <1>4, <1>5 DEF IInv

\* A step of a call at a process that is not over yet.
LEMMA GotoStep ==
    ASSUME IInv, NEW h \in Calls, call[h].pc # "free",
           NEW pc \in {"set", "reply", "replied", "failed"},
           call' = Goto(h, pc),
           UNCHANGED <<poolVars, rpc, up, bounds>>,
           session' = session \/ session' = [session EXCEPT ![call[h].at] = call[h].key],
           pc = "reply" => session' = [session EXCEPT ![call[h].at] = call[h].key],
           pc = "failed" /\ call[h].kind = "echo" => call[h].at \in released
    PROVE  IInv'
<1> USE DEF poolVars, bounds
<1>1. TypeOK
  BY DEF IInv
<1>2. HandlerOK(call[h], up) /\ up \subseteq Instances
  BY <1>1 DEF TypeOK
<1>3. call[h].at \in up /\ call[h].at \in Instances /\ call[h].key \in Keys
  BY <1>2 DEF HandlerOK
<1>4. session \in [Instances -> Keys \union {NoKey}]
  BY <1>1 DEF TypeOK
<1>5. session' \in [Instances -> Keys \union {NoKey}]
  BY <1>3, <1>4
<1>6. \A g \in Calls : /\ call'[g].at = call[g].at
                       /\ call'[g].key = call[g].key
                       /\ call'[g].kind = call[g].kind
                       /\ g # h => call'[g] = call[g]
  BY <1>1, GotoOK
<1>7. call'[h].pc = pc
  BY <1>1, GotoOK
<1>8. TypeOK'
  <2>1. DOMAIN call' = Calls /\ \A g \in Calls : HandlerOK(call'[g], up')
    BY <1>1, GotoOK
  <2>2. \A c \in Clients : RpcOK(rpc'[c], call')
    BY <1>1, GotoOK
  <2> QED BY <1>1, <1>5, <2>1, <2>2 DEF TypeOK
<1>9. OneToOne'
  BY DEF IInv, OneToOne
<1>10. ASSUME NEW i \in Instances \ released' PROVE Attached(i)'
  <2>1. Attached(i)
    BY DEF IInv
  <2>2. session'[i] # NoKey => home'[session'[i]] = i
    BY <1>3, <1>4, <2>1 DEF Attached
  <2> QED BY <1>6, <2>1, <2>2 DEF Attached
<1>11. Remembers'
  <2>1. \A i \in Instances \ up' : session'[i] = NoKey
    BY <1>3, <1>4 DEF IInv, Remembers
  <2>2. ASSUME NEW g \in Calls, call'[g].pc = "reply" PROVE session'[call'[g].at] # NoKey
    <3>1. HandlerOK(call[g], up)
      BY <1>1 DEF TypeOK
    <3>2. CASE g = h
      BY <1>3, <1>4, <1>6, <1>7, <2>2, <3>2, NoKeyAssumption
    <3>3. CASE g # h
      <4>1. call[g].pc = "reply"
        BY <1>6, <2>2, <3>3
      <4>2. call[g].at \in Instances /\ session[call[g].at] # NoKey
        BY <1>2, <3>1, <4>1 DEF IInv, Remembers, HandlerOK
      <4> QED BY <1>3, <1>4, <1>6, <4>2, NoKeyAssumption
    <3> QED BY <3>2, <3>3
  <2> QED BY <2>1, <2>2 DEF Remembers
<1>12. NoConflict'
  BY <1>6, <1>7 DEF IInv, NoConflict
<1> QED BY <1>8, <1>9, <1>10, <1>11, <1>12 DEF IInv

\* The call a new stream starts belongs to the session of its lease.
LEMMA NewStreamStep == ASSUME IInv, NEW c \in Clients, NewStream(c) PROVE IInv'
<1> USE DEF poolVars, bounds
<1> DEFINE x(h) == Handler("check", rpc[c].at, rpc[c].wants, rpc[c].key)
           r(h) == Rpc("stream", rpc[c].wants, rpc[c].key, rpc[c].at, h, rpc[c].denied)
<1>1. PICK h \in Calls : /\ call[h].pc = "free"
                         /\ call' = [call EXCEPT ![h] = x(h)]
                         /\ rpc' = [rpc EXCEPT ![c] = r(h)]
  BY DEF NewStream
<1>2. rpc[c].phase = "dial" /\ rpc[c].at \in up /\ UNCHANGED <<poolVars, up, session, bounds>>
  BY DEF NewStream
<1>3. TypeOK
  BY DEF IInv
<1>4. \A d \in Clients : RpcOK(rpc[d], call)
  BY <1>3 DEF TypeOK
<1>5. /\ rpc[c].key \in Keys /\ rpc[c].wants \in Methods /\ rpc[c].at \in Instances
      /\ rpc[c].denied \in BOOLEAN
  BY <1>2, <1>4, RpcMeans
<1>6. /\ x(h).pc = "check" /\ x(h).at = rpc[c].at /\ x(h).kind = rpc[c].wants
      /\ x(h).key = rpc[c].key
  BY HandlerFields
<1>7. /\ r(h).phase = "stream" /\ r(h).wants = rpc[c].wants /\ r(h).key = rpc[c].key
      /\ r(h).at = rpc[c].at /\ r(h).runs = h /\ r(h).denied = rpc[c].denied
  BY RpcFields
<1>8. HandlerOK(x(h), up)
  BY <1>2, <1>5, <1>6 DEF HandlerOK
<1>9. r(h) = Rpc(r(h).phase, r(h).wants, r(h).key, r(h).at, r(h).runs, r(h).denied)
  BY <1>7
<1> HIDE DEF x, r
<1>10. /\ DOMAIN call' = Calls
       /\ call'[h] = x(h)
       /\ \A g \in Calls \ {h} : call'[g] = call[g]
  BY <1>1, <1>3 DEF TypeOK
<1>11. /\ DOMAIN rpc' = Clients
       /\ rpc'[c] = r(h)
       /\ \A d \in Clients \ {c} : rpc'[d] = rpc[d]
  BY <1>1, <1>3 DEF TypeOK
<1>12. RpcOK(r(h), call')
  BY <1>5, <1>6, <1>7, <1>9, <1>10 DEF RpcOK
<1>13. \A d \in Clients : rpc[d].phase = "stream" => rpc[d].runs \in Calls \ {h}
  BY <1>1, <1>4, RpcMeans
<1>14. TypeOK'
  <2>1. \A g \in Calls : HandlerOK(call'[g], up')
    BY <1>2, <1>3, <1>8, <1>10 DEF TypeOK
  <2>2. ASSUME NEW d \in Clients PROVE RpcOK(rpc'[d], call')
    <3>1. CASE d = c
      BY <1>11, <1>12, <3>1
    <3>2. CASE d # c
      <4>1. rpc[d].phase = "stream" => call'[rpc[d].runs] = call[rpc[d].runs]
        BY <1>10, <1>13
      <4>2. RpcOK(rpc[d], call')
        BY <1>4, <4>1, RpcMeans, RpcFrame
      <4> QED BY <1>11, <3>2, <4>2
    <3> QED BY <3>1, <3>2
  <2> QED BY <1>2, <1>3, <1>10, <1>11, <2>1, <2>2 DEF TypeOK
<1>15. OneToOne'
  <2>1. ASSUME NEW d \in Clients, NEW e \in Clients, rpc'[d].phase = "stream",
               rpc'[e].phase = "stream", rpc'[d].runs = rpc'[e].runs
        PROVE  d = e
    <3>1. CASE d # c /\ e # c
      BY <1>11, <2>1, <3>1 DEF IInv, OneToOne
    <3>2. CASE d = c \/ e = c
      BY <1>7, <1>11, <1>13, <2>1, <3>2
    <3> QED BY <3>1, <3>2
  <2> QED BY <1>2, <2>1 DEF IInv, OneToOne
<1>16. ASSUME NEW i \in Instances \ released' PROVE Attached(i)'
  <2>1. Attached(i)
    BY <1>2 DEF IInv
  <2>2. rpc[c].at = i => home[rpc[c].key] = i
    BY <1>2, <2>1 DEF Attached
  <2>3. \A g \in Calls : call'[g].at = i => home'[call'[g].key] = i
    BY <1>2, <1>6, <1>10, <2>1, <2>2 DEF Attached
  <2>4. \A d \in Clients :
           rpc'[d].at = i /\ rpc'[d].phase \in {"dial", "stream"} => home'[rpc'[d].key] = i
    BY <1>2, <1>7, <1>11, <2>1, <2>2 DEF Attached
  <2> QED BY <1>2, <2>1, <2>3, <2>4 DEF Attached
<1>17. Remembers'
  BY <1>2, <1>6, <1>10 DEF IInv, Remembers
<1>18. NoConflict'
  BY <1>2, <1>6, <1>10 DEF IInv, NoConflict
<1> QED BY <1>14, <1>15, <1>16, <1>17, <1>18 DEF IInv

\* A process that stops takes its session and its calls with it.
LEMMA StopStep == ASSUME IInv, NEW i \in Instances, Stop(i) PROVE IInv'
<1> USE DEF poolVars
<1>1. TypeOK
  BY DEF IInv
<1>2. /\ up' = up \ {i}
      /\ session' = [session EXCEPT ![i] = NoKey]
      /\ call' = [h \in Calls |-> IF call[h].at = i THEN Free ELSE call[h]]
      /\ rpc' = [c \in Clients |->
                    IF rpc[c].phase = "stream" THEN AfterClose(rpc[c], {i}) ELSE rpc[c]]
      /\ UNCHANGED <<poolVars, rpcs>>
      /\ faults < MaxFaults /\ faults' = faults + 1
  BY DEF Stop
<1>3. \A c \in Clients : RpcOK(rpc[c], call)
  BY <1>1 DEF TypeOK
<1>4. ASSUME NEW c \in Clients
      PROVE  /\ RpcOK(rpc'[c], call')
             /\ rpc'[c].phase \in {"dial", "stream"} => rpc'[c] = rpc[c]
  <2>1. CASE rpc[c].phase = "stream" /\ rpc[c].at = i
    <3> DEFINE q == AfterClose(rpc[c], {i})
    <3>1. RpcOK(q, call) /\ q.phase = "broken"
      BY <1>3, <2>1, AfterCloseOK
    <3>2. RpcOK(q, call')
      BY <3>1, RpcFrame
    <3>3. rpc'[c] = q
      BY <1>2, <2>1
    <3> QED BY <3>1, <3>2, <3>3
  <2>2. CASE rpc[c].phase = "stream" /\ rpc[c].at # i
    <3>1. rpc'[c] = rpc[c]
      BY <1>2, <2>2 DEF AfterClose
    <3>2. rpc[c].runs \in Calls /\ call[rpc[c].runs].at # i /\ call[rpc[c].runs].pc # "free"
      BY <1>3, <2>2, RpcMeans
    <3>3. call'[rpc[c].runs] = call[rpc[c].runs]
      BY <1>2, <3>2
    <3>4. RpcOK(rpc[c], call')
      BY <1>3, <3>2, <3>3, RpcFrame
    <3> QED BY <3>1, <3>4
  <2>3. CASE rpc[c].phase # "stream"
    <3>1. rpc'[c] = rpc[c]
      BY <1>2, <2>3
    <3>2. RpcOK(rpc[c], call')
      BY <1>3, <2>3, RpcFrame
    <3> QED BY <3>1, <3>2
  <2> QED BY <2>1, <2>2, <2>3
<1>5. \A h \in Calls : (call[h].at # i /\ call'[h] = call[h]) \/ call'[h] = Free
  BY <1>2
<1>6. session \in [Instances -> Keys \union {NoKey}]
  BY <1>1 DEF TypeOK
<1>7. session'[i] = NoKey /\ \A j \in Instances \ {i} : session'[j] = session[j]
  BY <1>2, <1>6
<1>8. TypeOK'
  <2>1. \A h \in Calls : HandlerOK(call'[h], up')
    BY <1>1, <1>2, <1>5, FreeOK DEF TypeOK, HandlerOK
  <2>2. faults' \in 0 .. MaxFaults
    BY <1>1, <1>2, BoundsAssumption DEF TypeOK
  <2>3. session' \in [Instances -> Keys \union {NoKey}]
    BY <1>2, <1>6
  <2>4. /\ home' \in [Keys -> Instances \union {NoInstance}] /\ live' \subseteq Instances
        /\ released' \subseteq Instances /\ up' \subseteq Instances /\ rpcs' \in 0 .. MaxRPCs
    BY <1>1, <1>2 DEF TypeOK
  <2>5. DOMAIN rpc' = Clients /\ DOMAIN call' = Calls
    BY <1>2
  <2>6. \A c \in Clients : RpcOK(rpc'[c], call')
    BY <1>4
  <2> QED BY <2>1, <2>2, <2>3, <2>4, <2>5, <2>6 DEF TypeOK
<1>9. OneToOne'
  <2>1. OneToOne /\ home' = home
    BY <1>2 DEF IInv
  <2>2. ASSUME NEW c \in Clients, NEW d \in Clients, rpc'[c].phase = "stream",
               rpc'[d].phase = "stream", rpc'[c].runs = rpc'[d].runs
        PROVE  c = d
    <3>1. rpc'[c] = rpc[c] /\ rpc'[d] = rpc[d]
      BY <1>4, <2>2
    <3> QED BY <2>1, <2>2, <3>1 DEF OneToOne
  <2> QED BY <2>1, <2>2 DEF OneToOne
<1>10. ASSUME NEW j \in Instances \ released' PROVE Attached(j)'
  <2>1. Attached(j) /\ j # NoInstance
    BY <1>2, NoInstanceAssumption DEF IInv
  <2> QED BY <1>2, <1>4, <1>5, <1>7, <2>1, FreeFields DEF Attached
<1>11. Remembers'
  <2>1. \A h \in Calls : call'[h].pc = "reply" => session'[call'[h].at] # NoKey
    <3> SUFFICES ASSUME NEW h \in Calls, call'[h].pc = "reply"
                 PROVE  session'[call'[h].at] # NoKey
      OBVIOUS
    <3>1. call'[h] = call[h] /\ call[h].at # i
      BY <1>5, FreeFields
    <3>2. call[h].at \in Instances
      BY <1>1, <3>1 DEF TypeOK, HandlerOK
    <3> QED BY <1>7, <3>1, <3>2 DEF IInv, Remembers
  <2> QED BY <1>2, <1>7, <2>1 DEF IInv, Remembers
<1>12. NoConflict'
  BY <1>2, <1>5, FreeFields DEF IInv, NoConflict
<1> QED BY <1>8, <1>9, <1>10, <1>11, <1>12 DEF IInv

\* A process that starts has no session, and no call.
LEMMA BootStep == ASSUME IInv, NEW i \in Instances, Boot(i) PROVE IInv'
<1> USE DEF bounds
<1>1. TypeOK
  BY DEF IInv
<1>2. /\ i \notin up
      /\ up' = up \union {i}
      /\ released' = IF \E c \in Clients : rpc[c].at = i THEN released ELSE released \ {i}
      /\ UNCHANGED <<home, live, rpc, session, call, bounds>>
  BY DEF Boot
<1>3. \A h \in Calls : call[h].at # i
  <2> SUFFICES ASSUME NEW h \in Calls PROVE call[h].at # i
    OBVIOUS
  <2>1. HandlerOK(call[h], up)
    BY <1>1 DEF TypeOK
  <2>2. CASE call[h].pc = "free"
    BY <2>1, <2>2, FreeFields, NoInstanceAssumption DEF HandlerOK
  <2>3. CASE call[h].pc # "free"
    BY <1>2, <2>1, <2>3 DEF HandlerOK
  <2> QED BY <2>2, <2>3
<1>4. TypeOK'
  <2>1. \A h \in Calls : HandlerOK(call'[h], up')
    BY <1>1, <1>2 DEF TypeOK, HandlerOK
  <2> QED BY <1>1, <1>2, <2>1 DEF TypeOK
<1>5. OneToOne'
  BY <1>2 DEF IInv, OneToOne
<1>6. ASSUME NEW j \in Instances \ released' PROVE Attached(j)'
  <2>1. CASE j \notin released
    BY <1>2, <2>1 DEF IInv, Attached
  <2>2. CASE j \in released
    <3>1. j = i /\ \A c \in Clients : rpc[c].at # i
      BY <1>2, <1>6, <2>2
    <3>2. session[i] = NoKey
      BY <1>2 DEF IInv, Remembers
    <3> QED BY <1>2, <1>3, <3>1, <3>2 DEF Attached
  <2> QED BY <2>1, <2>2
<1>7. Remembers'
  BY <1>2 DEF IInv, Remembers
<1>8. NoConflict'
  BY <1>2, <1>3 DEF IInv, NoConflict
<1> QED BY <1>4, <1>5, <1>6, <1>7, <1>8 DEF IInv

\* The RPC that gives up the call it leads, if it leads one, leaves the others alone.
LEMMA GiveUpOK ==
    ASSUME IInv, NEW c \in Clients,
           \/ call' = call
           \/ rpc[c].phase = "stream" /\ call' = [call EXCEPT ![rpc[c].runs] = Free]
    PROVE  /\ DOMAIN call' = Calls
           /\ \A h \in Calls : call'[h] = call[h] \/ call'[h] = Free
           /\ \A d \in Clients \ {c} : RpcOK(rpc[d], call')
<1>1. TypeOK /\ DOMAIN call = Calls /\ \A d \in Clients : RpcOK(rpc[d], call)
  BY DEF IInv, TypeOK
<1>2. CASE call' = call
  BY <1>1, <1>2
<1>3. CASE rpc[c].phase = "stream" /\ call' = [call EXCEPT ![rpc[c].runs] = Free]
  <2>1. rpc[c].runs \in Calls
    BY <1>1, <1>3, RpcMeans
  <2>2. \A d \in Clients \ {c} : rpc[d].phase = "stream" => rpc[d].runs # rpc[c].runs
    BY <1>3 DEF IInv, OneToOne
  <2>3. \A d \in Clients \ {c} : RpcOK(rpc[d], call')
    BY <1>1, <1>3, <2>1, <2>2, FreeingOK
  <2> QED BY <1>1, <1>3, <2>1, <2>3
<1> QED BY <1>2, <1>3

\* A report: one binding goes, one connection closes, one RPC lets go of its call.
LEMMA ReportStep ==
    ASSUME IInv, NEW c \in Clients, rpc[c].phase \in {"dial", "stream", "broken"},
           NEW next, Report(c, next),
           next = Idle \/ \E d \in BOOLEAN : next = Seeking(c, d),
           UNCHANGED <<up, session, bounds>>,
           \/ call' = call
           \/ rpc[c].phase = "stream" /\ call' = [call EXCEPT ![rpc[c].runs] = Free]
    PROVE  IInv'
<1> USE DEF bounds
<1>1. TypeOK /\ OneToOne
  BY DEF IInv
<1>2. /\ home' = Bind(rpc[c].key, NoInstance)
      /\ live' = Disconnect(rpc[c].at)
      /\ Release
      /\ rpc' = [d \in Clients |-> IF d = c THEN next
                                   ELSE AfterClose(rpc[d], {rpc[c].at})]
  BY DEF Report
<1>3. rpc[c].key \in Keys /\ rpc[c].wants \in Methods
  BY <1>1, RpcMeans DEF TypeOK
<1>4. /\ home' \in [Keys -> Instances \union {NoInstance}]
      /\ \A p, q \in Keys : home'[p] = home'[q] /\ home'[p] # NoInstance => p = q
  BY <1>1, <1>2, <1>3, BindOK
<1>5. live' \subseteq Instances
  BY <1>1, <1>2 DEF Disconnect, TypeOK
<1>6. released' \subseteq Instances
  BY <1>1, <1>2, ReleaseType
<1>7. \A i \in Instances \ released' : \A k \in Keys : home[k] = i => home'[k] = i
  BY <1>2, ReleaseKeeps
<1>8. \A f : RpcOK(next, f) /\ next.phase \in {"idle", "seek"}
  <2>1. CASE next = Idle
    BY <2>1, IdleOK
  <2>2. ASSUME NEW d \in BOOLEAN, next = Seeking(c, d)
        PROVE  \A f : RpcOK(next, f) /\ next.phase = "seek"
    <3> SUFFICES ASSUME NEW f PROVE RpcOK(next, f) /\ next.phase = "seek"
      OBVIOUS
    <3>1. next = Rpc("seek", rpc[c].wants, rpc[c].key, NoInstance, NoCall, d)
      BY <2>2 DEF Seeking
    <3>2. rpc[c].at \in Instances
      BY <1>1, RpcMeans DEF TypeOK
    <3>3. RpcOK(next, f)
      BY <1>3, <2>2, <3>1, <3>2, WaitingOK
    <3>4. next.phase = "seek"
      BY <3>1, RpcFields
    <3> QED BY <3>3, <3>4
  <2> QED BY <2>1, <2>2
<1>9. /\ DOMAIN call' = Calls
      /\ \A h \in Calls : call'[h] = call[h] \/ call'[h] = Free
      /\ \A d \in Clients \ {c} : RpcOK(rpc[d], call')
  BY GiveUpOK
<1>10. ASSUME NEW d \in Clients
       PROVE  /\ RpcOK(rpc'[d], call')
              /\ rpc'[d].phase \in {"dial", "stream"} => rpc'[d] = rpc[d]
  <2>1. CASE d = c
    BY <1>2, <1>8, <2>1
  <2>2. CASE d # c
    <3>1. rpc'[d] = AfterClose(rpc[d], {rpc[c].at})
      BY <1>2, <2>2
    <3> QED BY <1>9, <2>2, <3>1, AfterCloseOK
  <2> QED BY <2>1, <2>2
<1>11. rpcs' \in 0 .. MaxRPCs /\ faults' \in 0 .. MaxFaults
  BY <1>1 DEF TypeOK
<1>12. released \subseteq released' /\ DOMAIN rpc' = Clients
  BY <1>2 DEF Release
<1> QED
  BY <1>4, <1>5, <1>6, <1>7, <1>9, <1>10, <1>11, <1>12, GatewayStep

\* One RPC gets a new record without a stream, with a lease only on the home of its
\* session; the calls are left alone.
LEMMA SeekStep ==
    ASSUME IInv, NEW c \in Clients, NEW x,
           rpc' = [rpc EXCEPT ![c] = x],
           RpcOK(x, call),
           x.phase # "stream",
           x.phase = "dial" => home'[x.key] = x.at,
           UNCHANGED <<up, session, call, faults>>,
           rpcs' \in 0 .. MaxRPCs,
           home' \in [Keys -> Instances \union {NoInstance}],
           \A p, q \in Keys : home'[p] = home'[q] /\ home'[p] # NoInstance => p = q,
           live' \subseteq Instances,
           Release
    PROVE  IInv'
<1>1. TypeOK /\ \A d \in Clients : RpcOK(rpc[d], call)
  BY DEF IInv, TypeOK
<1>2. released \subseteq released' /\ released' \subseteq Instances
  BY <1>1, ReleaseType DEF Release
<1>3. \A i \in Instances \ released' : \A k \in Keys : home[k] = i => home'[k] = i
  BY ReleaseKeeps
<1>4. DOMAIN rpc' = Clients /\ rpc'[c] = x /\ \A d \in Clients \ {c} : rpc'[d] = rpc[d]
  BY <1>1 DEF TypeOK
<1>5. \A d \in Clients :
        /\ RpcOK(rpc'[d], call')
        /\ rpc'[d].phase = "stream" => rpc'[d] = rpc[d]
        /\ rpc'[d].phase = "dial" => rpc'[d] = rpc[d] \/ home'[rpc'[d].key] = rpc'[d].at
  BY <1>1, <1>4
<1>6. /\ DOMAIN call' = Calls /\ faults' \in 0 .. MaxFaults
      /\ \A h \in Calls : call'[h] = call[h] \/ call'[h] = Free
  BY <1>1 DEF TypeOK
<1> QED BY <1>2, <1>3, <1>4, <1>5, <1>6, GatewayStep

\* Nothing is released when no binding changes.
LEMMA NothingReleased ==
    ASSUME home' = home, released' = released PROVE Release
BY DEF Release

-----------------------------------------------------------------------------
(* The invariant *)

\* An instance is attached to its session as long as it keeps the binding: every step of
\* clients, gateway and processes preserves this.
THEOREM InvariantHolds == Spec => []IInv
<1>1. Init => IInv
  <2> SUFFICES ASSUME Init PROVE IInv
    OBVIOUS
  <2>1. TypeOK
    <3>1. 0 \in 0 .. MaxRPCs /\ 0 \in 0 .. MaxFaults
      BY BoundsAssumption
    <3>2. \A c \in Clients : RpcOK(rpc[c], call)
      BY IdleOK DEF Init
    <3>3. \A h \in Calls : HandlerOK(call[h], up)
      BY FreeOK DEF Init
    <3> QED BY <3>1, <3>2, <3>3 DEF Init, TypeOK
  <2>2. OneToOne
    BY IdleOK DEF Init, OneToOne
  <2>3. ASSUME NEW i \in Instances PROVE Attached(i)
    BY <2>3, IdleOK, FreeFields, NoInstanceAssumption DEF Init, Attached
  <2>4. Remembers /\ NoConflict
    BY FreeFields DEF Init, Remembers, NoConflict
  <2> QED BY <2>1, <2>2, <2>3, <2>4 DEF IInv
<1>2. IInv /\ [Next]_vars => IInv'
  <2> SUFFICES ASSUME IInv, [Next]_vars PROVE IInv'
    OBVIOUS
  <2>1. CASE UNCHANGED vars
    BY <2>1 DEF vars, poolVars, backendVars, bounds, IInv, TypeOK, OneToOne, Attached,
                Remembers, NoConflict
  <2>2. TypeOK /\ OneToOne
    BY DEF IInv
  <2>3. \A c \in Clients : RpcOK(rpc[c], call)
    BY <2>2 DEF TypeOK
  <2>4. /\ home \in [Keys -> Instances \union {NoInstance}]
        /\ \A p, q \in Keys : home[p] = home[q] /\ home[p] # NoInstance => p = q
        /\ live \subseteq Instances
        /\ rpcs \in 0 .. MaxRPCs
        /\ faults \in 0 .. MaxFaults
        /\ released \subseteq Instances
        /\ DOMAIN rpc = Clients
        /\ DOMAIN call = Calls
    BY <2>2 DEF TypeOK, OneToOne
  <2>5. ASSUME NEW c \in Clients, NEW k \in Keys, NEW wants \in Methods, Arrive(c, wants, k)
        PROVE  IInv'
    <3> DEFINE x == Rpc("seek", wants, k, NoInstance, NoCall, FALSE)
    <3>1. /\ rpc' = [rpc EXCEPT ![c] = x]
          /\ UNCHANGED <<home, live, released, up, session, call, faults>>
          /\ rpcs < MaxRPCs /\ rpcs' = rpcs + 1
      BY <2>5 DEF Arrive, poolVars, backendVars
    <3>2. x.phase = "seek" /\ x.at = NoInstance /\ x.runs = NoCall
      BY DEF Rpc
    <3>3. rpcs' \in 0 .. MaxRPCs
      BY <2>4, <3>1, BoundsAssumption
    <3>4. RpcOK(x, call)
      <4>1. x = Rpc(x.phase, x.wants, x.key, x.at, x.runs, x.denied)
        BY DEF Rpc
      <4>2. x.key = k /\ x.wants = wants /\ x.denied = FALSE
        BY DEF Rpc
      <4> QED BY <3>2, <4>1, <4>2 DEF RpcOK
    <3>5. Release
      BY <3>1, NothingReleased
    <3> HIDE DEF x
    <3> QED BY <2>4, <3>1, <3>2, <3>3, <3>4, <3>5, SeekStep
  <2>6. ASSUME NEW c \in Clients, VisitHome(c) PROVE IInv'
    <3> DEFINE i == home[rpc[c].key]
               x == Rpc("dial", rpc[c].wants, rpc[c].key, i, NoCall, rpc[c].denied)
    <3>1. /\ rpc' = [rpc EXCEPT ![c] = x]
          /\ UNCHANGED <<home, live, released, up, session, call, rpcs, faults>>
      BY <2>6 DEF VisitHome, Leased, poolVars, backendVars, bounds
    <3>2. /\ rpc[c].key \in Keys /\ rpc[c].wants \in Methods /\ rpc[c].denied \in BOOLEAN
      BY <2>3, <2>6, RpcMeans DEF VisitHome
    <3>3. i \in Instances
      BY <2>4, <2>6 DEF VisitHome, AtHome
    <3>4. RpcOK(x, call)
      BY <3>2, <3>3, WaitingOK
    <3>5. x.phase = "dial" /\ x.key = rpc[c].key /\ x.at = i
      BY RpcFields
    <3>6. Release
      BY <3>1, NothingReleased
    <3>7. home'[x.key] = x.at
      BY <3>1, <3>5
    <3> HIDE DEF x
    <3> QED BY <2>4, <3>1, <3>4, <3>5, <3>6, <3>7, SeekStep
  <2>7. ASSUME NEW c \in Clients, NEW i \in Instances, Settle(c, i) PROVE IInv'
    <3> DEFINE x == Rpc("dial", rpc[c].wants, rpc[c].key, i, NoCall, rpc[c].denied)
    <3>1. /\ rpc' = [rpc EXCEPT ![c] = x]
          /\ home' = Bind(rpc[c].key, i)
          /\ live' = live \union {i}
          /\ Release
          /\ UNCHANGED <<up, session, call, rpcs, faults>>
      BY <2>7 DEF Settle, Leased, backendVars, bounds
    <3>2. /\ rpc[c].key \in Keys /\ rpc[c].wants \in Methods /\ rpc[c].denied \in BOOLEAN
      BY <2>3, <2>7, RpcMeans DEF Settle
    <3>3. RpcOK(x, call)
      BY <3>2, WaitingOK
    <3>4. x.phase = "dial" /\ x.key = rpc[c].key /\ x.at = i
      BY RpcFields
    <3>5. /\ home' \in [Keys -> Instances \union {NoInstance}]
          /\ home'[rpc[c].key] = i
          /\ \A p, q \in Keys : home'[p] = home'[q] /\ home'[p] # NoInstance => p = q
      BY <2>2, <2>7, <3>1, <3>2, BindOK DEF Settle
    <3> HIDE DEF x
    <3> QED BY <2>4, <3>1, <3>3, <3>4, <3>5, SeekStep
  <2>8. ASSUME NEW c \in Clients, NoInstanceLeft(c) PROVE IInv'
    <3>1. /\ rpc' = [rpc EXCEPT ![c] = Idle]
          /\ home' = Bind(rpc[c].key, NoInstance)
          /\ Release
          /\ UNCHANGED <<live, up, session, call, rpcs, faults>>
      BY <2>8 DEF NoInstanceLeft, backendVars, bounds
    <3>2. rpc[c].key \in Keys
      BY <2>3, <2>8, RpcMeans DEF NoInstanceLeft
    <3>3. /\ home' \in [Keys -> Instances \union {NoInstance}]
          /\ \A p, q \in Keys : home'[p] = home'[q] /\ home'[p] # NoInstance => p = q
      BY <2>2, <3>1, <3>2, BindOK
    <3>4. RpcOK(Idle, call) /\ Idle.phase = "idle"
      BY IdleOK
    <3> QED BY <2>4, <3>1, <3>3, <3>4, SeekStep
  <2>9. ASSUME NEW c \in Clients, NewStream(c) PROVE IInv'
    BY <2>9, NewStreamStep
  <2>10. ASSUME NEW c \in Clients, StreamFails(c) PROVE IInv'
    <3>1. rpc[c].phase \in {"dial", "stream", "broken"}
      BY <2>10 DEF StreamFails, RunsTo
    <3>2. PICK next : /\ Report(c, next)
                      /\ next = Idle \/ next = Seeking(c, rpc[c].denied \/ Denied(c))
      BY <2>10 DEF StreamFails
    <3>3. next = Idle \/ \E d \in BOOLEAN : next = Seeking(c, d)
      BY <3>2
    <3>4. /\ UNCHANGED <<up, session, bounds>>
          /\ \/ call' = call
             \/ rpc[c].phase = "stream" /\ call' = [call EXCEPT ![rpc[c].runs] = Free]
      BY <2>10 DEF StreamFails, RunsTo
    <3> QED BY <3>1, <3>2, <3>3, <3>4, ReportStep
  <2>11. ASSUME NEW c \in Clients, ClientGoes(c) PROVE IInv'
    <3>1. Report(c, Idle) /\ rpc[c].phase = "stream"
      BY <2>11 DEF ClientGoes
    <3>2. UNCHANGED <<up, session, bounds>> /\ call' = call
      BY <2>11 DEF ClientGoes, backendVars
    <3> QED BY <3>1, <3>2, ReportStep
  <2>12. ASSUME NEW c \in Clients, StreamEnds(c) PROVE IInv'
    <3>1. /\ rpc[c].phase = "stream"
          /\ rpc' = [rpc EXCEPT ![c] = Idle]
          /\ call' = [call EXCEPT ![rpc[c].runs] = Free]
          /\ UNCHANGED <<home, live, released, up, session, rpcs, faults>>
      BY <2>12 DEF StreamEnds, RunsTo, poolVars, bounds
    <3>2. /\ DOMAIN call' = Calls
          /\ \A h \in Calls : call'[h] = call[h] \/ call'[h] = Free
          /\ \A d \in Clients \ {c} : RpcOK(rpc[d], call')
      BY <3>1, GiveUpOK
    <3>3. \A d \in Clients : /\ RpcOK(rpc'[d], call')
                             /\ rpc'[d].phase \in {"dial", "stream"} => rpc'[d] = rpc[d]
      BY <2>4, <3>1, <3>2, IdleOK
    <3> QED BY <2>4, <3>1, <3>2, <3>3, GatewayStep
  <2>13. ASSUME NEW gone \in SUBSET live, Vanish(gone) PROVE IInv'
    <3>1. /\ live' = live \ gone
          /\ home' = [k \in Keys |-> IF home[k] \in gone THEN NoInstance ELSE home[k]]
          /\ Release
          /\ rpc' = [c \in Clients |-> AfterClose(rpc[c], gone)]
          /\ UNCHANGED <<up, session, call, rpcs>>
          /\ faults < MaxFaults /\ faults' = faults + 1
      BY <2>13 DEF Vanish, backendVars
    <3>2. /\ home' \in [Keys -> Instances \union {NoInstance}]
          /\ \A p, q \in Keys : home'[p] = home'[q] /\ home'[p] # NoInstance => p = q
      BY <2>4, <3>1
    <3>3. \A i \in Instances \ released' : \A k \in Keys : home[k] = i => home'[k] = i
      BY <3>1, ReleaseKeeps
    <3>4. released' \subseteq Instances /\ released \subseteq released'
      BY <2>2, <3>1, ReleaseType DEF Release
    <3>5. \A d \in Clients : /\ RpcOK(rpc'[d], call')
                             /\ rpc'[d].phase \in {"dial", "stream"} => rpc'[d] = rpc[d]
      BY <2>3, <3>1, AfterCloseOK
    <3>6. faults' \in 0 .. MaxFaults
      BY <2>4, <3>1, BoundsAssumption
    <3>7. live' \subseteq Instances /\ DOMAIN rpc' = Clients /\ DOMAIN call' = Calls
      BY <2>4, <3>1
    <3> QED BY <2>4, <3>1, <3>2, <3>3, <3>4, <3>5, <3>6, <3>7, GatewayStep
  <2>14. ASSUME GatewayRestarts PROVE IInv'
    <3>1. /\ live' = {}
          /\ home' = [k \in Keys |-> NoInstance]
          /\ Release
          /\ rpc' = [c \in Clients |-> Idle]
          /\ UNCHANGED <<up, session, call, rpcs>>
          /\ faults < MaxFaults /\ faults' = faults + 1
      BY <2>14 DEF GatewayRestarts, backendVars
    <3>2. \A i \in Instances \ released' : \A k \in Keys : home[k] = i => home'[k] = i
      BY <3>1, ReleaseKeeps
    <3>3. released' \subseteq Instances /\ released \subseteq released'
      BY <2>2, <3>1, ReleaseType DEF Release
    <3>4. \A d \in Clients : /\ RpcOK(rpc'[d], call')
                             /\ rpc'[d].phase = "idle"
      BY <3>1, IdleOK
    <3>5. faults' \in 0 .. MaxFaults
      BY <2>4, <3>1, BoundsAssumption
    <3>6. /\ home' \in [Keys -> Instances \union {NoInstance}]
          /\ \A p, q \in Keys : home'[p] = home'[q] /\ home'[p] # NoInstance => p = q
      BY <3>1
    <3>7. DOMAIN rpc' = Clients /\ live' \subseteq Instances
      BY <3>1
    <3> QED BY <2>4, <3>1, <3>2, <3>3, <3>4, <3>5, <3>6, <3>7, GatewayStep
  <2>15. ASSUME NEW h \in Calls, ValidateSession(h) PROVE IInv'
    <3>1. CASE session[call[h].at] \in {NoKey, call[h].key}
      <4>1. /\ call[h].pc = "check" /\ call' = Goto(h, "set")
            /\ UNCHANGED <<poolVars, rpc, up, session, bounds>>
        BY <2>15, <3>1 DEF ValidateSession
      <4> QED BY <4>1, GotoStep
    <3>2. CASE session[call[h].at] \notin {NoKey, call[h].key}
      <4>1. /\ call[h].pc = "check" /\ call' = Goto(h, "failed")
            /\ UNCHANGED <<poolVars, rpc, up, session, bounds>>
        BY <2>15, <3>2 DEF ValidateSession
      <4>2. /\ call[h].at \in Instances /\ call[h].key \in Keys
            /\ session \in [Instances -> Keys \union {NoKey}]
        BY <2>2, <4>1 DEF TypeOK, HandlerOK
      <4>3. call[h].at \in released
        <5> SUFFICES ASSUME call[h].at \notin released PROVE FALSE
          OBVIOUS
        <5>1. Attached(call[h].at)
          BY <4>2 DEF IInv
        <5>2. home[session[call[h].at]] = call[h].at /\ home[call[h].key] = call[h].at
          BY <3>2, <5>1 DEF Attached
        <5>3. session[call[h].at] \in Keys /\ call[h].at # NoInstance
          BY <3>2, <4>2, NoInstanceAssumption
        <5> QED BY <2>4, <3>2, <4>2, <5>2, <5>3
      <4> QED BY <4>1, <4>3, GotoStep
    <3> QED BY <3>1, <3>2
  <2>16. ASSUME NEW h \in Calls, SetSession(h) PROVE IInv'
    <3>1. /\ call[h].pc = "set" /\ call' = Goto(h, "reply")
          /\ session' = [session EXCEPT ![call[h].at] = call[h].key]
          /\ UNCHANGED <<poolVars, rpc, up, bounds>>
      BY <2>16 DEF SetSession
    <3> QED BY <3>1, GotoStep
  <2>17. ASSUME NEW h \in Calls, Reply(h) PROVE IInv'
    <3>1. /\ call[h].pc = "reply" /\ call' = Goto(h, "replied")
          /\ UNCHANGED <<poolVars, rpc, up, session, bounds>>
      BY <2>17 DEF Reply
    <3> QED BY <3>1, GotoStep
  <2>18. ASSUME NEW h \in Calls, Shutdown(h) PROVE IInv'
    <3>1. /\ call[h].pc = "check" /\ call[h].kind = "shutdown"
          /\ call' = Goto(h, "replied") \/ call' = Goto(h, "failed")
          /\ UNCHANGED <<poolVars, rpc, up, session, bounds>>
      BY <2>18 DEF Shutdown
    <3> QED BY <3>1, GotoStep
  <2>19. ASSUME NEW h \in Calls, Leave(h) PROVE IInv'
    <3>1. /\ \A c \in Clients : rpc[c].runs # h
          /\ call' = [call EXCEPT ![h] = Free]
          /\ UNCHANGED <<home, live, released, rpc, up, session, rpcs, faults>>
      BY <2>19 DEF Leave, poolVars, bounds
    <3>2. \A c \in Clients : RpcOK(rpc'[c], call')
      BY <2>2, <3>1, FreeingOK
    <3>3. /\ DOMAIN call' = Calls /\ DOMAIN rpc' = Clients
          /\ \A g \in Calls : call'[g] = call[g] \/ call'[g] = Free
      BY <2>4, <3>1
    <3> QED BY <2>4, <3>1, <3>2, <3>3, GatewayStep
  <2>20. ASSUME NEW i \in Instances, Stop(i) PROVE IInv'
    BY <2>20, StopStep
  <2>21. ASSUME NEW i \in Instances, Boot(i) PROVE IInv'
    BY <2>21, BootStep
  <2> QED
    BY <2>1, <2>5, <2>6, <2>7, <2>8, <2>9, <2>10, <2>11, <2>12, <2>13, <2>14, <2>15, <2>16,
       <2>17, <2>18, <2>19, <2>20, <2>21 DEF Next
<1> QED BY <1>1, <1>2, PTL DEF Spec

\* Every variable keeps its type, and a call is led by the RPC it was started for only.
THEOREM TypeCorrect == Spec => []TypeOK
<1>1. IInv => TypeOK
  BY DEF IInv
<1> QED BY <1>1, InvariantHolds, PTL

\* No two processes hold one session at a time, unless one lost its binding and lives on.
THEOREM OneProcessPerSession == Spec => []SessionOnOneInstance
<1>1. IInv => SessionOnOneInstance
  <2> SUFFICES ASSUME IInv, NEW i \in Instances \ released, NEW j \in Instances \ released,
                      session[i] = session[j], session[i] # NoKey
               PROVE  i = j
    BY DEF SessionOnOneInstance
  <2>1. Attached(i) /\ Attached(j)
    BY DEF IInv
  <2> QED BY <2>1 DEF Attached
<1> QED BY <1>1, InvariantHolds, PTL

\* A session meets a process of another session only where a binding was given up.
THEOREM ConflictsAreLate == Spec => []ConflictOnlyAfterRelease
<1>1. IInv => ConflictOnlyAfterRelease
  <2> SUFFICES ASSUME IInv, NEW h \in Calls, call[h].at \notin released
               PROVE  /\ ~(call[h].pc = "failed" /\ call[h].kind # "shutdown")
                      /\ call[h].pc = "reply" => session[call[h].at] = call[h].key
    BY DEF ConflictOnlyAfterRelease
  <2>1. HandlerOK(call[h], up) /\ up \subseteq Instances
    BY DEF IInv, TypeOK
  <2>2. ~(call[h].pc = "failed" /\ call[h].kind # "shutdown")
    BY <2>1 DEF IInv, NoConflict, HandlerOK, Methods
  <2>3. ASSUME call[h].pc = "reply" PROVE session[call[h].at] = call[h].key
    <3>1. call[h].at \in Instances /\ call[h].key \in Keys
      BY <2>1, <2>3 DEF HandlerOK
    <3>2. Attached(call[h].at) /\ session[call[h].at] # NoKey
      BY <2>3, <3>1 DEF IInv, Remembers
    <3>3. home[session[call[h].at]] = call[h].at /\ home[call[h].key] = call[h].at
      BY <3>2 DEF Attached
    <3>4. session[call[h].at] \in Keys
      BY <3>1, <3>2 DEF IInv, TypeOK
    <3> QED BY <3>1, <3>3, <3>4, NoInstanceAssumption DEF IInv, OneToOne
  <2> QED BY <2>2, <2>3
<1> QED BY <1>1, InvariantHolds, PTL

-----------------------------------------------------------------------------
(* The pool as its users see it *)

\* A session uses an instance if one of its RPCs holds a lease on it.
LEMMA UsingMeans ==
    \A u : u \in Using <=>
        \E c \in Clients : rpc[c].at # NoInstance /\ u = <<rpc[c].key, rpc[c].at>>
BY DEF Using

\* Leases that stay where they are.
LEMMA UsingSame ==
    ASSUME \A d \in Clients : rpc'[d].at = rpc[d].at,
           \A d \in Clients : rpc[d].at # NoInstance => rpc'[d].key = rpc[d].key
    PROVE  Using' = Using
BY DEF Using

\* One lease more.
LEMMA UsingMore ==
    ASSUME NEW c \in Clients, NEW k, NEW i, i # NoInstance,
           rpc[c].at = NoInstance,
           rpc'[c].at = i, rpc'[c].key = k,
           \A d \in Clients \ {c} : rpc'[d] = rpc[d]
    PROVE  Using' = Using \union {<<k, i>>}
<1> DEFINE u == <<k, i>>
<1>1. ASSUME NEW v, v \in Using' PROVE v \in Using \union {u}
  <2>1. PICK d \in Clients : rpc'[d].at # NoInstance /\ v = <<rpc'[d].key, rpc'[d].at>>
    BY <1>1 DEF Using
  <2>2. CASE d = c
    BY <2>1, <2>2
  <2>3. CASE d # c
    <3>1. rpc'[d] = rpc[d]
      BY <2>3
    <3> QED BY <2>1, <3>1, UsingMeans
  <2> QED BY <2>2, <2>3
<1>2. ASSUME NEW v, v \in Using PROVE v \in Using'
  <2>1. PICK d \in Clients : rpc[d].at # NoInstance /\ v = <<rpc[d].key, rpc[d].at>>
    BY <1>2, UsingMeans
  <2>2. rpc'[d] = rpc[d]
    BY <2>1
  <2> QED BY <2>1, <2>2 DEF Using
<1>3. u \in Using'
  BY DEF Using
<1> QED BY <1>1, <1>2, <1>3

\* One lease less, of a session that may hold another one on the same instance.
LEMMA UsingLess ==
    ASSUME NEW c \in Clients, rpc[c].at # NoInstance, rpc'[c].at = NoInstance,
           \A d \in Clients \ {c} : rpc'[d].at = rpc[d].at /\ rpc'[d].key = rpc[d].key
    PROVE  /\ <<rpc[c].key, rpc[c].at>> \in Using
           /\ Using' \in {Using, Using \ {<<rpc[c].key, rpc[c].at>>}}
<1> DEFINE u == <<rpc[c].key, rpc[c].at>>
<1>1. u \in Using
  BY UsingMeans
<1>2. ASSUME NEW v, v \in Using' PROVE v \in Using
  <2>1. PICK d \in Clients : rpc'[d].at # NoInstance /\ v = <<rpc'[d].key, rpc'[d].at>>
    BY <1>2 DEF Using
  <2>2. d # c /\ rpc'[d].at = rpc[d].at /\ rpc'[d].key = rpc[d].key
    BY <2>1
  <2> QED BY <2>1, <2>2, UsingMeans
<1>3. ASSUME NEW v, v \in Using, v # u PROVE v \in Using'
  <2>1. PICK d \in Clients : rpc[d].at # NoInstance /\ v = <<rpc[d].key, rpc[d].at>>
    BY <1>3, UsingMeans
  <2>2. d # c
    BY <1>3, <2>1
  <2>3. rpc'[d].at = rpc[d].at /\ rpc'[d].key = rpc[d].key
    BY <2>2
  <2> QED BY <2>1, <2>3 DEF Using
<1>4. CASE u \in Using'
  BY <1>1, <1>2, <1>3, <1>4
<1>5. CASE u \notin Using'
  <2>1. Using' = Using \ {u}
    BY <1>2, <1>3, <1>5
  <2> QED BY <1>1, <2>1
<1> QED BY <1>1, <1>4, <1>5

\* A lease on a closed connection is one on its instance.
LEMMA AfterClosePlace ==
    ASSUME NEW r, NEW gone
    PROVE  AfterClose(r, gone).at = r.at /\ AfterClose(r, gone).key = r.key
BY RpcFields DEF AfterClose

\* A report is a failure of the instance of one of its users.
LEMMA ReportIsFailure ==
    ASSUME IInv, NEW c \in Clients, rpc[c].phase \in {"dial", "stream", "broken"},
           NEW next, next.at = NoInstance, Report(c, next)
    PROVE  Pool!Next
<1>1. \A d \in Clients : RpcOK(rpc[d], call)
  BY DEF IInv, TypeOK
<1>2. rpc[c].key \in Keys /\ rpc[c].at \in Instances /\ rpc[c].at # NoInstance
  BY <1>1, RpcMeans, NoInstanceAssumption
<1>3. /\ home' = Bind(rpc[c].key, NoInstance)
      /\ live' = live \ {rpc[c].at}
      /\ rpc' = [d \in Clients |-> IF d = c THEN next
                                   ELSE AfterClose(rpc[d], {rpc[c].at})]
  BY DEF Report, Disconnect
<1>4. rpc'[c].at = NoInstance
  BY <1>3
<1>5. \A d \in Clients \ {c} : rpc'[d].at = rpc[d].at /\ rpc'[d].key = rpc[d].key
  BY <1>3, AfterClosePlace
<1> DEFINE u == <<rpc[c].key, rpc[c].at>>
<1>6. u \in Using /\ Using' \in {Using, Using \ {u}}
  BY <1>2, <1>4, <1>5, UsingLess
<1>7. home' = [k \in Keys |-> IF k = u[1] THEN NoInstance ELSE home[k]]
  BY <1>3 DEF Bind, IInv, TypeOK
<1>8. live' = live \ {u[2]}
  BY <1>3
<1>9. Pool!Fail(u)
  BY <1>6, <1>7, <1>8 DEF Pool!Fail
<1>10. u \in (Keys \union {NoKey}) \X Instances
  BY <1>2
<1> QED BY <1>9, <1>10 DEF Pool!Next

\* The handlers of RPCs use the pool as SessionAffinity allows, and need no more of it;
\* between two starts of the gateway the pool keeps what it promised to the sessions.
THEOREM HandlersUsePool == Spec => PoolKeepsPromise
<1>1. Init => Pool!Init
  BY IdleOK DEF Init, Pool!Init, Using
<1>2. IInv /\ [Next]_vars => [Pool!Next \/ GatewayRestarts]_(Pool!vars)
  <2> SUFFICES ASSUME IInv, [Next]_vars
               PROVE  Pool!Next \/ GatewayRestarts \/ UNCHANGED Pool!vars
    OBVIOUS
  <2>1. CASE UNCHANGED vars
    BY <2>1 DEF vars, poolVars, Pool!vars, Using
  <2>2. /\ \A c \in Clients : RpcOK(rpc[c], call)
        /\ DOMAIN rpc = Clients
        /\ home \in [Keys -> Instances \union {NoInstance}]
        /\ live \subseteq Instances
    BY DEF IInv, TypeOK
  <2>3. ASSUME rpc' = rpc, home' = home, live' = live PROVE UNCHANGED Pool!vars
    BY <2>3 DEF Pool!vars, Using
  <2>4. ASSUME NEW c \in Clients, NEW k \in Keys, NEW wants \in Methods, Arrive(c, wants, k)
        PROVE  UNCHANGED Pool!vars
    <3>1. rpc[c].at = NoInstance
      BY <2>2, <2>4, RpcMeans DEF Arrive
    <3>2. rpc'[c].at = NoInstance /\ \A d \in Clients \ {c} : rpc'[d] = rpc[d]
      BY <2>2, <2>4 DEF Arrive, Rpc
    <3>3. Using' = Using
      BY <3>1, <3>2, UsingSame
    <3> QED BY <2>4, <3>3 DEF Arrive, poolVars, Pool!vars
  <2>5. ASSUME NEW c \in Clients, VisitHome(c) PROVE Pool!Next
    <3> DEFINE k == rpc[c].key
    <3>1. rpc[c].at = NoInstance /\ k \in Keys
      BY <2>2, <2>5, RpcMeans DEF VisitHome
    <3>2. home[k] \in live /\ home[k] # NoInstance
      BY <2>2, <2>5, NoInstanceAssumption DEF VisitHome, AtHome
    <3>3. /\ rpc'[c] = Rpc("dial", rpc[c].wants, k, home[k], NoCall, rpc[c].denied)
          /\ \A d \in Clients \ {c} : rpc'[d] = rpc[d]
      BY <2>2, <2>5 DEF VisitHome, Leased
    <3>4. rpc'[c].at = home[k] /\ rpc'[c].key = k
      BY <3>3, RpcFields
    <3>5. Using' = Using \union {<<k, home[k]>>}
      BY <3>1, <3>2, <3>3, <3>4, UsingMore
    <3>6. Pool!Visit(k)
      BY <2>5, <3>2, <3>5 DEF Pool!Visit, Pool!AtHome, VisitHome, poolVars
    <3> QED BY <3>1, <3>6 DEF Pool!Next
  <2>6. ASSUME NEW c \in Clients, NEW i \in Instances, Settle(c, i) PROVE Pool!Next
    <3> DEFINE k == rpc[c].key
    <3>1. rpc[c].at = NoInstance /\ k \in Keys
      BY <2>2, <2>6, RpcMeans DEF Settle
    <3>2. /\ rpc'[c] = Rpc("dial", rpc[c].wants, k, i, NoCall, rpc[c].denied)
          /\ \A d \in Clients \ {c} : rpc'[d] = rpc[d]
      BY <2>2, <2>6 DEF Settle, Leased
    <3>3. rpc'[c].at = i /\ rpc'[c].key = k
      BY <3>2, RpcFields
    <3>4. Using' = Using \union {<<k, i>>}
      BY <3>1, <3>2, <3>3, UsingMore, NoInstanceAssumption
    <3>5. Pool!Settle(k, i)
      BY <2>6, <3>4 DEF Pool!Settle, Pool!AtHome, Settle, AtHome, IsFree, Bind
    <3> QED BY <3>1, <3>5 DEF Pool!Next
  <2>7. ASSUME NEW c \in Clients, NoInstanceLeft(c) PROVE Pool!Next
    <3> DEFINE k == rpc[c].key
    <3>1. rpc[c].at = NoInstance /\ k \in Keys
      BY <2>2, <2>7, RpcMeans DEF NoInstanceLeft
    <3>2. rpc'[c].at = NoInstance /\ \A d \in Clients \ {c} : rpc'[d] = rpc[d]
      BY <2>2, <2>7, IdleOK DEF NoInstanceLeft
    <3>3. Using' = Using
      BY <3>1, <3>2, UsingSame
    <3>4. Pool!Refuse(k)
      BY <2>7, <3>3 DEF Pool!Refuse, Pool!AtHome, NoInstanceLeft, AtHome, Bind
    <3> QED BY <3>1, <3>4 DEF Pool!Next
  <2>8. ASSUME NEW c \in Clients, NewStream(c) PROVE UNCHANGED Pool!vars
    <3>1. PICK h \in Calls : rpc' = [rpc EXCEPT ![c] = Rpc("stream", rpc[c].wants, rpc[c].key,
                                                          rpc[c].at, h, rpc[c].denied)]
      BY <2>8 DEF NewStream
    <3>2. \A d \in Clients : rpc'[d].at = rpc[d].at /\ rpc'[d].key = rpc[d].key
      BY <2>2, <3>1, RpcFields
    <3>3. Using' = Using
      BY <3>2, UsingSame
    <3> QED BY <2>8, <3>3 DEF NewStream, poolVars, Pool!vars
  <2>9. ASSUME NEW c \in Clients, StreamFails(c) PROVE Pool!Next
    <3>1. rpc[c].phase \in {"dial", "stream", "broken"}
      BY <2>9 DEF StreamFails, RunsTo
    <3>2. PICK next : /\ Report(c, next)
                      /\ next = Idle \/ next = Seeking(c, rpc[c].denied \/ Denied(c))
      BY <2>9 DEF StreamFails
    <3>3. next.at = NoInstance
      BY <3>2, IdleOK DEF Seeking, Rpc
    <3> QED BY <3>1, <3>2, <3>3, ReportIsFailure
  <2>10. ASSUME NEW c \in Clients, ClientGoes(c) PROVE Pool!Next
    BY <2>10, IdleOK, ReportIsFailure DEF ClientGoes
  <2>11. ASSUME NEW c \in Clients, StreamEnds(c) PROVE Pool!Next \/ UNCHANGED Pool!vars
    <3> DEFINE u == <<rpc[c].key, rpc[c].at>>
    <3>1. /\ rpc[c].phase = "stream" /\ rpc' = [rpc EXCEPT ![c] = Idle]
          /\ home' = home /\ live' = live
      BY <2>11 DEF StreamEnds, RunsTo, poolVars
    <3>2. rpc[c].key \in Keys /\ rpc[c].at \in Instances /\ rpc[c].at # NoInstance
      BY <2>2, <3>1, RpcMeans, NoInstanceAssumption
    <3>3. rpc'[c].at = NoInstance /\ \A d \in Clients \ {c} : rpc'[d] = rpc[d]
      BY <2>2, <3>1, IdleOK
    <3>4. Using' \in {Using, Using \ {u}}
      BY <3>2, <3>3, UsingLess
    <3>5. CASE Using' = Using
      BY <3>1, <3>5 DEF Pool!vars
    <3>6. CASE Using' = Using \ {u}
      <4>1. Pool!Leave(u)
        BY <3>1, <3>6 DEF Pool!Leave
      <4>2. u \in (Keys \union {NoKey}) \X Instances
        BY <3>2
      <4> QED BY <4>1, <4>2 DEF Pool!Next
    <3> QED BY <3>4, <3>5, <3>6
  <2>12. ASSUME NEW gone \in SUBSET live, Vanish(gone) PROVE Pool!Next
    <3>1. \A d \in Clients : rpc'[d].at = rpc[d].at /\ rpc'[d].key = rpc[d].key
      BY <2>12, AfterClosePlace DEF Vanish
    <3>2. Using' = Using
      BY <3>1, UsingSame
    <3>3. Pool!Vanish(gone)
      BY <2>12, <3>2 DEF Vanish, Pool!Vanish
    <3> QED BY <3>3 DEF Pool!Next
  <2>13. ASSUME NEW i \in Instances, Stop(i) PROVE UNCHANGED Pool!vars
    <3>1. \A d \in Clients : rpc'[d].at = rpc[d].at /\ rpc'[d].key = rpc[d].key
      BY <2>13, AfterClosePlace DEF Stop
    <3>2. Using' = Using
      BY <3>1, UsingSame
    <3> QED BY <2>13, <3>2 DEF Stop, poolVars, Pool!vars
  <2>14. ASSUME NEW i \in Instances, Boot(i) PROVE UNCHANGED Pool!vars
    BY <2>3, <2>14 DEF Boot
  <2>15. ASSUME NEW h \in Calls,
                \/ ValidateSession(h) \/ SetSession(h) \/ Reply(h) \/ Shutdown(h) \/ Leave(h)
         PROVE  UNCHANGED Pool!vars
    BY <2>3, <2>15 DEF ValidateSession, SetSession, Reply, Shutdown, Leave, poolVars
  <2> QED
    BY <2>1, <2>4, <2>5, <2>6, <2>7, <2>8, <2>9, <2>10, <2>11, <2>12, <2>13, <2>14, <2>15
       DEF Next
<1> QED BY <1>1, <1>2, InvariantHolds, PTL DEF Spec, PoolKeepsPromise

=============================================================================
