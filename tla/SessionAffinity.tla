--------------------------- MODULE SessionAffinity ---------------------------
(***************************************************************************)
(* What a connection pool promises to the sessions of one cluster, without *)
(* the list of instances, the rotation, the connection objects, the        *)
(* discoverer and its snapshots (interfaces/connection_pool.go): a session *)
(* has at most one home, a home has at most one session, and a session     *)
(* changes its home only after the home was lost or one of its own users   *)
(* reported a failure.                                                     *)
(***************************************************************************)

CONSTANTS InstanceIDs, Keys, NoInstance, NoKey

VARIABLES
    home,   \* the instance each session is bound to, or NoInstance
    live,   \* the instances the pool is connected to
    using,  \* <<session, instance>> for the calls in flight
    closed

vars == <<home, live, using, closed>>

Init ==
    /\ home = [k \in Keys |-> NoInstance]
    /\ live = {}
    /\ using = {}
    /\ closed = FALSE

AtHome(k) == home[k] \in live

\* A call of session k is sent to the home the session has.
Visit(k) ==
    /\ ~closed
    /\ AtHome(k)
    /\ using' = using \union {<<k, home[k]>>}
    /\ UNCHANGED <<home, live, closed>>

\* A session without a live home moves to an instance no other session has.
Settle(k, i) ==
    /\ ~closed
    /\ ~AtHome(k)
    /\ \A q \in Keys \ {k} : home[q] # i
    /\ home' = [home EXCEPT ![k] = i]
    /\ live' = live \union {i}
    /\ using' = using \union {<<k, i>>}
    /\ UNCHANGED closed

\* No instance is found for a session: it also forgets the home it lost.
Refuse(k) ==
    /\ ~closed
    /\ ~AtHome(k)
    /\ home' = [home EXCEPT ![k] = NoInstance]
    /\ UNCHANGED <<live, using, closed>>

\* A call without a session may be sent to any instance.
Pass(i) ==
    /\ ~closed
    /\ live' = live \union {i}
    /\ using' = using \union {<<NoKey, i>>}
    /\ UNCHANGED <<home, closed>>

\* Calls end: of those of one session on one instance some, or all.
Leave(u) ==
    /\ using' = using \ {u}
    /\ UNCHANGED <<home, live, closed>>

\* A call reports the failure of the instance it uses.
Fail(u) ==
    /\ u \in using
    /\ home' = [k \in Keys |-> IF k = u[1] THEN NoInstance ELSE home[k]]
    /\ live' = live \ {u[2]}
    /\ using' \in {using, using \ {u}}
    /\ UNCHANGED closed

\* Instances disappear, and with each the session that lived there.
Vanish(gone) ==
    /\ live' = live \ gone
    /\ home' = [k \in Keys |-> IF home[k] \in gone THEN NoInstance ELSE home[k]]
    /\ UNCHANGED <<using, closed>>

Close ==
    /\ ~closed
    /\ closed' = TRUE
    /\ live' = {}
    /\ home' = [k \in Keys |-> NoInstance]
    /\ UNCHANGED using

Next ==
    \/ \E k \in Keys : Visit(k) \/ Refuse(k)
    \/ \E k \in Keys, i \in InstanceIDs : Settle(k, i)
    \/ \E i \in InstanceIDs : Pass(i)
    \/ \E u \in (Keys \union {NoKey}) \X InstanceIDs : Leave(u) \/ Fail(u)
    \/ \E gone \in SUBSET live : Vanish(gone)
    \/ Close

Spec == Init /\ [][Next]_vars

=============================================================================
