---------------------------- MODULE PoolRotation ----------------------------
(***************************************************************************)
(* The order in which GetConnectionRoundRobin hands out the instances.  A  *)
(* history variable remembers the round in progress: the instances handed  *)
(* out since the last full round, or since the list changed or some        *)
(* instance of it was not connected.                                       *)
(***************************************************************************)
EXTENDS ConnectionPool

VARIABLE served

\* Call c just got a connection from the rotation.
HandedOut(c) == calls[c] = Idle /\ calls'[c] # Idle /\ calls'[c].key = NoKey

\* No instance of the list needs to be dialled, so none can be passed over.
AllConnected == Listed \subseteq Connected

RecordRound ==
    served' =
        IF instances' # instances \/ ~AllConnected THEN {}
        ELSE LET now == served \union {calls'[c].id : c \in {d \in Calls : HandedOut(d)}} IN
             IF now = Listed THEN {} ELSE now

RotationInit == Init /\ served = {}
RotationNext == Next /\ RecordRound
RotationSpec == RotationInit /\ [][RotationNext]_<<vars, served>>

\* Round robin is even: while the list stands and all of it is connected,
\* nobody gets a second turn before everybody had one, however sticky calls,
\* failed refreshes and reinstalled identical lists come in between
\* (GetConnectionRoundRobin, connection_pool.go:132-141).
EvenRotation ==
    [][\A c \in Calls : HandedOut(c) => calls'[c].id \notin served]_<<vars, served>>

\* The positions of the list that had their turn in a round that began at position s:
\* from s up to p.rr, past the end of the list if need be.
Turns(s) ==
    IF s <= rr THEN s .. rr - 1 ELSE (s .. Len(instances) - 1) \union (0 .. rr - 1)

\* The inductive invariant behind EvenRotation: the instances handed out lie in one
\* piece behind p.rr, and a round is under way only while nobody needs to be dialled.
RoundAccount ==
    /\ served # {} => AllConnected \/ closed
    /\ \E s \in 0 .. Len(instances) :
        /\ s < Len(instances) \/ s = 0
        /\ served = {instances[p + 1] : p \in Turns(s)}

=============================================================================
