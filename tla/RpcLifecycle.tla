---------------------------- MODULE RpcLifecycle ----------------------------
(***************************************************************************)
(* What the handler of one RPC promises to the resolver of connections     *)
(* (interfaces/connection_resolver.go), without its goroutines, its        *)
(* messages and its client: it holds one connection at a time, reports     *)
(* each that failed it before it asks for the next, stops at its budget,   *)
(* and answers OK only over a connection that it keeps.  ConnectionPool    *)
(* and Gateway rely on no more than that.                                  *)
(***************************************************************************)
EXTENDS Naturals

CONSTANTS
    RetryCount,
    Leases      \* the numbers of the connections an RPC may be given, from 1

VARIABLES
    retryable,  \* the cluster is dynamic
    phase,      \* new, seek, dial, stream, over
    leases,     \* how many connections the RPC was given
    reported,   \* how often each was reported as failed
    answer      \* none, ok, error

vars == <<retryable, phase, leases, reported, answer>>

\* What the attempts of one stream and the transfers multiply to.  The documentation
\* speaks of RetryCount (TransparentProxy!DocRetryBudget).
Budget == IF retryable THEN RetryCount * RetryCount ELSE 1

Init ==
    /\ retryable \in BOOLEAN
    /\ phase = "new"
    /\ leases = 0
    /\ reported = [x \in Leases |-> 0]
    /\ answer = "none"

\* The RPC is not routed or not allowed, or no connection is found for it.
Refuse ==
    /\ phase \in {"new", "seek"}
    /\ phase' = "over"
    /\ answer' = "error"
    /\ UNCHANGED <<retryable, leases, reported>>

Admit ==
    /\ phase = "new"
    /\ phase' = "seek"
    /\ UNCHANGED <<retryable, leases, reported, answer>>

Take ==
    /\ phase = "seek"
    /\ leases < Budget
    /\ leases' = leases + 1
    /\ phase' = "dial"
    /\ UNCHANGED <<retryable, reported, answer>>

Open ==
    /\ phase = "dial"
    /\ phase' = "stream"
    /\ UNCHANGED <<retryable, leases, reported, answer>>

\* The connection is reported, and another one looked for or the RPC given up.
Fail ==
    /\ phase \in {"dial", "stream"}
    /\ reported' = [reported EXCEPT ![leases] = @ + 1]
    /\ \/ retryable /\ phase' = "seek" /\ UNCHANGED answer
       \/ phase' = "over" /\ answer' = "error"
    /\ UNCHANGED <<retryable, leases>>

Succeed ==
    /\ phase = "stream"
    /\ phase' = "over"
    /\ answer' = "ok"
    /\ UNCHANGED <<retryable, leases, reported>>

Next == Refuse \/ Admit \/ Take \/ Open \/ Fail \/ Succeed

Spec == Init /\ [][Next]_vars

=============================================================================
