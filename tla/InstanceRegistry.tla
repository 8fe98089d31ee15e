-------------------------- MODULE InstanceRegistry --------------------------
(***************************************************************************)
(* What a discoverer promises the gateways that list it, without time,     *)
(* requests, heartbeats and keys (interfaces/discoverer.go): an answer     *)
(* names every instance that was registered all the time the inquiry took, *)
(* and none that was not registered at some moment of it.                  *)
(***************************************************************************)

CONSTANTS InstanceIDs, NoInquiry

VARIABLES
    present,  \* the registered instances
    inquiry,  \* the inquiry in progress: [must, may], or NoInquiry
    answer    \* the last answer given

vars == <<present, inquiry, answer>>

Init ==
    /\ present \in SUBSET InstanceIDs
    /\ inquiry = NoInquiry
    /\ answer = {}

\* The inquiry in progress sees the registry change to now.
Seen(now) ==
    IF inquiry = NoInquiry THEN NoInquiry
    ELSE [must |-> inquiry.must \intersect now, may |-> inquiry.may \union now]

\* Instances register, are unregistered or expire.
Change ==
    /\ present' \in SUBSET InstanceIDs
    /\ inquiry' = Seen(present')
    /\ UNCHANGED answer

Ask ==
    /\ inquiry = NoInquiry
    /\ inquiry' = [must |-> present, may |-> present]
    /\ UNCHANGED <<present, answer>>

Answer ==
    /\ inquiry # NoInquiry
    /\ answer' \in SUBSET inquiry.may
    /\ inquiry.must \subseteq answer'
    /\ inquiry' = NoInquiry
    /\ UNCHANGED present

Next == Change \/ Ask \/ Answer

Spec == Init /\ [][Next]_vars

=============================================================================
