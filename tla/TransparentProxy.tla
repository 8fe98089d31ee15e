-------------------------- MODULE TransparentProxy --------------------------
(***************************************************************************)
(* One RPC through the handler of MyGateway (MyGateway/service/            *)
(* transparent.go): the handler goroutine, the two forwarding goroutines   *)
(* it starts per stream, the timer that bounds an attempt to open a        *)
(* stream, and around them the client and the backends.                    *)
(*                                                                         *)
(* The backend streams of the RPC are numbered in the order in which       *)
(* GetConnection was called for them.  A stream carries the numbers of the *)
(* client messages its backend received; payloads, metadata and status     *)
(* texts are left out.  The connection resolver is outside: GetConnection  *)
(* answers or fails as it likes, and every OnBackendFailure is counted.    *)
(***************************************************************************)
EXTENDS Integers, FiniteSets

CONSTANTS
    RetryCount,  \* p.retryCount (RETRY_COUNT, at least 1)
    Messages,    \* how many messages a client may send
    MaxReplies   \* bound: replies of one backend stream

ASSUME RetryCountPositive == RetryCount \in Nat \ {0}
ASSUME ClientBounds == Messages \in Nat /\ MaxReplies \in Nat

\* Bound: one more stream than LeaseBound says the handler can open.
Streams == 1 .. RetryCount * RetryCount + 1

VARIABLES
    retryable,       \* the route's cluster is dynamic
    pc,              \* where the handler goroutine is
    attempt,         \* loop variable of openBackendStream
    transferAttempt, \* loop variable of the transfer loop
    leased,          \* how many times GetConnection returned a connection
    stream,          \* state: the stream last opened, 0 before the first
    firstClientMsg,  \* the handler holds the first client message
    firstCh,         \* firstClientMsgCh holds it
    status,          \* what became of each stream
    got,             \* the client messages each backend received
    halfClosed,      \* CloseSend was called on the stream
    reported,        \* how many times OnBackendFailure named the stream's lease
    s2c,             \* the goroutine of forwardServerToClient, or what it returned
    c2s,             \* for each stream the goroutine of forwardClientToServer
    replies,         \* replies received from each stream
    client,          \* sent, read: messages; closed: half-closed; gone: cancelled
    result           \* what the handler returned

handlerVars == <<pc, attempt, transferAttempt, leased, stream, firstClientMsg, result>>
streamVars == <<status, got, halfClosed, replies>>
vars == <<retryable, handlerVars, firstCh, streamVars, reported, s2c, c2s, client>>

-----------------------------------------------------------------------------

Init ==
    /\ retryable \in BOOLEAN
    /\ pc = "start"
    /\ attempt = 0
    /\ transferAttempt = 0
    /\ leased = 0
    /\ stream = 0
    /\ firstClientMsg = FALSE
    /\ firstCh = FALSE
    /\ status = [x \in Streams |-> "none"]
    /\ got = [x \in Streams |-> {}]
    /\ halfClosed = [x \in Streams |-> FALSE]
    /\ reported = [x \in Streams |-> 0]
    /\ s2c = "off"
    /\ c2s = [x \in Streams |-> "off"]
    /\ replies = [x \in Streams |-> 0]
    /\ client = [sent |-> 0, read |-> 0, closed |-> FALSE, gone |-> FALSE]
    /\ result = "none"

\* Mutant: the failure of a new stream is reported for the one in state.
ReportState(x) == reported' = [reported EXCEPT ![IF stream = 0 THEN x ELSE stream] = @ + 1]

\* OnBackendFailure for the lease of stream x.
Report(x) == reported' = [reported EXCEPT ![x] = @ + 1]

\* Mutant: streamCancel is forgotten.
NotCancelled(x) == status

\* streamCancel of stream x.
Cancelled(x) == IF x # 0 /\ status[x] = "live" THEN [status EXCEPT ![x] = "cancelled"] ELSE status

\* The handler returns; the deferred function cancels the stream in state.
Return(r) ==
    /\ pc' = "done"
    /\ result' = r
    /\ status' = Cancelled(stream)

\* Lines 74-89: the method is missing or not routed, or the headers are refused.
Reject ==
    /\ pc = "start"
    /\ Return("rejected")
    /\ UNCHANGED <<retryable, attempt, transferAttempt, leased, stream, firstClientMsg,
                   firstCh, got, halfClosed, replies, reported, s2c, c2s, client>>

Accept ==
    /\ pc = "start"
    /\ pc' = "open"
    /\ UNCHANGED <<retryable, attempt, transferAttempt, leased, stream, firstClientMsg,
                   result, firstCh, streamVars, reported, s2c, c2s, client>>

-----------------------------------------------------------------------------
(* openBackendStream *)

GetConnection ==
    /\ pc = "open"
    /\ leased + 1 \in Streams
    /\ leased' = leased + 1
    /\ pc' = "dial"
    /\ UNCHANGED <<retryable, attempt, transferAttempt, stream, firstClientMsg, result,
                   firstCh, streamVars, reported, s2c, c2s, client>>

\* An error of GetConnection is returned whatever was tried before.
GetConnectionFails ==
    /\ pc = "open"
    /\ Return("unconnected")
    /\ UNCHANGED <<retryable, attempt, transferAttempt, leased, stream, firstClientMsg,
                   firstCh, got, halfClosed, replies, reported, s2c, c2s, client>>

\* NewStream succeeded.  On a dynamic cluster the timer may fire before it is
\* stopped: then the stream is returned as good and already cancelled.
NewStream ==
    /\ pc = "dial"
    /\ ~client.gone
    /\ \E outcome \in {"live"} \union (IF retryable THEN {"cancelled"} ELSE {}) :
        status' = [status EXCEPT ![leased] = outcome]
    /\ stream' = leased
    /\ IF stream = 0
       THEN /\ pc' = "forward"
            /\ UNCHANGED transferAttempt
       ELSE /\ pc' = "replay"
            /\ transferAttempt' = transferAttempt + 1
    /\ UNCHANGED <<retryable, attempt, leased, firstClientMsg, result, firstCh, got, halfClosed,
                   replies, reported, s2c, c2s, client>>

\* Mutants: the last attempt is not the last; a static cluster is retried as well.
OneRetryMore == retryable /\ attempt < RetryCount
RetriesOfAnyCluster == attempt < RetryCount - 1

\* Lines 107 and 122; a static cluster has a single attempt (lines 128-139).
RetriesLeft == retryable /\ attempt < RetryCount - 1

\* NewStream failed, was cancelled by the timer or by the client going away.
NewStreamFails ==
    /\ pc = "dial"
    /\ Report(leased)
    /\ IF RetriesLeft
       THEN /\ pc' = "open"
            /\ attempt' = attempt + 1
            /\ UNCHANGED <<result, status>>
       ELSE /\ Return("failed")
            /\ UNCHANGED attempt
    /\ UNCHANGED <<retryable, transferAttempt, leased, stream, firstClientMsg, firstCh,
                   got, halfClosed, replies, s2c, c2s, client>>

-----------------------------------------------------------------------------
(* The first stream: two goroutines and the select loop *)

\* Lines 198-199.
StartForwarding ==
    /\ pc = "forward"
    /\ s2c' = "recv"
    /\ c2s' = [c2s EXCEPT ![stream] = "run"]
    /\ pc' = "select"
    /\ UNCHANGED <<retryable, attempt, transferAttempt, leased, stream, firstClientMsg,
                   result, firstCh, streamVars, reported, client>>

\* The first stream is over for the handler with an error: the lease is
\* reported, the stream cancelled, and the RPC is either moved or given up.
AbandonStream(mayTransfer) ==
    /\ Report(stream)
    /\ IF mayTransfer
       THEN /\ pc' = "open"
            /\ attempt' = 0
            /\ status' = Cancelled(stream)
            /\ UNCHANGED result
       ELSE /\ Return("failed")
            /\ UNCHANGED attempt

TransfersLeft == retryable /\ transferAttempt < RetryCount - 1 /\ ~client.gone

\* Mutant: the stream is left open for more client messages.
NoCloseSend(x) == UNCHANGED halfClosed

CloseSend(x) == halfClosed' = [halfClosed EXCEPT ![x] = TRUE]

\* s2cErr is io.EOF: the client has half-closed, or SendMsg found the backend
\* stream broken; the handler cannot tell and waits for the other goroutine.
\* After a second one the loop would end in "unexpected proxy termination".
SelectClientEOF ==
    /\ pc \in {"select", "select2"}
    /\ s2c = "eof"
    /\ s2c' = "taken"
    /\ CloseSend(stream)
    /\ IF pc = "select"
       THEN /\ pc' = "select2"
            /\ UNCHANGED <<result, status>>
       ELSE Return("unexpected")
    /\ UNCHANGED <<retryable, attempt, transferAttempt, leased, stream, firstClientMsg,
                   firstCh, got, replies, reported, c2s, client>>

\* The non-blocking receive from firstClientMsgCh (lines 208-211, 228-231).
TakeFirstMessage ==
    /\ firstClientMsg' = (firstClientMsg \/ firstCh)
    /\ firstCh' = FALSE

\* Mutant: a stream is moved although there is nothing to replay.
MoveEmptyHanded == TransfersLeft

\* Lines 214 and 234.
MayTransfer == firstClientMsg' /\ TransfersLeft

SelectClientError ==
    /\ pc \in {"select", "select2"}
    /\ s2c = "err"
    /\ s2c' = "taken"
    /\ TakeFirstMessage
    /\ AbandonStream(MayTransfer)
    /\ UNCHANGED <<retryable, transferAttempt, leased, stream, got, halfClosed, replies,
                   c2s, client>>

SelectBackendEOF ==
    /\ pc \in {"select", "select2"}
    /\ c2s[stream] = "eof"
    /\ c2s' = [c2s EXCEPT ![stream] = "taken"]
    /\ Return("ok")
    /\ UNCHANGED <<retryable, attempt, transferAttempt, leased, stream, firstClientMsg,
                   firstCh, got, halfClosed, replies, reported, s2c, client>>

SelectBackendError ==
    /\ pc \in {"select", "select2"}
    /\ c2s[stream] = "err"
    /\ c2s' = [c2s EXCEPT ![stream] = "taken"]
    /\ TakeFirstMessage
    /\ AbandonStream(MayTransfer)
    /\ UNCHANGED <<retryable, transferAttempt, leased, stream, got, halfClosed, replies,
                   s2c, client>>

-----------------------------------------------------------------------------
(* A transferred stream: the first client message is replayed *)

\* Mutant: the half-close is sent without the message.
ReplayNothing == got

Replayed == [got EXCEPT ![stream] = IF status[stream] = "live" THEN {1} ELSE {}]

\* Lines 168-179: the message and the half-close are sent, the reading goroutine
\* starts.  SendMsg fails on a stream that is known to be over.
Replay ==
    /\ pc = "replay"
    /\ firstClientMsg
    /\ status[stream] # "cancelled"
    /\ got' = Replayed
    /\ CloseSend(stream)
    /\ c2s' = [c2s EXCEPT ![stream] = "run"]
    /\ pc' = "await"
    /\ UNCHANGED <<retryable, attempt, transferAttempt, leased, stream, firstClientMsg,
                   result, firstCh, status, replies, reported, s2c, client>>

\* Lines 165-167 and 172-176: no message to replay, or SendMsg fails; no further
\* transfer after that.
ReplayFails ==
    /\ pc = "replay"
    /\ firstClientMsg => status[stream] # "live"
    /\ IF firstClientMsg
       THEN AbandonStream(FALSE)
       ELSE /\ Return("unexpected")
            /\ UNCHANGED <<attempt, reported>>
    /\ UNCHANGED <<retryable, transferAttempt, leased, stream, firstClientMsg, firstCh,
                   got, halfClosed, replies, s2c, c2s, client>>

AwaitEOF ==
    /\ pc = "await"
    /\ c2s[stream] = "eof"
    /\ c2s' = [c2s EXCEPT ![stream] = "taken"]
    /\ Return("ok")
    /\ UNCHANGED <<retryable, attempt, transferAttempt, leased, stream, firstClientMsg,
                   firstCh, got, halfClosed, replies, reported, s2c, client>>

AwaitError ==
    /\ pc = "await"
    /\ c2s[stream] = "err"
    /\ c2s' = [c2s EXCEPT ![stream] = "taken"]
    /\ AbandonStream(TransfersLeft)
    /\ UNCHANGED <<retryable, transferAttempt, leased, stream, firstClientMsg, firstCh,
                   got, halfClosed, replies, s2c, client>>

-----------------------------------------------------------------------------
(* forwardServerToClient: one goroutine, on the stream opened first *)

IsFirst(x) == c2s[x] # "off" /\ \A y \in Streams : c2s[y] # "off" => x <= y
Forwarded == CHOOSE x \in Streams : IsFirst(x)

S2CReceives ==
    /\ s2c = "recv"
    /\ client.read < client.sent
    /\ client' = [client EXCEPT !.read = @ + 1]
    /\ firstCh' = (firstCh \/ client.read = 0)
    /\ s2c' = "send"
    /\ UNCHANGED <<retryable, handlerVars, streamVars, reported, c2s>>

\* RecvMsg ends with the half-close of the client, because the context of the RPC is
\* over (the client went away or the handler returned), or because the next message
\* is too large or malformed.
S2CReceivesEnd ==
    /\ s2c = "recv"
    /\ \/ client.read = client.sent /\ client.closed /\ s2c' = "eof"
       \/ /\ client.gone \/ pc = "done" \/ client.read < client.sent
          /\ s2c' = "err"
    /\ UNCHANGED <<retryable, handlerVars, firstCh, streamVars, reported, c2s, client>>

\* Mutant: SendMsg returns the status of the stream.
StatusOfStream == "err"

\* SendMsg on a stream that is over returns io.EOF, like RecvMsg at a half-close.
EndOfSend == "eof"

S2CSends ==
    /\ s2c = "send"
    /\ s2c' \in IF status[Forwarded] = "live" THEN {"recv"}
                ELSE IF status[Forwarded] = "cancelled" THEN {EndOfSend}
                ELSE {"recv", EndOfSend}
    /\ got' = IF status[Forwarded] = "live"
              THEN [got EXCEPT ![Forwarded] = @ \union {client.read}] ELSE got
    /\ UNCHANGED <<retryable, handlerVars, firstCh, status, halfClosed, replies, reported,
                   c2s, client>>

-----------------------------------------------------------------------------
(* forwardClientToServer: one goroutine for each stream that is forwarded *)

\* RecvMsg returns a reply, which may have arrived before the stream was over ...
C2SReceives(x) ==
    /\ c2s[x] = "run"
    /\ replies[x] < MaxReplies
    /\ c2s' = [c2s EXCEPT ![x] = "send"]
    /\ replies' = [replies EXCEPT ![x] = @ + 1]
    /\ UNCHANGED <<retryable, handlerVars, firstCh, status, got, halfClosed, reported,
                   s2c, client>>

\* ... and SendMsg passes it on; it may fail once the context of the RPC is over.
C2SSends(x) ==
    /\ c2s[x] = "send"
    /\ \E next \in {"run", "err"} :
        /\ next = "err" => client.gone \/ pc = "done"
        /\ c2s' = [c2s EXCEPT ![x] = next]
    /\ UNCHANGED <<retryable, handlerVars, firstCh, streamVars, reported, s2c, client>>

\* RecvMsg ends with io.EOF after status OK, with an error otherwise; when the
\* client goes away while the status arrives, with either.
C2SEnds(x) ==
    /\ c2s[x] = "run"
    /\ status[x] # "live"
    /\ \E end \in {"eof", "err"} :
        /\ end = "eof" => status[x] = "ended"
        /\ end = "err" => status[x] # "ended" \/ client.gone
        /\ c2s' = [c2s EXCEPT ![x] = end]
    /\ UNCHANGED <<retryable, handlerVars, firstCh, streamVars, reported, s2c, client>>

-----------------------------------------------------------------------------
(* The backends and the client *)

\* A backend that reads its input to the end finishes with status OK ...
BackendFinishes(x) ==
    /\ status[x] = "live"
    /\ halfClosed[x]
    /\ status' = [status EXCEPT ![x] = "ended"]
    /\ UNCHANGED <<retryable, handlerVars, firstCh, got, halfClosed, replies, reported,
                   s2c, c2s, client>>

\* ... and any of them may break off or finish with another status.
BackendBreaks(x) ==
    /\ status[x] = "live"
    /\ status' = [status EXCEPT ![x] = "broken"]
    /\ UNCHANGED <<retryable, handlerVars, firstCh, got, halfClosed, replies, reported,
                   s2c, c2s, client>>

ClientSends ==
    /\ ~client.closed /\ ~client.gone /\ pc # "done"
    /\ client.sent < Messages
    /\ client' = [client EXCEPT !.sent = @ + 1]
    /\ UNCHANGED <<retryable, handlerVars, firstCh, streamVars, reported, s2c, c2s>>

ClientCloses ==
    /\ ~client.closed /\ ~client.gone /\ pc # "done"
    /\ client' = [client EXCEPT !.closed = TRUE]
    /\ UNCHANGED <<retryable, handlerVars, firstCh, streamVars, reported, s2c, c2s>>

\* A cancel or a deadline of the client ends the context every stream hangs on.
ClientGoes ==
    /\ ~client.gone /\ pc # "done"
    /\ client' = [client EXCEPT !.gone = TRUE]
    /\ status' = [x \in Streams |-> IF status[x] = "live" THEN "cancelled" ELSE status[x]]
    /\ UNCHANGED <<retryable, handlerVars, firstCh, got, halfClosed, replies, reported,
                   s2c, c2s>>

-----------------------------------------------------------------------------

Opening == GetConnection \/ GetConnectionFails \/ NewStream \/ NewStreamFails
Selecting ==
    SelectClientEOF \/ SelectClientError \/ SelectBackendEOF \/ SelectBackendError
Transferring == Replay \/ ReplayFails \/ AwaitEOF \/ AwaitError
Handler == Reject \/ Accept \/ Opening \/ StartForwarding \/ Selecting \/ Transferring
S2C == S2CReceives \/ S2CReceivesEnd \/ S2CSends
C2S(x) == C2SReceives(x) \/ C2SSends(x) \/ C2SEnds(x)
Backend(x) == BackendFinishes(x) \/ BackendBreaks(x)

Next ==
    \/ Handler
    \/ S2C
    \/ \E x \in Streams : C2S(x) \/ Backend(x)
    \/ ClientSends \/ ClientCloses \/ ClientGoes

Spec == Init /\ [][Next]_vars

\* The goroutines run; a backend that has all its input finishes or breaks off;
\* a client half-closes or gives up.  Nothing makes a client send.
FairSpec ==
    /\ Spec
    /\ WF_vars(Handler)
    /\ WF_vars(S2C)
    /\ \A x \in Streams :
        WF_vars(C2SSends(x) \/ C2SEnds(x)) /\ WF_vars(Backend(x) /\ halfClosed[x])
    /\ WF_vars((ClientCloses \/ ClientGoes) /\ ~client.closed)

-----------------------------------------------------------------------------
(* Safety *)

TypeOK ==
    /\ retryable \in BOOLEAN
    /\ pc \in {"start", "open", "dial", "forward", "select", "select2", "replay",
              "await", "done"}
    /\ attempt \in 0 .. RetryCount - 1
    /\ transferAttempt \in 0 .. RetryCount - 1
    /\ leased \in {0} \union Streams
    /\ stream \in {0} \union Streams
    /\ firstClientMsg \in BOOLEAN
    /\ firstCh \in BOOLEAN
    /\ status \in [Streams -> {"none", "live", "ended", "broken", "cancelled"}]
    /\ got \in [Streams -> SUBSET (1 .. Messages)]
    /\ halfClosed \in [Streams -> BOOLEAN]
    /\ reported \in [Streams -> Nat]
    /\ s2c \in {"off", "recv", "send", "eof", "err", "taken"}
    /\ c2s \in [Streams -> {"off", "run", "send", "eof", "err", "taken"}]
    /\ replies \in [Streams -> 0 .. MaxReplies]
    /\ client \in [sent : 0 .. Messages, read : 0 .. Messages, closed : BOOLEAN,
                   gone : BOOLEAN]
    /\ result \in {"none", "rejected", "unconnected", "failed", "unexpected", "ok"}

\* The handler never runs out of its loops: neither "unexpected proxy termination"
\* (line 246) nor the answer for a transfer without a message (line 166) is
\* reachable, in whatever order the two goroutines report.
NoUnexpectedTermination == result # "unexpected"

\* Only the stream the handler works on may be live, and none is after it returned:
\* the failure paths, the transfers and the deferred cancel leave no stream behind
\* on a backend (lines 119, 152-156, 174, 186, 213, 233).
NoStreamLeftBehind ==
    \A x \in Streams : status[x] = "live" => x = stream /\ pc # "done"

\* Every connection the handler obtained is reported as failed exactly once, except
\* the one whose stream ended well: no failure is reported twice, which could hit a
\* newer connection of the instance, and none is forgotten, whatever path led out.
ReportedOnce ==
    /\ \A x \in Streams : reported[x] <= 1
    /\ pc = "done" => \A x \in 1 .. leased :
                        reported[x] = 0 <=> (result = "ok" /\ x = leased)

\* Stream x has a goroutine that sends to the client.
Sending(x) == c2s[x] \in {"run", "send"}

\* As long as the client has sent one message at most, one goroutine sends to it: the
\* replies of a stream that was given up do not mix with those of its successor, and
\* SendMsg is never called on the server stream by two goroutines at once.  (A client
\* that sent more can break this: an unreadable second message moves the stream while
\* the backend is still answering.)
OneSenderToClient ==
    client.sent <= 1 /\ ~client.gone /\ pc # "done" =>
        \A x \in Streams : Sending(x) => x = stream

\* What the two loops come to: RetryCount attempts for the first stream and for each of
\* at most RetryCount - 1 transfers; one in all for a static cluster.  It is more than
\* the documentation allows, see DocRetryBudget.
LeaseBound == leased <= IF retryable THEN RetryCount * RetryCount ELSE 1

\* When the client sent one message at most, status OK reaches the client only from a
\* backend that received all the client sent: a replay never loses the message.
OkMeansServed == result = "ok" /\ client.sent <= 1 => got[stream] = 1 .. client.sent

\* The handler has a stream open, or is waiting for one.
OnStream == pc \in {"forward", "select", "select2", "replay", "await"}

\* The numbering of the streams, and what is true of those not reached yet.
StreamOrder ==
    /\ stream <= leased
    /\ stream = 0 => pc \in {"start", "open", "dial", "done"} /\ s2c = "off"
    /\ pc = "start" => leased = 0
    /\ pc = "dial" => stream < leased /\ status[leased] = "none"
    /\ OnStream => stream = leased
    /\ \A x \in Streams : x > leased => reported[x] = 0 /\ status[x] = "none"

\* What the handler holds when it goes round its loop once more.
LoopState ==
    /\ result = "none" <=> pc # "done"
    /\ pc = "forward" => s2c = "off"
    /\ pc = "select" => s2c # "taken"
    /\ pc = "select2" => s2c = "taken"
    /\ s2c = "err" => client.gone \/ pc = "done" \/ client.read < client.sent
    /\ firstCh \/ firstClientMsg \/ s2c = "send" => client.read > 0
    /\ stream # 0 /\ pc \in {"open", "dial", "replay", "await"} => firstClientMsg
    /\ stream # 0 /\ pc \in {"open", "dial"} => transferAttempt < RetryCount - 1

LiveIsWorkedOn == \A x \in Streams : status[x] = "live" => x = stream /\ OnStream

\* The account of the reports: everything but what the handler is working on.
ReportAccount ==
    \A x \in 1 .. leased :
        reported[x] = IF x = leased /\ (pc = "dial" \/ OnStream \/ result = "ok")
                      THEN 0 ELSE 1

SenderIsCurrent ==
    client.sent <= 1 /\ ~client.gone /\ pc # "done" =>
        \A x \in Streams : Sending(x) => x = stream /\ pc \in {"select", "select2", "await"}

\* The inductive invariant behind the safety properties above.
IInv ==
    /\ TypeOK
    /\ StreamOrder
    /\ LoopState
    /\ NoUnexpectedTermination
    /\ LiveIsWorkedOn
    /\ ReportAccount
    /\ SenderIsCurrent

\* What the streams before the one being opened may have cost.
Spent == IF stream = 0 THEN 0 ELSE (transferAttempt + 1) * RetryCount

\* The account of the leases behind LeaseBound.
BudgetAccount ==
    /\ LeaseBound
    /\ ~retryable /\ pc \in {"start", "open", "dial"} => stream = 0 /\ attempt = 0
    /\ pc \in {"start", "open"} => leased <= Spent + attempt
    /\ pc = "dial" => leased <= Spent + attempt + 1
    /\ OnStream => leased <= Spent

\* What is true of a stream as long as no goroutine forwards it, and which one the
\* goroutine of forwardServerToClient may be on.
Untouched ==
    /\ \A x \in Streams :
        c2s[x] = "off" => got[x] = {} /\ ~halfClosed[x] /\ status[x] # "ended"
    /\ \A x \in Streams : x > stream => c2s[x] = "off"
    /\ pc \in {"forward", "replay"} => c2s[stream] = "off"
    /\ s2c = "off" => client.read = 0 /\ \A x \in Streams : c2s[x] = "off"
    /\ s2c # "off" => \E x \in Streams : IsFirst(x)
    /\ pc \in {"select", "select2"} =>
        c2s[stream] # "off" /\ \A x \in Streams \ {stream} : c2s[x] = "off"

\* The client messages a backend has are among those read, and the first stream has
\* them all but the one that is being sent.
MessageAccount ==
    /\ client.read <= client.sent
    /\ \A x \in Streams : got[x] \subseteq 1 .. client.read
    /\ pc = "select" => ~halfClosed[stream]
    /\ pc = "select" /\ status[stream] = "live" =>
        got[stream] = 1 .. (IF s2c = "send" THEN client.read - 1 ELSE client.read)
    /\ pc = "select" /\ status[stream] = "live" /\ s2c = "eof" =>
        client.closed /\ client.read = client.sent

\* The backend of stream x has all there is, or the first message at least.
HasInput(x) == 1 \in got[x] \/ (client.closed /\ client.sent = 0)

\* A backend may end well only when it was told that its input is complete.
CompleteInput ==
    /\ \A x \in Streams : status[x] = "ended" => halfClosed[x]
    /\ \A x \in Streams : halfClosed[x] /\ status[x] \in {"live", "ended"} => HasInput(x)
    /\ \A x \in Streams : c2s[x] = "eof" => status[x] = "ended"
    /\ result = "ok" => status[stream] = "ended" /\ stream \in Streams

\* The account of the messages behind OkMeansServed.
ServiceAccount == Untouched /\ MessageAccount /\ CompleteInput

\* Both accounts, which together with IInv every step keeps: what the handler spent on
\* connections, and where the messages of the client are.
Accounts == BudgetAccount /\ ServiceAccount

-----------------------------------------------------------------------------
(* The handler implements the abstract life of an RPC *)

Phase ==
    CASE pc = "start" -> "new"
      [] pc = "open" -> "seek"
      [] pc = "dial" -> "dial"
      [] pc = "done" -> "over"
      [] OTHER -> "stream"

Answer == IF result \in {"none", "ok"} THEN result ELSE "error"

Lifecycle == INSTANCE RpcLifecycle WITH
    Leases <- Streams, phase <- Phase, leases <- leased, answer <- Answer

\* Whatever the goroutines, the client and the backends do, what the resolver sees of an
\* RPC are the steps of RpcLifecycle: GetConnection only when no connection is held, one
\* OnBackendFailure for each connection that is given up, none for the one that ends OK.
ImplementsLifecycle == Lifecycle!Spec

-----------------------------------------------------------------------------
(* Liveness *)

\* Every RPC gets its answer: the handler never waits for a goroutine, and a backend
\* never for a half-close, that cannot come (lines 177, 205).
HandlerReturns == <>(pc = "done")

\* The goroutines do not outlive the RPC, although the handler waits for none.
GoroutinesEnd == <>[](s2c \notin {"recv", "send"} /\ \A x \in Streams : ~Sending(x))

-----------------------------------------------------------------------------
(* What the documentation promises and the code does not keep *)

\* "Retry mode for unary/server-stream with one client message" (transparent.go:163):
\* the handler does not count the messages, so a transfer of a longer client stream
\* ends with OK from a backend that was not given what an earlier backend received.
DocSingleMessageTransfer ==
    result = "ok" => \A x \in Streams : got[x] \subseteq got[stream]

\* "retryCount - max attempts for dynamic clusters" (transparent.go:41; likewise lines 26
\* and 66, MyGateway/README.md:59): an RPC is tried over RetryCount connections at most.
\* Every transfer starts openBackendStream with a new count.
DocRetryBudget == leased <= IF retryable THEN RetryCount ELSE 1

=============================================================================
