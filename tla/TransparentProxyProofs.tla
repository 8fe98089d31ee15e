----------------------- MODULE TransparentProxyProofs -----------------------
(***************************************************************************)
(* Proofs about TransparentProxy, for every RETRY_COUNT and any number of  *)
(* client messages and replies.                                            *)
(***************************************************************************)
EXTENDS TransparentProxy, TLAPS

-----------------------------------------------------------------------------
(* The numbers of the streams *)

\* Streams are numbered from 1, without a gap.
LEMMA StreamsFacts ==
  /\ 1 \in Streams
  /\ \A x \in Streams : x \in Nat \ {0} /\ 1 .. x \subseteq Streams
<1>1. RetryCount * RetryCount \in Nat
  BY RetryCountPositive
<1>2. \A m \in Nat : LET S == 1 .. m + 1 IN
        1 \in S /\ \A x \in S : x \in Nat \ {0} /\ 1 .. x \subseteq S
  OBVIOUS
<1> QED BY <1>1, <1>2 DEF Streams

\* Giving up a stream, with or without a transfer, keeps the types of what it changes.
LEMMA AbandonType ==
  ASSUME TypeOK, stream \in Streams, AbandonStream(TRUE) \/ AbandonStream(FALSE)
  PROVE  /\ pc' \in {"open", "done"}
         /\ result' \in {result, "failed"}
         /\ attempt' \in 0 .. RetryCount - 1
         /\ reported' \in [Streams -> Nat]
         /\ status' \in [Streams -> {"none", "live", "ended", "broken", "cancelled"}]
<1>1. /\ reported' = [reported EXCEPT ![stream] = @ + 1]
      /\ status' = Cancelled(stream)
      /\ attempt' \in {0, attempt}
  BY DEF AbandonStream, Return, Report
<1>2. reported' \in [Streams -> Nat]
  BY <1>1 DEF TypeOK
<1>3. status' \in [Streams -> {"none", "live", "ended", "broken", "cancelled"}]
  BY <1>1 DEF TypeOK, Cancelled
<1>4. attempt' \in 0 .. RetryCount - 1
  BY <1>1, RetryCountPositive DEF TypeOK
<1> QED BY <1>2, <1>3, <1>4 DEF AbandonStream, Return

-----------------------------------------------------------------------------
(* The inductive invariant *)

\* A handler that was just called satisfies the invariant.
LEMMA InitSafe == Init => IInv
<1> SUFFICES ASSUME Init PROVE IInv
  OBVIOUS
<1>1. client \in [sent : 0 .. Messages, read : 0 .. Messages, closed : BOOLEAN,
                 gone : BOOLEAN]
  BY ClientBounds DEF Init
<1>2. /\ got \in [Streams -> SUBSET (1 .. Messages)]
      /\ replies \in [Streams -> 0 .. MaxReplies]
      /\ reported \in [Streams -> Nat]
      /\ status \in [Streams -> {"none", "live", "ended", "broken", "cancelled"}]
      /\ c2s \in [Streams -> {"off", "run", "send", "eof", "err", "taken"}]
      /\ halfClosed \in [Streams -> BOOLEAN]
  BY ClientBounds DEF Init
<1>3. TypeOK
  <2>1. retryable \in BOOLEAN /\ firstClientMsg \in BOOLEAN /\ firstCh \in BOOLEAN
    BY Zenon DEF Init
  <2>2. attempt = 0 /\ transferAttempt = 0 /\ leased = 0 /\ stream = 0
    BY DEF Init
  <2>3. pc = "start" /\ s2c = "off" /\ result = "none"
    BY DEF Init
  <2> QED BY <1>1, <1>2, <2>1, <2>2, <2>3, RetryCountPositive DEF TypeOK
<1>4. StreamOrder /\ LoopState
  BY StreamsFacts DEF Init, StreamOrder, LoopState, OnStream
<1>5. NoUnexpectedTermination /\ LiveIsWorkedOn /\ ReportAccount /\ SenderIsCurrent
  BY DEF Init, NoUnexpectedTermination, LiveIsWorkedOn, ReportAccount, SenderIsCurrent,
         Sending
<1> QED BY <1>3, <1>4, <1>5 DEF IInv

\* openBackendStream keeps the invariant: the lease it works on is the newest, not yet
\* reported and without a stream.
LEMMA OpeningSafe == IInv /\ Opening => IInv'
<1> SUFFICES ASSUME IInv, Opening PROVE IInv'
  OBVIOUS
<1>1. CASE GetConnection
  <2>1. TypeOK'
    BY <1>1 DEF IInv, TypeOK, GetConnection, streamVars
  <2>2. LoopState' /\ NoUnexpectedTermination' /\ LiveIsWorkedOn' /\ SenderIsCurrent'
    BY <1>1 DEF IInv, LoopState, NoUnexpectedTermination, LiveIsWorkedOn,
        SenderIsCurrent, GetConnection, streamVars, OnStream, Sending
  <2>3. StreamOrder'
    BY <1>1, StreamsFacts DEF IInv, TypeOK, StreamOrder, GetConnection, streamVars,
        OnStream
  <2>4. ReportAccount'
    BY <1>1 DEF IInv, TypeOK, StreamOrder, LoopState, ReportAccount, GetConnection,
        streamVars, OnStream
  <2> QED BY <2>1, <2>2, <2>3, <2>4 DEF IInv
<1>2. CASE GetConnectionFails
  <2>1. TypeOK'
    BY <1>2 DEF IInv, TypeOK, GetConnectionFails, Return, Cancelled
  <2>2. StreamOrder' /\ LoopState' /\ LiveIsWorkedOn'
    BY <1>2 DEF IInv, StreamOrder, LoopState, LiveIsWorkedOn, GetConnectionFails,
        Return, OnStream, Cancelled
  <2>3. NoUnexpectedTermination'
    BY <1>2 DEF NoUnexpectedTermination, GetConnectionFails, Return, Cancelled
  <2>4. ReportAccount'
    BY <1>2 DEF IInv, LoopState, ReportAccount, GetConnectionFails, Return, OnStream,
        Cancelled
  <2>5. SenderIsCurrent'
    BY <1>2 DEF SenderIsCurrent, GetConnectionFails, Return, Sending, Cancelled
  <2> QED BY <2>1, <2>2, <2>3, <2>4, <2>5 DEF IInv
<1>3. CASE NewStream
  <2>1. TypeOK'
    BY <1>3, StreamsFacts, RetryCountPositive DEF IInv, TypeOK, StreamOrder,
        LoopState, NewStream, OnStream
  <2>2. /\ NoUnexpectedTermination'
        /\ LiveIsWorkedOn'
        /\ ReportAccount'
        /\ SenderIsCurrent'
    BY <1>3 DEF IInv, NoUnexpectedTermination, LiveIsWorkedOn, ReportAccount,
        SenderIsCurrent, NewStream, OnStream, Sending
  <2>3. StreamOrder'
    BY <1>3, StreamsFacts DEF IInv, TypeOK, StreamOrder, NewStream, OnStream
  <2>4. LoopState'
    BY <1>3 DEF IInv, StreamOrder, LoopState, NewStream, OnStream
  <2> QED BY <2>1, <2>2, <2>3, <2>4 DEF IInv
<1>4. CASE NewStreamFails
  <2>1. TypeOK'
    <3>1. leased \in Streams
      BY <1>4, StreamsFacts DEF IInv, TypeOK, StreamOrder, NewStreamFails
    <3>2. reported' = [reported EXCEPT ![leased] = @ + 1] /\ status' \in {status, Cancelled(stream)}
      BY <1>4 DEF NewStreamFails, Report, Return
    <3>3. reported' \in [Streams -> Nat]
      BY <3>1, <3>2 DEF IInv, TypeOK
    <3>4. status' \in [Streams -> {"none", "live", "ended", "broken", "cancelled"}]
      BY <3>2 DEF IInv, TypeOK, Cancelled
    <3>5. attempt' \in 0 .. RetryCount - 1
      BY <1>4, RetryCountPositive DEF IInv, TypeOK, NewStreamFails, RetriesLeft
    <3> QED BY <1>4, <3>3, <3>4, <3>5 DEF IInv, TypeOK, NewStreamFails, Return
  <2>2. LoopState' /\ NoUnexpectedTermination' /\ SenderIsCurrent'
    BY <1>4 DEF IInv, LoopState, NoUnexpectedTermination, SenderIsCurrent,
        NewStreamFails, Report, Return, RetriesLeft, Sending, Cancelled
  <2>3. StreamOrder'
    BY <1>4 DEF IInv, TypeOK, StreamOrder, NewStreamFails, Report, Return,
        RetriesLeft, OnStream, Cancelled
  <2>4. LiveIsWorkedOn'
    BY <1>4 DEF IInv, TypeOK, LiveIsWorkedOn, NewStreamFails, Report, Return,
        RetriesLeft, OnStream, Cancelled
  <2>5. ReportAccount'
    BY <1>4 DEF IInv, TypeOK, LoopState, ReportAccount, NewStreamFails, Report,
        Return, RetriesLeft, OnStream, Cancelled
  <2> QED BY <2>1, <2>2, <2>3, <2>4, <2>5 DEF IInv
<1> QED BY <1>1, <1>2, <1>3, <1>4 DEF Opening

\* The select loop keeps the invariant, whichever goroutine reports first.
LEMMA SelectingSafe == IInv /\ Selecting => IInv'
<1> SUFFICES ASSUME IInv, Selecting PROVE IInv'
  OBVIOUS
<1>1. CASE SelectClientEOF
  <2>1. TypeOK'
    BY <1>1 DEF IInv, TypeOK, StreamOrder, SelectClientEOF, Return, CloseSend,
        OnStream, Cancelled
  <2>2. LoopState' /\ SenderIsCurrent'
    BY <1>1 DEF IInv, LoopState, SenderIsCurrent, SelectClientEOF, Return, CloseSend,
        Sending, Cancelled
  <2>3. StreamOrder'
    BY <1>1 DEF IInv, TypeOK, StreamOrder, SelectClientEOF, Return, CloseSend,
        OnStream, Cancelled
  <2>4. NoUnexpectedTermination'
    BY <1>1 DEF IInv, LoopState, NoUnexpectedTermination, SelectClientEOF, Return,
        CloseSend, Cancelled
  <2>5. LiveIsWorkedOn'
    BY <1>1, StreamsFacts DEF IInv, TypeOK, LiveIsWorkedOn, SelectClientEOF, Return,
        CloseSend, OnStream, Cancelled
  <2>6. ReportAccount'
    BY <1>1 DEF IInv, LoopState, ReportAccount, SelectClientEOF, Return, CloseSend,
        OnStream, Cancelled
  <2> QED BY <2>1, <2>2, <2>3, <2>4, <2>5, <2>6 DEF IInv
<1>2. CASE SelectClientError
  <2>1. TypeOK'
    <3>1. stream \in Streams /\ (AbandonStream(TRUE) \/ AbandonStream(FALSE))
      BY <1>2 DEF IInv, TypeOK, StreamOrder, SelectClientError, AbandonStream
    <3>2. firstClientMsg' \in BOOLEAN /\ firstCh' = FALSE
      BY <1>2 DEF IInv, TypeOK, SelectClientError, TakeFirstMessage
    <3>3. UNCHANGED <<retryable, transferAttempt, leased, stream, got, halfClosed,
                      replies, c2s, client>>
      BY <1>2 DEF SelectClientError
    <3>4. s2c' = "taken"
      BY <1>2 DEF SelectClientError
    <3>5. /\ pc' \in {"open", "done"}
          /\ result' \in {result, "failed"}
          /\ attempt' \in 0 .. RetryCount - 1
          /\ reported' \in [Streams -> Nat]
          /\ status' \in [Streams -> {"none", "live", "ended", "broken", "cancelled"}]
      BY <3>1, AbandonType DEF IInv
    <3>6. /\ pc' \in {"start", "open", "dial", "forward", "select", "select2", "replay",
                     "await", "done"}
          /\ result' \in {"none", "rejected", "unconnected", "failed", "unexpected", "ok"}
      BY <3>5 DEF IInv, TypeOK
    <3> QED BY <3>2, <3>3, <3>4, <3>5, <3>6 DEF IInv, TypeOK
  <2>2. NoUnexpectedTermination'
    BY <1>2 DEF IInv, NoUnexpectedTermination, SelectClientError, AbandonStream,
        MayTransfer, TakeFirstMessage, Report, Cancelled, Return, TransfersLeft
  <2>3. StreamOrder'
    BY <1>2 DEF IInv, TypeOK, StreamOrder, SelectClientError, AbandonStream,
        MayTransfer, TakeFirstMessage, OnStream, Report, Cancelled, Return,
        TransfersLeft
  <2>4. LoopState'
    BY <1>2 DEF IInv, TypeOK, LoopState, SelectClientError, AbandonStream,
        MayTransfer, TakeFirstMessage, Report, Cancelled, Return, TransfersLeft
  <2>5. LiveIsWorkedOn'
    BY <1>2, StreamsFacts DEF IInv, TypeOK, LiveIsWorkedOn, SelectClientError,
        AbandonStream, MayTransfer, TakeFirstMessage, OnStream, Report, Cancelled,
        Return, TransfersLeft
  <2>6. ReportAccount'
    BY <1>2 DEF IInv, TypeOK, StreamOrder, LoopState, ReportAccount,
        SelectClientError, AbandonStream, MayTransfer, TakeFirstMessage, OnStream,
        Report, Cancelled, Return, TransfersLeft
  <2>7. SenderIsCurrent'
    BY <1>2 DEF IInv, TypeOK, LoopState, SenderIsCurrent, SelectClientError,
        AbandonStream, MayTransfer, TakeFirstMessage, Sending, Report, Cancelled,
        Return, TransfersLeft
  <2> QED BY <2>1, <2>2, <2>3, <2>4, <2>5, <2>6, <2>7 DEF IInv
<1>3. CASE SelectBackendEOF
  <2>1. TypeOK'
    BY <1>3 DEF IInv, TypeOK, StreamOrder, SelectBackendEOF, Return, OnStream,
        Cancelled
  <2>2. StreamOrder' /\ LoopState' /\ ReportAccount'
    BY <1>3 DEF IInv, StreamOrder, LoopState, ReportAccount, SelectBackendEOF, Return,
        OnStream, Cancelled
  <2>3. NoUnexpectedTermination'
    BY <1>3 DEF NoUnexpectedTermination, SelectBackendEOF, Return, Cancelled
  <2>4. LiveIsWorkedOn'
    BY <1>3, StreamsFacts DEF IInv, TypeOK, LiveIsWorkedOn, SelectBackendEOF, Return,
        OnStream, Cancelled
  <2>5. SenderIsCurrent'
    BY <1>3 DEF SenderIsCurrent, SelectBackendEOF, Return, Sending, Cancelled
  <2> QED BY <2>1, <2>2, <2>3, <2>4, <2>5 DEF IInv
<1>4. CASE SelectBackendError
  <2>1. TypeOK'
    <3>1. stream \in Streams /\ (AbandonStream(TRUE) \/ AbandonStream(FALSE))
      BY <1>4 DEF IInv, TypeOK, StreamOrder, SelectBackendError, AbandonStream
    <3>2. firstClientMsg' \in BOOLEAN /\ firstCh' = FALSE
      BY <1>4 DEF IInv, TypeOK, SelectBackendError, TakeFirstMessage
    <3>3. UNCHANGED <<retryable, transferAttempt, leased, stream, got, halfClosed,
                      replies, s2c, client>>
      BY <1>4 DEF SelectBackendError
    <3>4. c2s' \in [Streams -> {"off", "run", "send", "eof", "err", "taken"}]
      <4>1. c2s' = [c2s EXCEPT ![stream] = "taken"]
        BY <1>4 DEF SelectBackendError
      <4>2. c2s \in [Streams -> {"off", "run", "send", "eof", "err", "taken"}]
        BY DEF IInv, TypeOK
      <4> QED BY <4>1, <4>2
    <3>5. /\ pc' \in {"open", "done"}
          /\ result' \in {result, "failed"}
          /\ attempt' \in 0 .. RetryCount - 1
          /\ reported' \in [Streams -> Nat]
          /\ status' \in [Streams -> {"none", "live", "ended", "broken", "cancelled"}]
      BY <3>1, AbandonType DEF IInv
    <3>6. /\ pc' \in {"start", "open", "dial", "forward", "select", "select2", "replay",
                     "await", "done"}
          /\ result' \in {"none", "rejected", "unconnected", "failed", "unexpected", "ok"}
      BY <3>5 DEF IInv, TypeOK
    <3> QED BY <3>2, <3>3, <3>4, <3>5, <3>6 DEF IInv, TypeOK
  <2>2. NoUnexpectedTermination' /\ SenderIsCurrent'
    BY <1>4 DEF IInv, NoUnexpectedTermination, SenderIsCurrent, SelectBackendError,
        AbandonStream, MayTransfer, TakeFirstMessage, Sending, Report, Cancelled,
        Return, TransfersLeft
  <2>3. StreamOrder'
    BY <1>4 DEF IInv, TypeOK, StreamOrder, SelectBackendError, AbandonStream,
        MayTransfer, TakeFirstMessage, OnStream, Report, Cancelled, Return,
        TransfersLeft
  <2>4. LoopState'
    BY <1>4 DEF IInv, TypeOK, LoopState, SelectBackendError, AbandonStream,
        MayTransfer, TakeFirstMessage, Report, Cancelled, Return, TransfersLeft
  <2>5. LiveIsWorkedOn'
    BY <1>4, StreamsFacts DEF IInv, TypeOK, LiveIsWorkedOn, SelectBackendError,
        AbandonStream, MayTransfer, TakeFirstMessage, OnStream, Report, Cancelled,
        Return, TransfersLeft
  <2>6. ReportAccount'
    BY <1>4 DEF IInv, TypeOK, StreamOrder, LoopState, ReportAccount,
        SelectBackendError, AbandonStream, MayTransfer, TakeFirstMessage, OnStream,
        Report, Cancelled, Return, TransfersLeft
  <2> QED BY <2>1, <2>2, <2>3, <2>4, <2>5, <2>6 DEF IInv
<1> QED BY <1>1, <1>2, <1>3, <1>4 DEF Selecting

\* The replay on a new stream keeps the invariant.
LEMMA TransferringSafe == IInv /\ Transferring => IInv'
<1> SUFFICES ASSUME IInv, Transferring PROVE IInv'
  OBVIOUS
<1>1. CASE Replay
  <2>1. TypeOK'
    BY <1>1, ClientBounds DEF IInv, TypeOK, StreamOrder, LoopState, Replay, CloseSend,
        Replayed, OnStream
  <2>2. /\ StreamOrder'
        /\ LoopState'
        /\ NoUnexpectedTermination'
        /\ LiveIsWorkedOn'
        /\ ReportAccount'
        /\ SenderIsCurrent'
    BY <1>1 DEF IInv, StreamOrder, LoopState, NoUnexpectedTermination, LiveIsWorkedOn,
        ReportAccount, SenderIsCurrent, Replay, CloseSend, Replayed, OnStream, Sending
  <2> QED BY <2>1, <2>2 DEF IInv
<1>2. CASE ReplayFails
  <2>1. TypeOK'
    BY <1>2 DEF IInv, TypeOK, ReplayFails, Return, AbandonStream, Cancelled, Report
  <2>2. LoopState'
    BY <1>2 DEF IInv, LoopState, ReplayFails, Return, AbandonStream, Cancelled, Report
  <2>3. StreamOrder'
    BY <1>2 DEF IInv, TypeOK, StreamOrder, ReplayFails, Return, AbandonStream,
        OnStream, Cancelled, Report
  <2>4. NoUnexpectedTermination'
    BY <1>2 DEF IInv, StreamOrder, LoopState, NoUnexpectedTermination, ReplayFails,
        Return, AbandonStream, OnStream, Cancelled, Report
  <2>5. LiveIsWorkedOn'
    BY <1>2, StreamsFacts DEF IInv, TypeOK, LiveIsWorkedOn, ReplayFails, Return,
        AbandonStream, OnStream, Cancelled, Report
  <2>6. ReportAccount'
    BY <1>2, StreamsFacts DEF IInv, TypeOK, StreamOrder, LoopState, ReportAccount,
        ReplayFails, Return, AbandonStream, OnStream, Cancelled, Report
  <2>7. SenderIsCurrent'
    BY <1>2 DEF SenderIsCurrent, ReplayFails, Return, AbandonStream, Sending,
        Cancelled, Report
  <2> QED BY <2>1, <2>2, <2>3, <2>4, <2>5, <2>6, <2>7 DEF IInv
<1>3. CASE AwaitEOF
  <2>1. TypeOK'
    BY <1>3 DEF IInv, TypeOK, StreamOrder, AwaitEOF, Return, OnStream, Cancelled
  <2>2. StreamOrder' /\ LoopState' /\ ReportAccount'
    BY <1>3 DEF IInv, StreamOrder, LoopState, ReportAccount, AwaitEOF, Return,
        OnStream, Cancelled
  <2>3. NoUnexpectedTermination'
    BY <1>3 DEF NoUnexpectedTermination, AwaitEOF, Return, Cancelled
  <2>4. LiveIsWorkedOn'
    BY <1>3, StreamsFacts DEF IInv, TypeOK, LiveIsWorkedOn, AwaitEOF, Return,
        OnStream, Cancelled
  <2>5. SenderIsCurrent'
    BY <1>3 DEF SenderIsCurrent, AwaitEOF, Return, Sending, Cancelled
  <2> QED BY <2>1, <2>2, <2>3, <2>4, <2>5 DEF IInv
<1>4. CASE AwaitError
  <2>1. TypeOK'
    BY <1>4, RetryCountPositive DEF IInv, TypeOK, StreamOrder, AwaitError,
        AbandonStream, TransfersLeft, OnStream, Report, Cancelled, Return
  <2>2. LoopState' /\ NoUnexpectedTermination' /\ SenderIsCurrent'
    BY <1>4 DEF IInv, LoopState, NoUnexpectedTermination, SenderIsCurrent, AwaitError,
        AbandonStream, TransfersLeft, Sending, Report, Cancelled, Return
  <2>3. StreamOrder'
    BY <1>4 DEF IInv, TypeOK, StreamOrder, AwaitError, AbandonStream, TransfersLeft,
        OnStream, Report, Cancelled, Return
  <2>4. LiveIsWorkedOn'
    BY <1>4, StreamsFacts DEF IInv, TypeOK, LiveIsWorkedOn, AwaitError, AbandonStream,
        TransfersLeft, OnStream, Report, Cancelled, Return
  <2>5. ReportAccount'
    BY <1>4 DEF IInv, TypeOK, StreamOrder, LoopState, ReportAccount, AwaitError,
        AbandonStream, TransfersLeft, OnStream, Report, Cancelled, Return
  <2> QED BY <2>1, <2>2, <2>3, <2>4, <2>5 DEF IInv
<1> QED BY <1>1, <1>2, <1>3, <1>4 DEF Transferring

\* Every step of the handler goroutine keeps the invariant.
LEMMA HandlerSafe == IInv /\ Handler => IInv'
<1> SUFFICES ASSUME IInv, Handler PROVE IInv'
  OBVIOUS
<1>1. CASE Reject
  <2>1. TypeOK'
    BY <1>1 DEF IInv, TypeOK, Reject, Return, Cancelled
  <2>2. StreamOrder' /\ LoopState' /\ LiveIsWorkedOn'
    BY <1>1 DEF IInv, StreamOrder, LoopState, LiveIsWorkedOn, Reject, Return,
        OnStream, Cancelled
  <2>3. NoUnexpectedTermination'
    BY <1>1 DEF NoUnexpectedTermination, Reject, Return, Cancelled
  <2>4. ReportAccount'
    BY <1>1 DEF IInv, StreamOrder, ReportAccount, Reject, Return, OnStream, Cancelled
  <2>5. SenderIsCurrent'
    BY <1>1 DEF SenderIsCurrent, Reject, Return, Sending, Cancelled
  <2> QED BY <2>1, <2>2, <2>3, <2>4, <2>5 DEF IInv
<1>2. CASE Accept
  <2>1. TypeOK'
    BY <1>2 DEF IInv, TypeOK, Accept, streamVars
  <2>2. /\ StreamOrder'
        /\ NoUnexpectedTermination'
        /\ LiveIsWorkedOn'
        /\ ReportAccount'
        /\ SenderIsCurrent'
    BY <1>2 DEF IInv, StreamOrder, NoUnexpectedTermination, LiveIsWorkedOn,
        ReportAccount, SenderIsCurrent, Accept, streamVars, OnStream, Sending
  <2>3. LoopState'
    BY <1>2, StreamsFacts DEF IInv, TypeOK, StreamOrder, LoopState, Accept,
        streamVars, OnStream
  <2> QED BY <2>1, <2>2, <2>3 DEF IInv
<1>3. CASE StartForwarding
  <2>1. TypeOK'
    BY <1>3 DEF IInv, TypeOK, StreamOrder, StartForwarding, streamVars, OnStream
  <2>2. /\ StreamOrder'
        /\ LoopState'
        /\ NoUnexpectedTermination'
        /\ LiveIsWorkedOn'
        /\ ReportAccount'
        /\ SenderIsCurrent'
    BY <1>3 DEF IInv, StreamOrder, LoopState, NoUnexpectedTermination, LiveIsWorkedOn,
        ReportAccount, SenderIsCurrent, StartForwarding, streamVars, OnStream, Sending
  <2> QED BY <2>1, <2>2 DEF IInv
<1> QED BY <1>1, <1>2, <1>3, OpeningSafe, SelectingSafe, TransferringSafe DEF Handler

\* forwardServerToClient keeps the invariant, also when nobody listens to it.
LEMMA S2CSafe == IInv /\ S2C => IInv'
<1> SUFFICES ASSUME IInv, S2C PROVE IInv'
  OBVIOUS
<1>1. CASE S2CReceives
  <2>1. TypeOK'
    BY <1>1, ClientBounds DEF IInv, TypeOK, S2CReceives, handlerVars, streamVars
  <2>2. /\ StreamOrder'
        /\ NoUnexpectedTermination'
        /\ LiveIsWorkedOn'
        /\ ReportAccount'
        /\ SenderIsCurrent'
    BY <1>1 DEF IInv, StreamOrder, NoUnexpectedTermination, LiveIsWorkedOn,
        ReportAccount, SenderIsCurrent, S2CReceives, handlerVars, streamVars,
        OnStream, Sending
  <2>3. LoopState'
    BY <1>1 DEF IInv, TypeOK, LoopState, S2CReceives, handlerVars, streamVars
  <2> QED BY <2>1, <2>2, <2>3 DEF IInv
<1>2. CASE S2CReceivesEnd
  <2>1. TypeOK'
    BY <1>2 DEF IInv, TypeOK, S2CReceivesEnd, handlerVars, streamVars
  <2>2. /\ StreamOrder'
        /\ LoopState'
        /\ NoUnexpectedTermination'
        /\ LiveIsWorkedOn'
        /\ ReportAccount'
        /\ SenderIsCurrent'
    BY <1>2 DEF IInv, StreamOrder, LoopState, NoUnexpectedTermination, LiveIsWorkedOn,
        ReportAccount, SenderIsCurrent, S2CReceivesEnd, handlerVars, streamVars,
        OnStream, Sending
  <2> QED BY <2>1, <2>2 DEF IInv
<1>3. CASE S2CSends
  <2>1. TypeOK'
    <3>1. client.read \in 1 .. Messages
      BY <1>3, ClientBounds DEF IInv, TypeOK, LoopState, S2CSends
    <3>2. got' \in [Streams -> SUBSET (1 .. Messages)]
      BY <1>3, <3>1 DEF IInv, TypeOK, S2CSends
    <3>3. s2c' \in {"recv", "eof"}
      BY <1>3 DEF S2CSends, EndOfSend
    <3> QED BY <1>3, <3>2, <3>3 DEF IInv, TypeOK, S2CSends, handlerVars
  <2>2. /\ StreamOrder'
        /\ LoopState'
        /\ NoUnexpectedTermination'
        /\ LiveIsWorkedOn'
        /\ ReportAccount'
        /\ SenderIsCurrent'
    BY <1>3 DEF IInv, StreamOrder, LoopState, NoUnexpectedTermination, LiveIsWorkedOn,
        ReportAccount, SenderIsCurrent, S2CSends, EndOfSend, handlerVars, OnStream,
        Sending
  <2> QED BY <2>1, <2>2 DEF IInv
<1> QED BY <1>1, <1>2, <1>3 DEF S2C

\* forwardClientToServer and the backends keep the invariant.
LEMMA StreamsSafe ==
  ASSUME IInv, NEW x \in Streams, C2S(x) \/ Backend(x)
  PROVE  IInv'
<1>1. CASE C2SReceives(x)
  <2>1. TypeOK'
    BY <1>1, ClientBounds DEF IInv, TypeOK, C2SReceives, handlerVars
  <2>2. /\ StreamOrder'
        /\ LoopState'
        /\ NoUnexpectedTermination'
        /\ LiveIsWorkedOn'
        /\ ReportAccount'
        /\ SenderIsCurrent'
    BY <1>1 DEF IInv, StreamOrder, LoopState, NoUnexpectedTermination, LiveIsWorkedOn,
        ReportAccount, SenderIsCurrent, C2SReceives, handlerVars, OnStream, Sending
  <2> QED BY <2>1, <2>2 DEF IInv
<1>2. CASE C2SSends(x)
  <2>1. TypeOK'
    BY <1>2 DEF IInv, TypeOK, C2SSends, handlerVars, streamVars
  <2>2. /\ StreamOrder'
        /\ LoopState'
        /\ NoUnexpectedTermination'
        /\ LiveIsWorkedOn'
        /\ ReportAccount'
        /\ SenderIsCurrent'
    BY <1>2 DEF IInv, StreamOrder, LoopState, NoUnexpectedTermination, LiveIsWorkedOn,
        ReportAccount, SenderIsCurrent, C2SSends, handlerVars, streamVars, OnStream,
        Sending
  <2> QED BY <2>1, <2>2 DEF IInv
<1>3. CASE C2SEnds(x)
  <2>1. TypeOK'
    BY <1>3 DEF IInv, TypeOK, C2SEnds, handlerVars, streamVars
  <2>2. /\ StreamOrder'
        /\ LoopState'
        /\ NoUnexpectedTermination'
        /\ LiveIsWorkedOn'
        /\ ReportAccount'
        /\ SenderIsCurrent'
    BY <1>3 DEF IInv, StreamOrder, LoopState, NoUnexpectedTermination, LiveIsWorkedOn,
        ReportAccount, SenderIsCurrent, C2SEnds, handlerVars, streamVars, OnStream,
        Sending
  <2> QED BY <2>1, <2>2 DEF IInv
<1>4. CASE BackendFinishes(x)
  <2>1. TypeOK'
    BY <1>4 DEF IInv, TypeOK, BackendFinishes, handlerVars
  <2>2. /\ StreamOrder'
        /\ LoopState'
        /\ NoUnexpectedTermination'
        /\ LiveIsWorkedOn'
        /\ ReportAccount'
        /\ SenderIsCurrent'
    BY <1>4 DEF IInv, StreamOrder, LoopState, NoUnexpectedTermination, LiveIsWorkedOn,
        ReportAccount, SenderIsCurrent, BackendFinishes, handlerVars, OnStream,
        Sending
  <2> QED BY <2>1, <2>2 DEF IInv
<1>5. CASE BackendBreaks(x)
  <2>1. TypeOK'
    BY <1>5 DEF IInv, TypeOK, BackendBreaks, handlerVars
  <2>2. /\ StreamOrder'
        /\ LoopState'
        /\ NoUnexpectedTermination'
        /\ LiveIsWorkedOn'
        /\ ReportAccount'
        /\ SenderIsCurrent'
    BY <1>5 DEF IInv, StreamOrder, LoopState, NoUnexpectedTermination, LiveIsWorkedOn,
        ReportAccount, SenderIsCurrent, BackendBreaks, handlerVars, OnStream, Sending
  <2> QED BY <2>1, <2>2 DEF IInv
<1> QED BY <1>1, <1>2, <1>3, <1>4, <1>5 DEF C2S, Backend

\* The client keeps the invariant, also when it goes away in the middle.
LEMMA ClientSafe == IInv /\ (ClientSends \/ ClientCloses \/ ClientGoes) => IInv'
<1> SUFFICES ASSUME IInv, ClientSends \/ ClientCloses \/ ClientGoes PROVE IInv'
  OBVIOUS
<1>1. CASE ClientSends
  <2>1. TypeOK'
    BY <1>1, ClientBounds DEF IInv, TypeOK, ClientSends, handlerVars, streamVars
  <2>2. StreamOrder' /\ NoUnexpectedTermination' /\ LiveIsWorkedOn' /\ ReportAccount'
    BY <1>1 DEF IInv, StreamOrder, NoUnexpectedTermination, LiveIsWorkedOn,
        ReportAccount, ClientSends, handlerVars, streamVars, OnStream
  <2>3. LoopState'
    BY <1>1 DEF IInv, TypeOK, LoopState, ClientSends, handlerVars, streamVars
  <2>4. SenderIsCurrent'
    BY <1>1 DEF IInv, TypeOK, SenderIsCurrent, ClientSends, handlerVars, streamVars,
        Sending
  <2> QED BY <2>1, <2>2, <2>3, <2>4 DEF IInv
<1>2. CASE ClientCloses
  <2>1. TypeOK'
    <3>1. client' \in [sent : 0 .. Messages, read : 0 .. Messages, closed : BOOLEAN,
                     gone : BOOLEAN]
      BY <1>2 DEF IInv, TypeOK, ClientCloses
    <3> QED BY <1>2, <3>1 DEF IInv, TypeOK, ClientCloses, handlerVars, streamVars
  <2>2. /\ StreamOrder'
        /\ LoopState'
        /\ NoUnexpectedTermination'
        /\ LiveIsWorkedOn'
        /\ ReportAccount'
        /\ SenderIsCurrent'
    BY <1>2 DEF IInv, StreamOrder, LoopState, NoUnexpectedTermination, LiveIsWorkedOn,
        ReportAccount, SenderIsCurrent, ClientCloses, handlerVars, streamVars,
        OnStream, Sending
  <2> QED BY <2>1, <2>2 DEF IInv
<1>3. CASE ClientGoes
  <2>1. TypeOK'
    <3>1. client' \in [sent : 0 .. Messages, read : 0 .. Messages, closed : BOOLEAN,
                     gone : BOOLEAN]
      BY <1>3 DEF IInv, TypeOK, ClientGoes
    <3> QED BY <1>3, <3>1 DEF IInv, TypeOK, ClientGoes, handlerVars
  <2>2. LoopState' /\ NoUnexpectedTermination' /\ ReportAccount'
    BY <1>3 DEF IInv, LoopState, NoUnexpectedTermination, ReportAccount, ClientGoes,
        handlerVars, OnStream
  <2>3. StreamOrder'
    BY <1>3, StreamsFacts DEF IInv, TypeOK, StreamOrder, ClientGoes, handlerVars,
        OnStream
  <2>4. LiveIsWorkedOn'
    BY <1>3 DEF LiveIsWorkedOn, ClientGoes, handlerVars, OnStream
  <2>5. SenderIsCurrent'
    BY <1>3 DEF SenderIsCurrent, ClientGoes, handlerVars, Sending
  <2> QED BY <2>1, <2>2, <2>3, <2>4, <2>5 DEF IInv
<1> QED BY <1>1, <1>2, <1>3

\* The invariant is inductive.
LEMMA NextSafe == IInv /\ [Next]_vars => IInv'
<1> SUFFICES ASSUME IInv, [Next]_vars PROVE IInv'
  OBVIOUS
<1>1. CASE UNCHANGED vars
  BY <1>1 DEF IInv, TypeOK, StreamOrder, LoopState, NoUnexpectedTermination, LiveIsWorkedOn,
      ReportAccount, SenderIsCurrent, OnStream, Sending, vars, handlerVars, streamVars
<1> QED BY <1>1, HandlerSafe, S2CSafe, StreamsSafe, ClientSafe DEF Next

-----------------------------------------------------------------------------
(* What follows *)

\* The inductive invariant of transparent.go holds in every reachable state, for every
\* RETRY_COUNT and any number of client messages.
THEOREM Safety == Spec => []IInv
BY InitSafe, NextSafe, PTL DEF Spec

\* Every variable of the proxy keeps its type.
THEOREM TypeCorrect == Spec => []TypeOK
BY Safety, PTL DEF IInv

\* The loops of the handler never run out (lines 166 and 246).
THEOREM NoUnexpectedTerminationHolds == Spec => []NoUnexpectedTermination
BY Safety, PTL DEF IInv

\* No stream is live but the one the handler works on, and none after it returned.
THEOREM NoStreamLeftBehindHolds == Spec => []NoStreamLeftBehind
<1>1. IInv => NoStreamLeftBehind
  BY DEF IInv, LiveIsWorkedOn, OnStream, NoStreamLeftBehind
<1> QED BY <1>1, Safety, PTL

\* Every connection but that of a stream that ended well is reported exactly once.
THEOREM ReportedOnceHolds == Spec => []ReportedOnce
<1>1. IInv => ReportedOnce
  <2> SUFFICES ASSUME IInv PROVE ReportedOnce
    OBVIOUS
  <2>1. leased \in Nat /\ 1 .. leased \subseteq Streams
    BY StreamsFacts DEF IInv, TypeOK
  <2>2. ASSUME NEW x \in Streams PROVE reported[x] <= 1
    <3>1. CASE x > leased
      BY <3>1 DEF IInv, StreamOrder
    <3>2. CASE x <= leased
      <4>1. x \in 1 .. leased
        BY <2>1, <3>2, StreamsFacts
      <4> QED BY <4>1 DEF IInv, ReportAccount
    <3> QED BY <2>1, <3>1, <3>2, StreamsFacts
  <2>3. pc = "done" => \A x \in 1 .. leased :
                         reported[x] = 0 <=> (result = "ok" /\ x = leased)
    BY DEF IInv, ReportAccount, OnStream
  <2> QED BY <2>2, <2>3 DEF ReportedOnce
<1> QED BY <1>1, Safety, PTL

\* A client that sent one message at most is never sent to by two goroutines.
THEOREM OneSenderToClientHolds == Spec => []OneSenderToClient
<1>1. IInv => OneSenderToClient
  BY DEF IInv, SenderIsCurrent, OneSenderToClient
<1> QED BY <1>1, Safety, PTL

-----------------------------------------------------------------------------
(* The retry budget *)

\* Arithmetic of the account: the attempts for one more stream are within the budget
\* as long as a transfer is left.
LEMMA OneMoreStream ==
    ASSUME NEW t \in Nat, t < RetryCount - 1
    PROVE  /\ (t + 1) * RetryCount + RetryCount = (t + 2) * RetryCount
           /\ (t + 2) * RetryCount <= RetryCount * RetryCount
           /\ RetryCount <= RetryCount * RetryCount
<1> DEFINE R == RetryCount
<1>1. R \in Nat /\ R > 0
  BY RetryCountPositive
<1>2. \A a, b \in Nat : a <= b => a * R <= b * R
  BY <1>1
<1>3. t + 2 \in Nat /\ t + 2 <= R /\ 1 <= R
  BY <1>1
<1>4. (t + 2) * R <= R * R /\ 1 * R <= R * R
  BY <1>1, <1>2, <1>3
<1>5. (t + 1) * R + R = (t + 2) * R
  BY <1>1
<1> QED BY <1>1, <1>4, <1>5

\* While a connection is being sought, one more attempt is within the budget.
LEMMA AttemptIsPaid ==
    ASSUME IInv, pc \in {"open", "dial"}
    PROVE  /\ Spent \in Nat
           /\ Spent + attempt + 1 <= RetryCount * RetryCount
           /\ stream # 0 => Spent + attempt + 1 <= (transferAttempt + 2) * RetryCount
           /\ attempt + 1 <= RetryCount
<1>1. /\ RetryCount \in Nat \ {0}
      /\ attempt \in Nat /\ attempt + 1 <= RetryCount
      /\ transferAttempt \in Nat
  BY RetryCountPositive DEF IInv, TypeOK
<1>2. CASE stream = 0
  <2>1. Spent = 0
    BY <1>2 DEF Spent
  <2>2. RetryCount <= RetryCount * RetryCount
    BY <1>1
  <2> QED BY <1>1, <1>2, <2>1, <2>2
<1>3. CASE stream # 0
  <2>1. transferAttempt < RetryCount - 1
    BY <1>3 DEF IInv, LoopState
  <2>2. Spent = (transferAttempt + 1) * RetryCount
    BY <1>3 DEF Spent
  <2>3. (transferAttempt + 1) * RetryCount \in Nat
    BY <1>1
  <2>4. /\ Spent + RetryCount = (transferAttempt + 2) * RetryCount
        /\ (transferAttempt + 2) * RetryCount <= RetryCount * RetryCount
    BY <1>1, <2>1, <2>2, OneMoreStream
  <2>5. (transferAttempt + 2) * RetryCount \in Nat /\ RetryCount * RetryCount \in Nat
    BY <1>1
  <2> HIDE DEF Spent
  <2> QED BY <1>1, <2>2, <2>3, <2>4, <2>5
<1> QED BY <1>2, <1>3

\* The account is kept by the handler; nobody else touches what it counts.
LEMMA BudgetStep == IInv /\ BudgetAccount /\ [Next]_vars => BudgetAccount'
<1> SUFFICES ASSUME IInv, BudgetAccount, [Next]_vars PROVE BudgetAccount'
  OBVIOUS
<1> DEFINE Same == UNCHANGED <<retryable, handlerVars>>
<1>0. /\ RetryCount \in Nat \ {0}
      /\ leased \in Nat /\ attempt \in Nat /\ transferAttempt \in Nat
  BY StreamsFacts, RetryCountPositive DEF IInv, TypeOK
<1>1. CASE GetConnection
  <2>1. /\ pc = "open" /\ pc' = "dial" /\ leased' = leased + 1
        /\ UNCHANGED <<retryable, attempt, transferAttempt, stream>>
    BY <1>1 DEF GetConnection
  <2>2. Spent' = Spent
    BY <2>1 DEF Spent
  <2>3. leased <= Spent + attempt
    BY <2>1 DEF BudgetAccount
  <2>4. LeaseBound'
    <3>1. CASE retryable
      BY <1>0, <2>1, <2>3, <3>1, AttemptIsPaid DEF LeaseBound
    <3>2. CASE ~retryable
      BY <1>0, <2>1, <2>3, <3>2 DEF LeaseBound, BudgetAccount, Spent
    <3> QED BY <3>1, <3>2
  <2>5. leased' <= Spent' + attempt' + 1
    BY <1>0, <2>1, <2>2, <2>3, AttemptIsPaid
  <2> QED BY <2>1, <2>4, <2>5 DEF BudgetAccount, OnStream
<1>2. CASE NewStream
  <2>1. /\ pc = "dial" /\ pc' = IF stream = 0 THEN "forward" ELSE "replay"
        /\ transferAttempt' = IF stream = 0 THEN transferAttempt ELSE transferAttempt + 1
        /\ stream' = leased
        /\ UNCHANGED <<retryable, attempt, leased>>
    BY <1>2 DEF NewStream
  <2>2. stream' # 0
    <3>1. stream \in Nat
      BY StreamsFacts DEF IInv, TypeOK
    <3>2. stream < leased
      BY <2>1 DEF IInv, StreamOrder
    <3> QED BY <1>0, <2>1, <3>1, <3>2
  <2>3. leased <= Spent + attempt + 1
    BY <2>1 DEF BudgetAccount
  <2>4. leased' <= Spent'
    <3>1. Spent' = (transferAttempt' + 1) * RetryCount
      BY <2>2 DEF Spent
    <3>2. CASE stream = 0
      <4>1. Spent = 0 /\ attempt + 1 <= RetryCount
        BY <2>1, <3>2, AttemptIsPaid DEF Spent
      <4>2. RetryCount <= (transferAttempt + 1) * RetryCount
        BY <1>0
      <4>3. (transferAttempt + 1) * RetryCount \in Nat
        BY <1>0
      <4> QED BY <1>0, <2>1, <2>3, <3>1, <3>2, <4>1, <4>2, <4>3
    <3>3. CASE stream # 0
      <4>1. Spent' = (transferAttempt + 2) * RetryCount
        BY <1>0, <2>1, <3>1, <3>3
      <4>2. (transferAttempt + 2) * RetryCount \in Nat
        BY <1>0
      <4> QED BY <1>0, <2>1, <2>3, <3>3, <4>1, <4>2, AttemptIsPaid
    <3> QED BY <3>2, <3>3
  <2>5. LeaseBound'
    BY <2>1 DEF LeaseBound, BudgetAccount
  <2> QED BY <2>1, <2>4, <2>5 DEF BudgetAccount, OnStream
<1>3. CASE NewStreamFails
  <2>1. /\ pc = "dial"
        /\ \/ RetriesLeft /\ pc' = "open" /\ attempt' = attempt + 1
           \/ pc' = "done"
        /\ UNCHANGED <<retryable, transferAttempt, leased, stream>>
    BY <1>3 DEF NewStreamFails, Return
  <2>2. Spent' = Spent
    BY <2>1 DEF Spent
  <2>3. leased <= Spent + attempt + 1 /\ Spent \in Nat
    BY <2>1, AttemptIsPaid DEF BudgetAccount
  <2>4. LeaseBound'
    BY <2>1 DEF LeaseBound, BudgetAccount
  <2>5. pc' = "open" => leased' <= Spent' + attempt'
    BY <1>0, <2>1, <2>2, <2>3
  <2> QED BY <2>1, <2>4, <2>5 DEF BudgetAccount, OnStream, RetriesLeft
<1>4. CASE UNCHANGED <<retryable, attempt, transferAttempt, leased, stream>> /\ OnStream'
           /\ OnStream
  <2>1. Spent' = Spent
    BY <1>4 DEF Spent
  <2> QED BY <1>4, <2>1 DEF BudgetAccount, LeaseBound, OnStream
<1>5. CASE UNCHANGED <<retryable, transferAttempt, leased, stream>> /\ pc' = "done"
  BY <1>5 DEF BudgetAccount, LeaseBound, OnStream
<1>6. CASE /\ UNCHANGED <<retryable, transferAttempt, leased, stream>>
           /\ OnStream /\ pc' = "open" /\ attempt' = 0 /\ retryable
  <2>1. Spent' = Spent
    BY <1>6 DEF Spent
  <2>2. leased <= Spent
    BY <1>6 DEF BudgetAccount
  <2>3. LeaseBound'
    BY <1>6 DEF BudgetAccount, LeaseBound
  <2>4. leased' <= Spent' + attempt'
    <3>1. Spent \in Nat
      BY <1>0 DEF Spent
    <3> QED BY <1>0, <1>6, <2>1, <2>2, <3>1
  <2> QED BY <1>6, <2>3, <2>4 DEF BudgetAccount, OnStream
<1>7. CASE Accept \/ Same
  <2>1. /\ UNCHANGED <<retryable, attempt, transferAttempt, leased, stream>>
        /\ pc' = pc \/ (pc = "start" /\ pc' = "open")
    BY <1>7 DEF Accept, handlerVars
  <2>2. Spent' = Spent
    BY <2>1 DEF Spent
  <2> QED BY <2>1, <2>2 DEF BudgetAccount, LeaseBound, OnStream
<1>8. CASE Reject \/ GetConnectionFails
  BY <1>5, <1>8 DEF Reject, GetConnectionFails, Return
<1>9. CASE StartForwarding \/ Replay
  BY <1>4, <1>9 DEF StartForwarding, Replay, OnStream
<1>10. CASE Selecting
  <2>1. CASE SelectClientEOF
    BY <1>4, <1>5, <2>1 DEF SelectClientEOF, Return, OnStream
  <2>2. CASE SelectBackendEOF
    BY <1>5, <2>2 DEF SelectBackendEOF, Return
  <2>3. CASE SelectClientError
    BY <1>5, <1>6, <2>3 DEF SelectClientError, AbandonStream, MayTransfer,
        TransfersLeft, Return, OnStream
  <2>4. CASE SelectBackendError
    BY <1>5, <1>6, <2>4 DEF SelectBackendError, AbandonStream, MayTransfer,
        TransfersLeft, Return, OnStream
  <2> QED BY <1>10, <2>1, <2>2, <2>3, <2>4 DEF Selecting
<1>11. CASE ReplayFails \/ AwaitEOF \/ AwaitError
  BY <1>5, <1>6, <1>11 DEF ReplayFails, AwaitEOF, AwaitError, AbandonStream,
      TransfersLeft, Return, OnStream
<1>12. CASE UNCHANGED vars
  BY <1>7, <1>12 DEF vars
<1>13. CASE S2C
  BY <1>7, <1>13 DEF S2C, S2CReceives, S2CReceivesEnd, S2CSends
<1>14. CASE \E x \in Streams : C2S(x) \/ Backend(x)
  BY <1>7, <1>14 DEF C2S, C2SReceives, C2SSends, C2SEnds, Backend, BackendFinishes,
      BackendBreaks
<1>15. CASE ClientSends \/ ClientCloses \/ ClientGoes
  BY <1>7, <1>15 DEF ClientSends, ClientCloses, ClientGoes
<1> QED
  BY <1>1, <1>2, <1>3, <1>7, <1>8, <1>9, <1>10, <1>11, <1>12, <1>13, <1>14, <1>15
  DEF Next, Handler, Opening, Transferring

\* Nothing is spent at the start.
LEMMA InitBudget == Init => BudgetAccount
<1> SUFFICES ASSUME Init PROVE BudgetAccount
  OBVIOUS
<1>1. pc = "start" /\ leased = 0 /\ attempt = 0 /\ stream = 0
  BY DEF Init
<1>2. RetryCount * RetryCount \in Nat
  BY RetryCountPositive
<1> QED BY <1>1, <1>2 DEF BudgetAccount, LeaseBound, Spent, OnStream

\* Opening and transferring end: for every RETRY_COUNT, an RPC takes at most its square
\* of connections on a dynamic cluster, and one on a static cluster.
THEOREM LeaseBoundHolds == Spec => []LeaseBound
<1>1. BudgetAccount => LeaseBound
  BY DEF BudgetAccount
<1> QED BY <1>1, InitBudget, BudgetStep, Safety, PTL DEF Spec

-----------------------------------------------------------------------------
(* Nothing is lost on the way to a status OK *)

\* The goroutine that reads from the client is on a stream that exists, in the first
\* phase on the one the handler works on.
LEMMA ForwardedFacts ==
    ASSUME TypeOK, Untouched, s2c # "off"
    PROVE  /\ Forwarded \in Streams
           /\ c2s[Forwarded] # "off"
           /\ pc \in {"select", "select2"} => Forwarded = stream
<1>1. \E x \in Streams : IsFirst(x)
  BY DEF Untouched
<1>2. Forwarded \in Streams /\ IsFirst(Forwarded)
  BY <1>1 DEF Forwarded
<1>3. pc \in {"select", "select2"} => Forwarded = stream
  BY <1>2 DEF Untouched, IsFirst
<1> QED BY <1>2, <1>3 DEF IsFirst

\* A stream that is given up does not become live or end well.
LEMMA CancelledFacts ==
    ASSUME TypeOK, NEW x \in {0} \union Streams
    PROVE  /\ Cancelled(x) \in [Streams -> {"none", "live", "ended", "broken", "cancelled"}]
           /\ \A y \in Streams :
                /\ Cancelled(x)[y] = "ended" <=> status[y] = "ended"
                /\ Cancelled(x)[y] = "live" => status[y] = "live"
BY DEF TypeOK, Cancelled

\* What a step must not do to the messages, and enough for the account to stand: streams
\* do not become live or end well, and the goroutines stay where they are, apart from
\* results taken from them; the handler is not in its loop afterwards.
LEMMA GivenUp ==
    ASSUME IInv, ServiceAccount,
           UNCHANGED <<stream, got, halfClosed, client>>,
           \A x \in Streams :
               /\ status'[x] = "ended" <=> status[x] = "ended"
               /\ status'[x] = "live" => status[x] = "live",
           s2c' \in {s2c, "taken"}, s2c' = "off" <=> s2c = "off",
           \A x \in Streams : c2s'[x] = c2s[x] \/ (c2s[x] # "off" /\ c2s'[x] = "taken"),
           pc' \in {"open", "done"},
           result' = "ok" => status[stream] = "ended" /\ stream \in Streams
    PROVE  ServiceAccount'
<1>1. Untouched'
  <2>1. \A x \in Streams : c2s'[x] = "off" <=> c2s[x] = "off"
    OBVIOUS
  <2>2. \A x \in Streams : IsFirst(x)' <=> IsFirst(x)
    BY <2>1 DEF IsFirst
  <2> QED BY <2>1, <2>2 DEF ServiceAccount, Untouched
<1>2. MessageAccount'
  BY DEF ServiceAccount, MessageAccount
<1>3. CompleteInput'
  BY DEF ServiceAccount, CompleteInput, HasInput
<1> QED BY <1>1, <1>2, <1>3 DEF ServiceAccount

\* openBackendStream does not touch what was sent: a new stream has received nothing.
LEMMA OpeningServed == IInv /\ ServiceAccount /\ Opening => ServiceAccount'
<1> SUFFICES ASSUME IInv, ServiceAccount, Opening PROVE ServiceAccount'
  OBVIOUS
<1>0. TypeOK /\ Untouched /\ MessageAccount /\ CompleteInput
  BY DEF IInv, ServiceAccount
<1>1. CASE GetConnection
  <2>1. Untouched' /\ MessageAccount' /\ CompleteInput'
    BY <1>0, <1>1 DEF GetConnection, streamVars, Untouched, IsFirst, MessageAccount,
       CompleteInput, HasInput
  <2> QED BY <2>1 DEF ServiceAccount
<1>2. CASE GetConnectionFails
  <2>1. /\ UNCHANGED <<stream, got, halfClosed, client, s2c, c2s>>
        /\ status' = Cancelled(stream) /\ pc' = "done" /\ result' # "ok"
    BY <1>2 DEF GetConnectionFails, Return
  <2>2. stream \in {0} \union Streams
    BY <1>0 DEF TypeOK
  <2> QED BY <1>0, <2>1, <2>2, CancelledFacts, GivenUp
<1>3. CASE NewStream
  <2>1. /\ pc = "dial" /\ pc' \in {"forward", "replay"}
        /\ stream' = leased
        /\ \E outcome \in {"live", "cancelled"} : status' = [status EXCEPT ![leased] = outcome]
        /\ UNCHANGED <<got, halfClosed, s2c, c2s, client, result>>
    BY <1>3 DEF NewStream
  <2>2. leased \in Streams /\ stream < leased /\ stream \in Nat /\ status[leased] = "none"
    BY <1>0, <2>1, StreamsFacts DEF IInv, TypeOK, StreamOrder
  <2>3. c2s[leased] = "off" /\ got[leased] = {} /\ ~halfClosed[leased]
    BY <1>0, <2>2 DEF Untouched
  <2>4. \A x \in Streams : x # leased => status'[x] = status[x]
    BY <1>0, <2>1 DEF TypeOK
  <2>5. status'[leased] \in {"live", "cancelled"}
    BY <1>0, <2>1, <2>2 DEF TypeOK
  <2>6. Untouched'
    BY <1>0, <2>1, <2>2, <2>3, <2>4, <2>5, StreamsFacts DEF Untouched, IsFirst
  <2>7. MessageAccount'
    BY <1>0, <2>1 DEF MessageAccount
  <2>8. result # "ok"
    BY <2>1 DEF IInv, LoopState
  <2>9. CompleteInput'
    BY <1>0, <2>1, <2>3, <2>4, <2>5, <2>8 DEF CompleteInput, HasInput
  <2> QED BY <2>6, <2>7, <2>9 DEF ServiceAccount
<1>4. CASE NewStreamFails
  <2>1. /\ UNCHANGED <<stream, got, halfClosed, client, s2c, c2s>>
        /\ status' \in {status, Cancelled(stream)}
        /\ pc' \in {"open", "done"} /\ (result' # "ok" \/ result' = result)
        /\ pc = "dial"
    BY <1>4 DEF NewStreamFails, Return
  <2>2. stream \in {0} \union Streams /\ result # "ok"
    BY <1>0, <2>1 DEF IInv, TypeOK, LoopState
  <2> QED BY <1>0, <2>1, <2>2, CancelledFacts, GivenUp
<1> QED BY <1>1, <1>2, <1>3, <1>4 DEF Opening

\* Giving up the stream in state keeps the account.
LEMMA AbandonServed ==
    ASSUME IInv, ServiceAccount, AbandonStream(TRUE) \/ AbandonStream(FALSE),
           pc # "done",
           UNCHANGED <<stream, got, halfClosed, client>>,
           s2c' \in {s2c, "taken"}, s2c' = "off" <=> s2c = "off",
           \A x \in Streams : c2s'[x] = c2s[x] \/ (c2s[x] # "off" /\ c2s'[x] = "taken")
    PROVE  ServiceAccount'
<1>1. status' = Cancelled(stream) /\ pc' \in {"open", "done"} /\ result' \in {result, "failed"}
  BY DEF AbandonStream, Return
<1>2. stream \in {0} \union Streams /\ result # "ok" /\ TypeOK
  BY DEF IInv, TypeOK, LoopState
<1>3. \A y \in Streams : /\ status'[y] = "ended" <=> status[y] = "ended"
                         /\ status'[y] = "live" => status[y] = "live"
  BY <1>1, <1>2, CancelledFacts
<1> QED BY <1>1, <1>2, <1>3, GivenUp

\* The select loop: an end of input is passed on only when the stream has all of it.
LEMMA SelectingServed == IInv /\ ServiceAccount /\ Selecting => ServiceAccount'
<1> SUFFICES ASSUME IInv, ServiceAccount, Selecting PROVE ServiceAccount'
  OBVIOUS
<1>0. /\ TypeOK /\ Untouched /\ MessageAccount /\ CompleteInput
      /\ pc \in {"select", "select2"} /\ stream \in Streams
  <2>1. pc \in {"select", "select2"}
    BY DEF Selecting, SelectClientEOF, SelectClientError, SelectBackendEOF,
       SelectBackendError
  <2> QED BY <2>1 DEF IInv, ServiceAccount, TypeOK, StreamOrder
<1>1. CASE SelectClientEOF
  <2>1. pc = "select" /\ pc' = "select2"
    BY <1>1 DEF SelectClientEOF, IInv, LoopState
  <2>2. /\ s2c = "eof" /\ s2c' = "taken"
        /\ halfClosed' = [halfClosed EXCEPT ![stream] = TRUE]
        /\ UNCHANGED <<stream, status, got, client, c2s, result>>
    BY <1>1, <2>1 DEF SelectClientEOF, CloseSend
  <2>3. status[stream] = "live" => HasInput(stream)
    <3> SUFFICES ASSUME status[stream] = "live" PROVE HasInput(stream)
      OBVIOUS
    <3>1. client.closed /\ client.read = client.sent /\ got[stream] = 1 .. client.sent
      BY <1>0, <2>1, <2>2 DEF MessageAccount
    <3>2. client.sent \in Nat
      BY <1>0, ClientBounds DEF TypeOK
    <3> QED BY <3>1, <3>2 DEF HasInput
  <2>4. status[stream] # "ended"
    BY <1>0, <2>1 DEF MessageAccount, CompleteInput
  <2>5. \A x \in Streams : halfClosed'[x] = (halfClosed[x] \/ x = stream)
    BY <1>0, <2>2 DEF TypeOK
  <2>6. Untouched'
    BY <1>0, <2>1, <2>2, <2>5 DEF Untouched, IsFirst
  <2>7. MessageAccount'
    BY <1>0, <2>1, <2>2 DEF MessageAccount
  <2>8. CompleteInput'
    BY <1>0, <2>2, <2>3, <2>4, <2>5 DEF CompleteInput, HasInput
  <2> QED BY <2>6, <2>7, <2>8 DEF ServiceAccount
<1>2. CASE SelectClientError
  <2>1. /\ AbandonStream(TRUE) \/ AbandonStream(FALSE)
        /\ s2c = "err" /\ s2c' = "taken"
        /\ UNCHANGED <<stream, got, halfClosed, client, c2s>>
    BY <1>2 DEF SelectClientError, AbandonStream
  <2> QED BY <1>0, <2>1, AbandonServed
<1>3. CASE SelectBackendEOF
  <2>1. /\ c2s[stream] = "eof" /\ c2s' = [c2s EXCEPT ![stream] = "taken"]
        /\ status' = Cancelled(stream) /\ pc' = "done"
        /\ UNCHANGED <<stream, got, halfClosed, client, s2c>>
    BY <1>3 DEF SelectBackendEOF, Return
  <2>2. status[stream] = "ended"
    BY <1>0, <2>1 DEF CompleteInput
  <2>3. \A x \in Streams : c2s'[x] = c2s[x] \/ (c2s[x] # "off" /\ c2s'[x] = "taken")
    BY <1>0, <2>1 DEF TypeOK
  <2>4. \A y \in Streams : /\ status'[y] = "ended" <=> status[y] = "ended"
                           /\ status'[y] = "live" => status[y] = "live"
    BY <1>0, <2>1, CancelledFacts
  <2> QED BY <1>0, <2>1, <2>2, <2>3, <2>4, GivenUp
<1>4. CASE SelectBackendError
  <2>1. /\ AbandonStream(TRUE) \/ AbandonStream(FALSE)
        /\ c2s[stream] = "err" /\ c2s' = [c2s EXCEPT ![stream] = "taken"]
        /\ UNCHANGED <<stream, got, halfClosed, client, s2c>>
    BY <1>4 DEF SelectBackendError, AbandonStream
  <2>2. \A x \in Streams : c2s'[x] = c2s[x] \/ (c2s[x] # "off" /\ c2s'[x] = "taken")
    BY <1>0, <2>1 DEF TypeOK
  <2> QED BY <1>0, <2>1, <2>2, AbandonServed
<1> QED BY <1>1, <1>2, <1>3, <1>4 DEF Selecting

\* The replay: the stream gets the first message before its input is ended.
LEMMA TransferringServed == IInv /\ ServiceAccount /\ Transferring => ServiceAccount'
<1> SUFFICES ASSUME IInv, ServiceAccount, Transferring PROVE ServiceAccount'
  OBVIOUS
<1>0. /\ TypeOK /\ Untouched /\ MessageAccount /\ CompleteInput
      /\ pc \in {"replay", "await"} /\ stream \in Streams
  <2>1. pc \in {"replay", "await"}
    BY DEF Transferring, Replay, ReplayFails, AwaitEOF, AwaitError
  <2> QED BY <2>1 DEF IInv, ServiceAccount, TypeOK, StreamOrder
<1>1. CASE Replay
  <2>1. /\ pc = "replay" /\ pc' = "await" /\ firstClientMsg
        /\ status[stream] # "cancelled"
        /\ got' = [got EXCEPT ![stream] = IF status[stream] = "live" THEN {1} ELSE {}]
        /\ halfClosed' = [halfClosed EXCEPT ![stream] = TRUE]
        /\ c2s' = [c2s EXCEPT ![stream] = "run"]
        /\ UNCHANGED <<stream, status, s2c, client, result>>
    BY <1>1 DEF Replay, CloseSend, Replayed
  <2>2. /\ c2s[stream] = "off" /\ status[stream] # "ended"
        /\ client.read > 0 /\ client.read \in Nat
    BY <1>0, <2>1, ClientBounds DEF Untouched, IInv, LoopState, TypeOK
  <2>3. \A x \in Streams :
           /\ x # stream => got'[x] = got[x] /\ halfClosed'[x] = halfClosed[x] /\ c2s'[x] = c2s[x]
           /\ x = stream => /\ got'[x] = IF status[stream] = "live" THEN {1} ELSE {}
                            /\ halfClosed'[x] /\ c2s'[x] = "run"
    BY <1>0, <2>1 DEF TypeOK
  <2>4. Untouched'
    <3>1. s2c # "off"
      BY <1>0, <2>2 DEF Untouched
    <3>2. PICK x \in Streams : IsFirst(x)
      BY <1>0, <3>1 DEF Untouched
    <3>3. x <= stream
      BY <1>0, <3>2, StreamsFacts DEF Untouched, IsFirst
    <3>4. IsFirst(x)'
      BY <2>3, <3>2, <3>3 DEF IsFirst
    <3>5. \A y \in Streams : c2s'[y] = "off" =>
             got'[y] = {} /\ ~halfClosed'[y] /\ status'[y] # "ended"
      <4> SUFFICES ASSUME NEW y \in Streams, c2s'[y] = "off"
                   PROVE  got'[y] = {} /\ ~halfClosed'[y] /\ status'[y] # "ended"
        OBVIOUS
      <4>1. y # stream
        BY <2>3
      <4>2. got'[y] = got[y] /\ halfClosed'[y] = halfClosed[y] /\ c2s[y] = "off"
        BY <2>3, <4>1
      <4> QED BY <1>0, <2>1, <4>2 DEF Untouched
    <3>6. \A y \in Streams : y > stream' => c2s'[y] = "off"
      BY <1>0, <2>1, <2>3, StreamsFacts DEF Untouched
    <3>7. s2c' # "off" /\ pc' = "await"
      BY <2>1, <3>1
    <3> QED BY <3>4, <3>5, <3>6, <3>7 DEF Untouched
  <2>5. MessageAccount'
    BY <1>0, <2>1, <2>2, <2>3 DEF MessageAccount
  <2>6. CompleteInput'
    <3>1. \A x \in Streams : x # stream => (HasInput(x)' <=> HasInput(x))
      BY <2>1, <2>3 DEF HasInput
    <3>2. status[stream] = "live" => HasInput(stream)'
      <4>1. status[stream] = "live" => 1 \in got'[stream]
        BY <1>0, <2>3
      <4>2. stream' = stream
        BY <2>1
      <4> QED BY <4>1, <4>2 DEF HasInput
    <3>3. \A x \in Streams : status'[x] = "ended" => halfClosed'[x]
      BY <1>0, <2>1, <2>2, <2>3 DEF CompleteInput
    <3>4. \A x \in Streams : halfClosed'[x] /\ status'[x] \in {"live", "ended"} => HasInput(x)'
      <4> SUFFICES ASSUME NEW x \in Streams, halfClosed'[x], status'[x] \in {"live", "ended"}
                   PROVE  HasInput(x)'
        OBVIOUS
      <4>1. CASE x = stream
        BY <2>1, <2>2, <3>2, <4>1
      <4>2. CASE x # stream
        BY <1>0, <2>1, <2>3, <3>1, <4>2 DEF CompleteInput
      <4> QED BY <4>1, <4>2
    <3>5. \A x \in Streams : c2s'[x] = "eof" => status'[x] = "ended"
      BY <1>0, <2>1, <2>3 DEF CompleteInput
    <3>6. result' = "ok" => status'[stream'] = "ended" /\ stream' \in Streams
      BY <1>0, <2>1 DEF CompleteInput
    <3> QED BY <3>3, <3>4, <3>5, <3>6 DEF CompleteInput
  <2> QED BY <2>4, <2>5, <2>6 DEF ServiceAccount
<1>2. CASE ReplayFails
  <2>1. /\ UNCHANGED <<stream, got, halfClosed, client, s2c, c2s>>
        /\ status' = Cancelled(stream) /\ pc' = "done" /\ result' # "ok"
    BY <1>2 DEF ReplayFails, AbandonStream, Return
  <2> QED BY <1>0, <2>1, CancelledFacts, GivenUp
<1>3. CASE AwaitEOF
  <2>1. /\ c2s[stream] = "eof" /\ c2s' = [c2s EXCEPT ![stream] = "taken"]
        /\ status' = Cancelled(stream) /\ pc' = "done"
        /\ UNCHANGED <<stream, got, halfClosed, client, s2c>>
    BY <1>3 DEF AwaitEOF, Return
  <2>2. status[stream] = "ended"
    BY <1>0, <2>1 DEF CompleteInput
  <2>3. \A x \in Streams : c2s'[x] = c2s[x] \/ (c2s[x] # "off" /\ c2s'[x] = "taken")
    BY <1>0, <2>1 DEF TypeOK
  <2>4. \A y \in Streams : /\ status'[y] = "ended" <=> status[y] = "ended"
                           /\ status'[y] = "live" => status[y] = "live"
    BY <1>0, <2>1, CancelledFacts
  <2> QED BY <1>0, <2>1, <2>2, <2>3, <2>4, GivenUp
<1>4. CASE AwaitError
  <2>1. /\ AbandonStream(TRUE) \/ AbandonStream(FALSE)
        /\ c2s[stream] = "err" /\ c2s' = [c2s EXCEPT ![stream] = "taken"]
        /\ UNCHANGED <<stream, got, halfClosed, client, s2c>>
    BY <1>4 DEF AwaitError, AbandonStream
  <2>2. \A x \in Streams : c2s'[x] = c2s[x] \/ (c2s[x] # "off" /\ c2s'[x] = "taken")
    BY <1>0, <2>1 DEF TypeOK
  <2> QED BY <1>0, <2>1, <2>2, AbandonServed
<1> QED BY <1>1, <1>2, <1>3, <1>4 DEF Transferring

\* Every step of the handler.
LEMMA HandlerServed == IInv /\ ServiceAccount /\ Handler => ServiceAccount'
<1> SUFFICES ASSUME IInv, ServiceAccount, Handler PROVE ServiceAccount'
  OBVIOUS
<1>0. TypeOK /\ Untouched /\ MessageAccount /\ CompleteInput
  BY DEF IInv, ServiceAccount
<1>1. CASE Reject
  <2>1. /\ UNCHANGED <<stream, got, halfClosed, client, s2c, c2s>>
        /\ status' = Cancelled(stream) /\ pc' = "done" /\ result' # "ok"
    BY <1>1 DEF Reject, Return
  <2>2. stream \in {0} \union Streams
    BY <1>0 DEF TypeOK
  <2> QED BY <1>0, <2>1, <2>2, CancelledFacts, GivenUp
<1>2. CASE Accept
  <2>1. Untouched' /\ MessageAccount' /\ CompleteInput'
    BY <1>0, <1>2 DEF Accept, streamVars, Untouched, IsFirst, MessageAccount,
       CompleteInput, HasInput
  <2> QED BY <2>1 DEF ServiceAccount
<1>3. CASE StartForwarding
  <2>1. /\ pc = "forward" /\ pc' = "select" /\ s2c' = "recv"
        /\ c2s' = [c2s EXCEPT ![stream] = "run"]
        /\ UNCHANGED <<stream, status, got, halfClosed, client, result>>
    BY <1>3 DEF StartForwarding, streamVars
  <2>2. /\ stream \in Streams /\ s2c = "off" /\ client.read = 0
        /\ \A x \in Streams : c2s[x] = "off"
    BY <1>0, <2>1 DEF Untouched, IInv, TypeOK, StreamOrder, LoopState
  <2>3. \A x \in Streams : c2s'[x] = IF x = stream THEN "run" ELSE "off"
    BY <1>0, <2>1, <2>2 DEF TypeOK
  <2>4. got[stream] = {} /\ ~halfClosed[stream]
    BY <1>0, <2>2 DEF Untouched
  <2>5. IsFirst(stream)'
    BY <2>1, <2>2, <2>3, StreamsFacts DEF IsFirst
  <2>6. Untouched'
    <3>1. \A y \in Streams : c2s'[y] = "off" =>
             got'[y] = {} /\ ~halfClosed'[y] /\ status'[y] # "ended"
      BY <1>0, <2>1, <2>2 DEF Untouched
    <3>2. \A y \in Streams : y > stream' => c2s'[y] = "off"
      BY <2>1, <2>2, <2>3, StreamsFacts
    <3>3. c2s'[stream'] # "off" /\ \A y \in Streams \ {stream'} : c2s'[y] = "off"
      BY <2>1, <2>2, <2>3
    <3> QED BY <2>1, <2>2, <2>5, <3>1, <3>2, <3>3 DEF Untouched
  <2>7. MessageAccount'
    <3>1. got[stream] = 1 .. client.read
      BY <2>2, <2>4
    <3> QED BY <1>0, <2>1, <2>4, <3>1 DEF MessageAccount
  <2>8. CompleteInput'
    BY <1>0, <2>1, <2>2, <2>3 DEF CompleteInput, HasInput
  <2> QED BY <2>6, <2>7, <2>8 DEF ServiceAccount
<1> QED BY <1>1, <1>2, <1>3, OpeningServed, SelectingServed, TransferringServed DEF Handler

\* The reading goroutine adds a message it has read to the first stream only.
LEMMA S2CServed == IInv /\ ServiceAccount /\ S2C => ServiceAccount'
<1> SUFFICES ASSUME IInv, ServiceAccount, S2C PROVE ServiceAccount'
  OBVIOUS
<1>0. TypeOK /\ Untouched /\ MessageAccount /\ CompleteInput
  BY DEF IInv, ServiceAccount
<1>1. /\ client.read \in Nat /\ client.sent \in Nat /\ client.read <= client.sent
      /\ client \in [sent : 0 .. Messages, read : 0 .. Messages, closed : BOOLEAN,
                     gone : BOOLEAN]
  BY <1>0, ClientBounds DEF TypeOK, MessageAccount
<1>2. /\ UNCHANGED <<pc, stream, status, halfClosed, c2s, result>>
      /\ s2c # "off" /\ s2c' # "off"
  BY DEF S2C, S2CReceives, S2CReceivesEnd, S2CSends, handlerVars, streamVars, EndOfSend
<1>3. /\ Forwarded \in Streams /\ c2s[Forwarded] # "off"
      /\ pc \in {"select", "select2"} => Forwarded = stream
  BY <1>0, <1>2, ForwardedFacts
<1>4. \A x \in Streams : IsFirst(x)' <=> IsFirst(x)
  BY <1>2 DEF IsFirst
<1>5. ASSUME \A x \in Streams : c2s[x] = "off" => got'[x] = got[x]
      PROVE  Untouched'
  BY <1>0, <1>2, <1>4, <1>5 DEF Untouched
<1>6. ASSUME \A x \in Streams : got[x] \subseteq got'[x],
             client'.closed = client.closed, client'.sent = client.sent
      PROVE  CompleteInput'
  BY <1>0, <1>2, <1>6 DEF CompleteInput, HasInput
<1>7. CASE S2CReceives
  <2>1. /\ s2c = "recv" /\ s2c' = "send" /\ got' = got
        /\ client.read < client.sent
        /\ client' = [client EXCEPT !.read = @ + 1]
    BY <1>7 DEF S2CReceives, streamVars
  <2>2. /\ client'.read = client.read + 1 /\ client'.sent = client.sent
        /\ client'.closed = client.closed
    BY <1>1, <2>1
  <2>3. MessageAccount'
    <3>1. client'.read <= client'.sent
      BY <1>1, <2>1, <2>2
    <3>2. \A x \in Streams : got'[x] \subseteq 1 .. client'.read
      BY <1>0, <1>1, <2>1, <2>2 DEF MessageAccount
    <3>3. pc' = "select" /\ status'[stream'] = "live" => got'[stream'] = 1 .. client'.read - 1
      BY <1>0, <1>1, <1>2, <2>1, <2>2 DEF MessageAccount
    <3>4. pc' = "select" => ~halfClosed'[stream']
      BY <1>0, <1>2 DEF MessageAccount
    <3> QED BY <2>1, <3>1, <3>2, <3>3, <3>4 DEF MessageAccount
  <2> QED BY <1>5, <1>6, <2>1, <2>2, <2>3 DEF ServiceAccount
<1>8. CASE S2CReceivesEnd
  <2>1. /\ s2c = "recv" /\ UNCHANGED <<got, client>>
        /\ \/ client.read = client.sent /\ client.closed /\ s2c' = "eof"
           \/ s2c' = "err"
    BY <1>8 DEF S2CReceivesEnd, streamVars
  <2>2. MessageAccount'
    BY <1>0, <1>2, <2>1 DEF MessageAccount
  <2> QED BY <1>5, <1>6, <2>1, <2>2 DEF ServiceAccount
<1>9. CASE S2CSends
  <2>1. /\ s2c = "send" /\ UNCHANGED client /\ s2c' \in {"recv", "eof"}
        /\ status[Forwarded] = "live" => s2c' = "recv"
        /\ got' = IF status[Forwarded] = "live"
                  THEN [got EXCEPT ![Forwarded] = @ \union {client.read}] ELSE got
    BY <1>9 DEF S2CSends, EndOfSend
  <2>2. \A x \in Streams :
           got'[x] = IF x = Forwarded /\ status[x] = "live"
                     THEN got[x] \union {client.read} ELSE got[x]
    BY <1>0, <1>3, <2>1 DEF TypeOK
  <2>3. client.read > 0
    BY <2>1 DEF IInv, LoopState
  <2>4. MessageAccount'
    <3>1. \A x \in Streams : got'[x] \subseteq 1 .. client'.read
      <4>1. client.read \in 1 .. client.read
        BY <1>1, <2>3
      <4> QED BY <1>0, <2>1, <2>2, <4>1 DEF MessageAccount
    <3>2. ASSUME pc = "select", status[stream] = "live"
          PROVE  got'[stream] = 1 .. client.read /\ s2c' = "recv"
      <4>1. Forwarded = stream /\ stream \in Streams
        BY <1>3, <3>2
      <4>2. got[stream] = 1 .. client.read - 1
        BY <1>0, <2>1, <3>2 DEF MessageAccount
      <4>3. (1 .. client.read - 1) \union {client.read} = 1 .. client.read
        BY <1>1, <2>3
      <4> QED BY <2>1, <2>2, <3>2, <4>1, <4>2, <4>3
    <3> QED BY <1>0, <1>2, <2>1, <3>1, <3>2 DEF MessageAccount
  <2> QED BY <1>3, <1>5, <1>6, <2>1, <2>2, <2>4 DEF ServiceAccount
<1> QED BY <1>7, <1>8, <1>9 DEF S2C

\* The goroutine of a stream reports the end of the stream as it was; a backend ends
\* well only after the half-close.
LEMMA StreamsServed ==
    ASSUME IInv, ServiceAccount, NEW x \in Streams, C2S(x) \/ Backend(x)
    PROVE  ServiceAccount'
<1>0. TypeOK /\ Untouched /\ MessageAccount /\ CompleteInput
  BY DEF IInv, ServiceAccount
<1>1. UNCHANGED <<pc, stream, got, halfClosed, s2c, client, result>>
  BY DEF C2S, C2SReceives, C2SSends, C2SEnds, Backend, BackendFinishes, BackendBreaks,
     handlerVars, streamVars
<1>2. CASE C2S(x)
  <2>1. /\ UNCHANGED status
        /\ c2s[x] # "off"
        /\ \E next \in {"run", "send", "eof", "err"} :
            /\ c2s' = [c2s EXCEPT ![x] = next]
            /\ next = "eof" => status[x] = "ended"
    BY <1>2 DEF C2S, C2SReceives, C2SSends, C2SEnds, streamVars
  <2>2. /\ c2s'[x] # "off"
        /\ c2s'[x] = "eof" => status[x] = "ended"
        /\ \A y \in Streams : y # x => c2s'[y] = c2s[y]
    BY <1>0, <2>1 DEF TypeOK
  <2>3. \A y \in Streams : c2s'[y] = "off" <=> c2s[y] = "off"
    BY <2>1, <2>2
  <2>4. \A y \in Streams : IsFirst(y)' <=> IsFirst(y)
    BY <2>3 DEF IsFirst
  <2>5. Untouched'
    <3>1. \A y \in Streams : c2s'[y] = "off" =>
             got'[y] = {} /\ ~halfClosed'[y] /\ status'[y] # "ended"
      BY <1>0, <1>1, <2>1, <2>3 DEF Untouched
    <3>2. s2c' # "off" => \E y \in Streams : IsFirst(y)'
      BY <1>0, <1>1, <2>4 DEF Untouched
    <3>3. pc' \in {"forward", "replay"} => c2s'[stream'] = "off"
      <4>1. pc \in {"forward", "replay"} => stream \in Streams
        BY <1>0 DEF IInv, TypeOK, StreamOrder
      <4> QED BY <1>0, <1>1, <2>3, <4>1 DEF Untouched
    <3>4. pc' \in {"select", "select2"} =>
             c2s'[stream'] # "off" /\ \A y \in Streams \ {stream'} : c2s'[y] = "off"
      <4>1. pc \in {"select", "select2"} => stream \in Streams
        BY <1>0 DEF IInv, TypeOK, StreamOrder
      <4> QED BY <1>0, <1>1, <2>3, <4>1 DEF Untouched
    <3>5. \A y \in Streams : y > stream' => c2s'[y] = "off"
      BY <1>0, <1>1, <2>3 DEF Untouched
    <3>6. s2c' = "off" => client'.read = 0 /\ \A y \in Streams : c2s'[y] = "off"
      BY <1>0, <1>1, <2>3 DEF Untouched
    <3> QED BY <3>1, <3>2, <3>3, <3>4, <3>5, <3>6 DEF Untouched
  <2>6. MessageAccount'
    BY <1>0, <1>1, <2>1 DEF MessageAccount
  <2>7. CompleteInput'
    BY <1>0, <1>1, <2>1, <2>2 DEF CompleteInput, HasInput
  <2> QED BY <2>5, <2>6, <2>7 DEF ServiceAccount
<1>3. CASE Backend(x)
  <2>1. /\ UNCHANGED c2s /\ status[x] = "live"
        /\ \E next \in {"ended", "broken"} :
            /\ status' = [status EXCEPT ![x] = next]
            /\ next = "ended" => halfClosed[x]
    BY <1>3 DEF Backend, BackendFinishes, BackendBreaks
  <2>2. /\ status'[x] \in {"ended", "broken"}
        /\ status'[x] = "ended" => halfClosed[x]
        /\ \A y \in Streams : y # x => status'[y] = status[y]
    BY <1>0, <2>1 DEF TypeOK
  <2>3. Untouched'
    <3>1. \A y \in Streams : IsFirst(y)' <=> IsFirst(y)
      BY <2>1 DEF IsFirst
    <3>2. \A y \in Streams : c2s'[y] = "off" =>
             got'[y] = {} /\ ~halfClosed'[y] /\ status'[y] # "ended"
      BY <1>0, <1>1, <2>1, <2>2 DEF Untouched
    <3> QED BY <1>0, <1>1, <2>1, <3>1, <3>2 DEF Untouched
  <2>4. MessageAccount'
    <3>1. pc = "select" /\ status'[stream] = "live" => status[stream] = "live"
      <4>1. pc = "select" => stream \in Streams
        BY <1>0 DEF IInv, TypeOK, StreamOrder
      <4> QED BY <2>2, <4>1
    <3> QED BY <1>0, <1>1, <3>1 DEF MessageAccount
  <2>5. CompleteInput'
    BY <1>0, <1>1, <2>1, <2>2 DEF CompleteInput, HasInput
  <2> QED BY <2>3, <2>4, <2>5 DEF ServiceAccount
<1> QED BY <1>2, <1>3

\* The client sends before it closes, and its going away makes no stream live.
LEMMA ClientServed ==
    IInv /\ ServiceAccount /\ (ClientSends \/ ClientCloses \/ ClientGoes) => ServiceAccount'
<1> SUFFICES ASSUME IInv, ServiceAccount, ClientSends \/ ClientCloses \/ ClientGoes
             PROVE  ServiceAccount'
  OBVIOUS
<1>0. TypeOK /\ Untouched /\ MessageAccount /\ CompleteInput
  BY DEF IInv, ServiceAccount
<1>1. /\ UNCHANGED <<pc, stream, got, halfClosed, s2c, c2s, result>>
      /\ pc # "done"
  BY DEF ClientSends, ClientCloses, ClientGoes, handlerVars, streamVars
<1>2. /\ client.read \in Nat /\ client.sent \in Nat
      /\ client \in [sent : 0 .. Messages, read : 0 .. Messages, closed : BOOLEAN,
                     gone : BOOLEAN]
  BY <1>0, ClientBounds DEF TypeOK
<1>3. /\ client'.read = client.read
      /\ client'.sent \in {client.sent, client.sent + 1}
      /\ client.closed => client'.closed /\ client'.sent = client.sent
  BY <1>2 DEF ClientSends, ClientCloses, ClientGoes
<1>4. \A x \in Streams : /\ status'[x] = "ended" <=> status[x] = "ended"
                         /\ status'[x] = "live" => status[x] = "live"
  BY <1>0 DEF ClientSends, ClientCloses, ClientGoes, streamVars, TypeOK
<1>5. Untouched'
  <2>1. \A x \in Streams : IsFirst(x)' <=> IsFirst(x)
    BY <1>1 DEF IsFirst
  <2>2. \A y \in Streams : c2s'[y] = "off" =>
           got'[y] = {} /\ ~halfClosed'[y] /\ status'[y] # "ended"
    BY <1>0, <1>1, <1>4 DEF Untouched
  <2> QED BY <1>0, <1>1, <1>3, <2>1, <2>2 DEF Untouched
<1>6. MessageAccount'
  <2>1. client'.read <= client'.sent
    BY <1>0, <1>2, <1>3 DEF MessageAccount
  <2>2. pc = "select" => stream \in Streams
    BY <1>0 DEF IInv, TypeOK, StreamOrder
  <2> QED BY <1>0, <1>1, <1>3, <1>4, <2>1, <2>2 DEF MessageAccount
<1>7. CompleteInput'
  <2>1. \A x \in Streams : HasInput(x) => HasInput(x)'
    BY <1>1, <1>3 DEF HasInput
  <2>2. result # "ok"
    BY <1>1 DEF IInv, LoopState
  <2>3. \A x \in Streams :
           halfClosed'[x] /\ status'[x] \in {"live", "ended"} => HasInput(x)'
    BY <1>0, <1>1, <1>4, <2>1 DEF CompleteInput
  <2> QED BY <1>0, <1>1, <1>4, <2>2, <2>3 DEF CompleteInput
<1> QED BY <1>5, <1>6, <1>7 DEF ServiceAccount

\* The account of the messages is kept by every step.
LEMMA ServedStep == IInv /\ ServiceAccount /\ [Next]_vars => ServiceAccount'
<1> SUFFICES ASSUME IInv, ServiceAccount, [Next]_vars PROVE ServiceAccount'
  OBVIOUS
<1>1. CASE Next
  BY <1>1, HandlerServed, S2CServed, StreamsServed, ClientServed DEF Next
<1>2. CASE UNCHANGED vars
  BY <1>2 DEF vars, handlerVars, streamVars, ServiceAccount, Untouched, IsFirst,
     MessageAccount, CompleteInput, HasInput
<1> QED BY <1>1, <1>2

\* The accounts of connections and messages hold from the start and for good.
THEOREM AccountsHold == Spec => []Accounts
<1>1. Init => BudgetAccount
  BY InitBudget
<1>2. Init => ServiceAccount
  <2> SUFFICES ASSUME Init PROVE ServiceAccount
    OBVIOUS
  <2>1. Untouched /\ MessageAccount /\ CompleteInput
    BY DEF Init, Untouched, MessageAccount, CompleteInput
  <2> QED BY <2>1 DEF ServiceAccount
<1>3. BudgetAccount /\ ServiceAccount => Accounts
  BY DEF Accounts
<1> QED BY <1>1, <1>2, <1>3, BudgetStep, ServedStep, Safety, PTL DEF Spec

\* For every RETRY_COUNT: when the client sent one message at most, the status OK it gets
\* is that of a backend that received all it sent.
THEOREM OkMeansServedHolds == Spec => []OkMeansServed
<1>1. IInv /\ Accounts => OkMeansServed
  <2> SUFFICES ASSUME IInv, ServiceAccount, result = "ok", client.sent <= 1
               PROVE  got[stream] = 1 .. client.sent
    BY DEF OkMeansServed, Accounts
  <2>1. /\ client.read \in Nat /\ client.sent \in Nat /\ client.read <= client.sent
    BY ClientBounds DEF IInv, TypeOK, ServiceAccount, MessageAccount
  <2>2. stream \in Streams /\ HasInput(stream)
    BY DEF ServiceAccount, CompleteInput
  <2>3. got[stream] \subseteq 1 .. client.read
    BY <2>2 DEF ServiceAccount, MessageAccount
  <2>4. CASE client.sent = 0
    BY <2>1, <2>3, <2>4
  <2>5. CASE client.sent = 1
    BY <2>1, <2>2, <2>3, <2>5 DEF HasInput
  <2> QED BY <2>1, <2>4, <2>5
<1> QED BY <1>1, AccountsHold, Safety, PTL

-----------------------------------------------------------------------------
(* The handler implements RpcLifecycle *)

\* The handler is on a stream in five of its places.
LEMMA PhaseOfStream ==
    /\ TypeOK => (OnStream <=> Phase = "stream")
    /\ TypeOK' => (OnStream' <=> Phase' = "stream")
BY DEF TypeOK, OnStream, Phase

\* A stream the handler gives up is a connection that fails there.
LEMMA AbandonIsFail ==
    ASSUME IInv, OnStream, NEW mayTransfer \in BOOLEAN, AbandonStream(mayTransfer),
           mayTransfer => retryable, UNCHANGED <<retryable, leased>>
    PROVE  Lifecycle!Fail
<1>1. Phase = "stream" /\ stream = leased
  BY PhaseOfStream DEF IInv, StreamOrder
<1>2. reported' = [reported EXCEPT ![leased] = @ + 1]
  BY <1>1 DEF AbandonStream, Report
<1>3. result = "none"
  BY DEF IInv, LoopState, OnStream
<1>4. CASE mayTransfer
  <2>1. pc' = "open" /\ result' = result
    BY <1>4 DEF AbandonStream
  <2>2. Phase' = "seek" /\ Answer' = Answer
    BY <2>1 DEF Phase, Answer
  <2> QED BY <1>1, <1>2, <1>4, <2>2 DEF Lifecycle!Fail
<1>5. CASE ~mayTransfer
  <2>1. pc' = "done" /\ result' = "failed"
    BY <1>5 DEF AbandonStream, Return
  <2>2. Phase' = "over" /\ Answer' = "error"
    BY <2>1 DEF Phase, Answer
  <2> QED BY <1>1, <1>2, <2>2 DEF Lifecycle!Fail
<1> QED BY <1>4, <1>5

\* openBackendStream takes a connection only within the budget, and reports it at once
\* when no stream is opened on it.
LEMMA OpeningImplements ==
    IInv /\ BudgetAccount' /\ Opening => Lifecycle!Next
<1> SUFFICES ASSUME IInv, BudgetAccount', Opening PROVE Lifecycle!Next
  OBVIOUS
<1>1. CASE GetConnection
  <2>1. /\ Phase = "seek" /\ Phase' = "dial" /\ Answer' = Answer
        /\ leased' = leased + 1 /\ UNCHANGED <<retryable, reported>>
    BY <1>1 DEF GetConnection, Phase, Answer
  <2>2. leased < Lifecycle!Budget
    <3>1. leased' <= Lifecycle!Budget
      BY <2>1 DEF BudgetAccount, LeaseBound, Lifecycle!Budget
    <3>2. leased \in Nat /\ RetryCount \in Nat
      BY StreamsFacts, RetryCountPositive DEF IInv, TypeOK
    <3> QED BY <2>1, <3>1, <3>2 DEF Lifecycle!Budget
  <2> QED BY <2>1, <2>2 DEF Lifecycle!Next, Lifecycle!Take
<1>2. CASE GetConnectionFails
  <2>1. /\ Phase = "seek" /\ Phase' = "over" /\ Answer' = "error"
        /\ UNCHANGED <<retryable, leased, reported>>
    BY <1>2 DEF GetConnectionFails, Return, Phase, Answer
  <2> QED BY <2>1 DEF Lifecycle!Next, Lifecycle!Refuse
<1>3. CASE NewStream
  <2>1. /\ Phase = "dial" /\ Phase' = "stream" /\ Answer' = Answer
        /\ UNCHANGED <<retryable, leased, reported>>
    BY <1>3 DEF NewStream, Phase, Answer
  <2> QED BY <2>1 DEF Lifecycle!Next, Lifecycle!Open
<1>4. CASE NewStreamFails
  <2>1. /\ Phase = "dial" /\ UNCHANGED <<retryable, leased>>
        /\ reported' = [reported EXCEPT ![leased] = @ + 1]
    BY <1>4 DEF NewStreamFails, Report, Phase
  <2>2. \/ retryable /\ Phase' = "seek" /\ Answer' = Answer
        \/ Phase' = "over" /\ Answer' = "error"
    BY <1>4 DEF NewStreamFails, RetriesLeft, Return, Phase, Answer
  <2> QED BY <2>1, <2>2 DEF Lifecycle!Next, Lifecycle!Fail
<1> QED BY <1>1, <1>2, <1>3, <1>4 DEF Opening

\* The handler keeps its stream, leaves it with the answer OK, or gives it up.
LEMMA StreamImplements ==
    IInv /\ (StartForwarding \/ Selecting \/ Transferring) =>
        Lifecycle!Next \/ UNCHANGED Lifecycle!vars
<1> SUFFICES ASSUME IInv, StartForwarding \/ Selecting \/ Transferring
             PROVE  Lifecycle!Next \/ UNCHANGED Lifecycle!vars
  OBVIOUS
<1>0. OnStream /\ Phase = "stream" /\ UNCHANGED <<retryable, leased>>
  <2>1. OnStream /\ UNCHANGED <<retryable, leased>>
    BY DEF StartForwarding, Selecting, SelectClientEOF, SelectClientError,
       SelectBackendEOF, SelectBackendError, Transferring, Replay, ReplayFails, AwaitEOF,
       AwaitError, OnStream
  <2> QED BY <2>1, PhaseOfStream DEF IInv
<1>1. ASSUME OnStream', result' = result, reported' = reported
      PROVE  UNCHANGED Lifecycle!vars
  <2>1. Phase' = "stream" /\ Answer' = Answer
    BY <1>1 DEF OnStream, Phase, Answer
  <2> QED BY <1>0, <1>1, <2>1 DEF Lifecycle!vars
<1>2. ASSUME pc' = "done", result' = "ok", reported' = reported
      PROVE  Lifecycle!Next
  <2>1. Phase' = "over" /\ Answer' = "ok"
    BY <1>2 DEF Phase, Answer
  <2> QED BY <1>0, <1>2, <2>1 DEF Lifecycle!Next, Lifecycle!Succeed
<1>3. ASSUME NEW mayTransfer \in BOOLEAN, AbandonStream(mayTransfer), mayTransfer => retryable
      PROVE  Lifecycle!Next
  BY <1>0, <1>3, AbandonIsFail DEF Lifecycle!Next
<1>4. CASE StartForwarding \/ Replay
  BY <1>1, <1>4 DEF StartForwarding, Replay, OnStream
<1>5. CASE SelectClientEOF
  <2>1. pc = "select"
    BY <1>5 DEF SelectClientEOF, IInv, LoopState
  <2> QED BY <1>1, <1>5, <2>1 DEF SelectClientEOF, OnStream
<1>6. CASE SelectBackendEOF \/ AwaitEOF
  BY <1>2, <1>6 DEF SelectBackendEOF, AwaitEOF, Return
<1>7. CASE SelectClientError \/ SelectBackendError
  <2>1. AbandonStream(MayTransfer)
    BY <1>7 DEF SelectClientError, SelectBackendError
  <2>2. MayTransfer \in BOOLEAN /\ (MayTransfer => retryable)
    <3>1. firstClientMsg' \in BOOLEAN
      BY <1>7 DEF SelectClientError, SelectBackendError, TakeFirstMessage
    <3> QED BY <3>1 DEF MayTransfer, TransfersLeft
  <2> QED BY <1>3, <2>1, <2>2
<1>8. CASE ReplayFails
  <2>1. firstClientMsg
    BY <1>8 DEF ReplayFails, IInv, TypeOK, LoopState, StreamOrder
  <2>2. AbandonStream(FALSE)
    BY <1>8, <2>1 DEF ReplayFails
  <2> QED BY <1>3, <2>2
<1>9. CASE AwaitError
  <2>1. AbandonStream(TransfersLeft)
    BY <1>9 DEF AwaitError
  <2>2. TransfersLeft \in BOOLEAN /\ (TransfersLeft => retryable)
    BY DEF TransfersLeft, IInv, TypeOK
  <2> QED BY <1>3, <2>1, <2>2
<1> QED BY <1>4, <1>5, <1>6, <1>7, <1>8, <1>9 DEF Selecting, Transferring

\* Nobody else is seen by the resolver.
LEMMA OthersImplement ==
    ASSUME UNCHANGED vars \/ S2C \/ (\E x \in Streams : C2S(x) \/ Backend(x))
             \/ ClientSends \/ ClientCloses \/ ClientGoes
    PROVE  UNCHANGED Lifecycle!vars
<1>1. UNCHANGED <<retryable, pc, leased, reported, result>>
  BY DEF vars, S2C, S2CReceives, S2CReceivesEnd, S2CSends, C2S, C2SReceives, C2SSends,
     C2SEnds, Backend, BackendFinishes, BackendBreaks, ClientSends, ClientCloses,
     ClientGoes, handlerVars
<1> QED BY <1>1 DEF Lifecycle!vars, Phase, Answer

\* Each step of the RPC is a step of RpcLifecycle or leaves it alone, for every
\* RETRY_COUNT: one connection at a time, within the budget, each reported once unless
\* the RPC ended well on it.
THEOREM ImplementsLifecycleHolds == Spec => ImplementsLifecycle
<1>1. Init => Lifecycle!Init
  BY DEF Init, Lifecycle!Init, Phase, Answer
<1>2. IInv /\ BudgetAccount /\ BudgetAccount' /\ [Next]_vars => [Lifecycle!Next]_(Lifecycle!vars)
  <2> SUFFICES ASSUME IInv, BudgetAccount', [Next]_vars
               PROVE  Lifecycle!Next \/ UNCHANGED Lifecycle!vars
    OBVIOUS
  <2>1. CASE Reject
    <3>1. /\ Phase = "new" /\ Phase' = "over" /\ Answer' = "error"
          /\ UNCHANGED <<retryable, leased, reported>>
      BY <2>1 DEF Reject, Return, Phase, Answer
    <3> QED BY <3>1 DEF Lifecycle!Next, Lifecycle!Refuse
  <2>2. CASE Accept
    <3>1. /\ Phase = "new" /\ Phase' = "seek" /\ Answer' = Answer
          /\ UNCHANGED <<retryable, leased, reported>>
      BY <2>2 DEF Accept, Phase, Answer
    <3> QED BY <3>1 DEF Lifecycle!Next, Lifecycle!Admit
  <2> QED
    BY <2>1, <2>2, OpeningImplements, StreamImplements, OthersImplement DEF Next, Handler
<1>3. Accounts => BudgetAccount
  BY DEF Accounts
<1> QED
  BY <1>1, <1>2, <1>3, Safety, AccountsHold, PTL DEF Spec, ImplementsLifecycle, Lifecycle!Spec

=============================================================================
