------------------------------- MODULE Outstation -------------------------------
(***************************************************************************)
(* An outstation between its database, its transport layer and a master    *)
(* that may send any request at any time, repeat it, and confirm whatever  *)
(* it likes.  The strand runs one handler at a time; a confirm timer       *)
(* handler may outlive a Cancel.                                           *)
(***************************************************************************)
EXTENDS OutstationContext

CONSTANTS Requests,      \* the requests the master may send, confirms excluded
          InitialClass,  \* the class of the points of each type
          MaxRoom,       \* bound: objects in a fragment
          MaxUpdates,    \* bound: events recorded in a behaviour
          MaxRequests,   \* bound: requests received in a behaviour
          MaxDowns,      \* bound: times the layer goes down
          MaxStale       \* bound: timer handlers that outlive a Cancel

ASSUME RequestsAssumption == Requests \subseteq Request
ASSUME ClassAssumption == InitialClass \in [EventType -> EventClass \cup {"Class0"}]

VARIABLES ctx,       \* the OContext
          received,  \* requests received so far
          downs      \* times the layer went down

vars == <<ctx, received, downs>>

Choices == [room : 1 .. MaxRoom, accept : BOOLEAN]

NoObjects == [ok |-> TRUE, classes |-> {}, count |-> 0, cells |-> {}, item |-> "none"]
Confirms == [function : {"CONFIRM"}, UNS : BOOLEAN, SEQ : AppSeqNum, objects : {NoObjects}]

Init ==
    /\ ctx = InitContext(InitialClass)
    /\ received = 0
    /\ downs = 0

LowerLayerUp ==
    /\ ~ctx.isOnline
    /\ \E k \in Choices : ctx' = OnLowerLayerUp(ctx, k)
    /\ UNCHANGED <<received, downs>>

LowerLayerDown ==
    /\ ctx.isOnline
    /\ downs < MaxDowns
    /\ ctx' = OnLowerLayerDown(ctx)
    /\ downs' = downs + 1
    /\ UNCHANGED received

TxReady ==
    /\ ctx.isOnline
    /\ ctx.owed > 0
    /\ \E k \in Choices : ctx' = OnTxReady(ctx, k)
    /\ UNCHANGED <<received, downs>>

ReceiveRequest ==
    /\ ctx.isOnline
    /\ received < MaxRequests
    /\ \E r \in Requests, k \in Choices : ctx' = OnReceive(ctx, r, k)
    /\ received' = received + 1
    /\ UNCHANGED downs

ReceiveConfirm(r) ==
    /\ ctx.isOnline
    /\ \E k \in Choices : ctx' = OnReceive(ctx, r, k)
    /\ UNCHANGED <<received, downs>>

ReceiveRejected ==
    /\ ctx.isOnline
    /\ \E k \in Choices : ctx' = OnReceiveRejected(ctx, k)
    /\ UNCHANGED <<received, downs>>

DatabaseUpdate ==
    /\ ctx.storage.next < MaxUpdates
    /\ \E t \in EventType, k \in Choices : ctx' = Apply(ctx, t, k)
    /\ UNCHANGED <<received, downs>>

\* OutstationStack::SetRestartIIN
ApplicationRestart ==
    /\ ~ctx.restart
    /\ ctx' = [ctx EXCEPT !.restart = TRUE]
    /\ UNCHANGED <<received, downs>>

ConfirmTimerExpires ==
    /\ CanExpire(ctx.confirmTimer, MaxStale)
    /\ ctx' = [ctx EXCEPT !.confirmTimer = TimerExpire(@)]
    /\ UNCHANGED <<received, downs>>

ConfirmTimerCallback ==
    /\ IsActive(ctx.confirmTimer)
    /\ \E k \in Choices :
         ctx' = OnTimeout([ctx EXCEPT !.confirmTimer = CurrentCallback(@)], k)
    /\ UNCHANGED <<received, downs>>

StaleConfirmTimerCallback ==
    /\ ctx.confirmTimer.stale > 0
    /\ \E k \in Choices :
         ctx' = OnTimeout([ctx EXCEPT !.confirmTimer = StaleCallback(@)], k)
    /\ UNCHANGED <<received, downs>>

Next ==
    \/ LowerLayerUp
    \/ LowerLayerDown
    \/ TxReady
    \/ ReceiveRequest
    \/ \E r \in Confirms : ReceiveConfirm(r)
    \/ ReceiveRejected
    \/ DatabaseUpdate
    \/ ApplicationRestart
    \/ ConfirmTimerExpires
    \/ ConfirmTimerCallback
    \/ StaleConfirmTimerCallback

Spec == Init /\ [][Next]_vars

-------------------------------------------------------------------------------

\* The context keeps its type: sequence numbers wrap at SeqMod, at most one
\* request is deferred or remembered (OContext).
TypeOK ==
    /\ OContextType(ctx)
    /\ received \in Nat
    /\ downs \in Nat

\* An outstation that awaits a confirm is online and has a timer to give up:
\* OnConfirmTimeout is the only way out when the master stays silent, a handler
\* of an earlier timer may have made the TimerRef forget the present one, and
\* StateSolicitedConfirmWait::OnRepeatNonReadRequest cancels without leaving.
WaitHasTimer ==
    ctx.state # "Idle" => ctx.isOnline /\ IsActive(ctx.confirmTimer)

\* The layer below is never given a second fragment while it transmits one,
\* whichever of a request, a confirm, a deferred request, a timeout or an
\* update makes the outstation transmit: BeginTransmit would reject it and no
\* OnTxReady would follow.
OneTransmission ==
    ctx.owed = IF ctx.isTransmitting THEN 1 ELSE 0

\* A confirm that is accepted clears exactly events that the confirmed fragment
\* carried: what is marked written while a confirm is awaited is in the fragment
\* awaited, and nothing is cleared by the confirm of the null unsolicited
\* response, which carries no event.
WrittenWasSent ==
    \/ ctx.state = "Idle"
    \/ ctx.state = "UnsolicitedConfirmWait" /\ ~ctx.completedNull /\ ctx.awaited = {}
    \/ InState(ctx.storage, "written") \subseteq ctx.awaited

\* A repeated request that carries commands is answered again and not executed
\* again, until a confirm or another request comes between: also when the first
\* or the second was deferred.
ExecutedOnce == Len(ctx.operated) <= 1

\* No wakeup is lost: an outstation that could transmit and does nothing has no
\* deferred request and, once the null unsolicited response is confirmed, no
\* event of a class it reports that has not been transmitted at least once.
\* Whatever happened before, no event is left selected or hidden by a counter.
NothingLeftWaiting ==
    CanTransmit(ctx) /\ ctx.state = "Idle" =>
       /\ ctx.deferred = <<>>
       /\ allowUnsolicited =>
             /\ ctx.completedNull
             /\ \A i \in Events(ctx.storage) :
                   ctx.storage.rec[i].clazz \in ctx.unsolClassMask =>
                      ctx.storage.rec[i].state = "written"

\* DatabaseBuffers::Unselect: "always un-select any previously selected points
\* when we start a new read request".
OnlyAskedIsSelected == ctx.selected \subseteq ctx.asked

===============================================================================
