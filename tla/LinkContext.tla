------------------------------ MODULE LinkContext ------------------------------
(***************************************************************************)
(* The DNP3 data link layer of opendnp3: LinkContext, the primary station  *)
(* states (PriLinkLayerStates) and the secondary station states            *)
(* (SecLinkLayerStates).                                                   *)
(*                                                                         *)
(* A context is one record, and every member function of the code that     *)
(* takes the context by reference is an operator from a context to the     *)
(* context it leaves behind.  The record also holds what the layer has     *)
(* handed to its neighbours and they have not consumed yet:                *)
(*                                                                         *)
(*   tx         frames given to linktx->BeginTransmit whose completion has *)
(*              not been reported (the IOHandler's queue for this session) *)
(*   posted     upper->OnTxReady handlers queued on the executor           *)
(*   up         segments pushed to upper->OnReceive by the current handler *)
(*   linkStatus the value last given to listener->OnStateChange            *)
(*   clobbered  a frame was formatted into a transmit buffer whose bytes   *)
(*              the channel or a pending slot still refers to              *)
(***************************************************************************)
EXTENDS Naturals, Sequences, TimerRef

CONSTANTS Address,   \* link addresses (uint16_t)
          Segment,   \* transport segments, told apart by identity
          NoData     \* stands for the absence of user data

ASSUME SegmentAssumption == NoData \notin Segment

SecFunction == {"SEC_ACK", "SEC_NACK", "SEC_LINK_STATUS", "SEC_NOT_SUPPORTED"}
PriFunction == {"PRI_RESET_LINK_STATES", "PRI_TEST_LINK_STATES",
                "PRI_CONFIRMED_USER_DATA", "PRI_UNCONFIRMED_USER_DATA",
                "PRI_REQUEST_LINK_STATUS"}

\* LinkHeaderFields with the user data the frame carries.
LinkHeader == [func : SecFunction \cup PriFunction, isFromMaster : BOOLEAN,
               fcb : BOOLEAN, fcvdfc : BOOLEAN, dest : Address, src : Address,
               data : Segment \cup {NoData}]

\* The frames that pass LinkLayerParser: FCV set exactly for the functions that
\* use the FCB, FCB clear on answers, and user data exactly where it belongs.
WellFormed(f) ==
    /\ f.func \in PriFunction =>
         (f.fcvdfc <=> f.func \in {"PRI_CONFIRMED_USER_DATA", "PRI_TEST_LINK_STATES"})
    /\ f.func \in SecFunction => ~f.fcb
    /\ (f.data # NoData) <=>
         f.func \in {"PRI_CONFIRMED_USER_DATA", "PRI_UNCONFIRMED_USER_DATA"}

Frame == {f \in LinkHeader : WellFormed(f)}

LinkLayerConfig ==
    [IsMaster : BOOLEAN, UseConfirms : BOOLEAN, NumRetry : Nat,
     LocalAddr : Address, RemoteAddr : Address, respondToAnySource : BOOLEAN]

\* ITransportSegment: where the segments go and the ones still to be sent.
\* The null pointer is the one with nothing to send: TransportTx always has a
\* current segment while the link layer holds a pointer to it.
Segments == [destination : Address, segs : Seq(Segment) \ {<<>>}]
NoSegments == [destination |-> "none", segs |-> <<>>]
HasSegments(c) == c.pSegments # NoSegments

PriTransmitWait == {"SendUnconfirmedTransmitWait", "LinkResetTransmitWait",
                    "ConfUserDataTransmitWait", "RequestLinkStatusTransmitWait"}
PriResponseWait == {"ResetLinkWait", "ConfDataWait", "RequestLinkStatusWait"}
PriState == {"Idle"} \cup PriTransmitWait \cup PriResponseWait
SecTransmitWait == {"TransmitWaitReset", "TransmitWaitNotReset"}
SecState == {"NotReset", "Reset"} \cup SecTransmitWait

Station == {"Primary", "Secondary"}

LinkContextType ==
    [config : LinkLayerConfig,
     pSegments : Segments \cup {NoSegments},
     txMode : {"Idle", "Primary", "Secondary"},
     numRetryRemaining : Nat,
     rspTimeoutTimer : TimerRefType,
     keepAliveTimer : TimerRefType,
     nextReadFCB : BOOLEAN,
     nextWriteFCB : BOOLEAN,
     isOnline : BOOLEAN,
     isRemoteReset : BOOLEAN,
     keepAliveTimeout : BOOLEAN,
     pPriState : PriState,
     pSecState : SecState,
     pendingPriTx : Seq(Frame),      \* at most one: the slice of the buffer
     pendingSecTx : Seq(Frame),
     tx : Seq([station : Station, frame : Frame]),
     posted : Nat,
     up : Seq(Segment),
     linkStatus : {"UNRESET", "RESET"},
     clobbered : BOOLEAN]

\* LinkContext::LinkContext
InitContext(config) ==
    [config |-> config, pSegments |-> NoSegments, txMode |-> "Idle",
     numRetryRemaining |-> 0, rspTimeoutTimer |-> TimerOff,
     keepAliveTimer |-> TimerOff, nextReadFCB |-> FALSE, nextWriteFCB |-> FALSE,
     isOnline |-> FALSE, isRemoteReset |-> FALSE, keepAliveTimeout |-> FALSE,
     pPriState |-> "Idle", pSecState |-> "NotReset",
     pendingPriTx |-> <<>>, pendingSecTx |-> <<>>, tx |-> <<>>, posted |-> 0,
     up |-> <<>>, linkStatus |-> "UNRESET", clobbered |-> FALSE]

-------------------------------------------------------------------------------
(* Queueing frames: IOHandler::BeginTransmit, LinkContext::QueueTransmit,   *)
(* TryPendingTx, and the formatting functions of LinkFrame.                 *)

\* The router drops what it is given while it has no channel.
BeginTransmit(c, frame, station) ==
    IF c.isOnline
    THEN [c EXCEPT !.tx = Append(@, [station |-> station, frame |-> frame])]
    ELSE c

Pending(c, station) == IF station = "Primary" THEN c.pendingPriTx ELSE c.pendingSecTx

\* The station's buffer is referred to by the channel or by its pending slot.
BufferInUse(c, station) ==
    \/ \E i \in DOMAIN c.tx : c.tx[i].station = station
    \/ Pending(c, station) # <<>>

\* Formats frame into the station's buffer and transmits it, now or later.
QueueTransmit(c, frame, station) ==
    LET d == [c EXCEPT !.clobbered = @ \/ BufferInUse(c, station)]
    IN  IF c.txMode = "Idle"
        THEN BeginTransmit([d EXCEPT !.txMode = station], frame, station)
        ELSE IF station = "Primary" THEN [d EXCEPT !.pendingPriTx = <<frame>>]
                                    ELSE [d EXCEPT !.pendingSecTx = <<frame>>]

TryPendingTx(c, station) ==
    IF c.txMode = "Idle" /\ Pending(c, station) # <<>>
    THEN LET d == BeginTransmit([c EXCEPT !.txMode = station], Head(Pending(c, station)), station)
         IN  IF station = "Primary" THEN [d EXCEPT !.pendingPriTx = <<>>]
                                    ELSE [d EXCEPT !.pendingSecTx = <<>>]
    ELSE c

FormatHeader(c, func, fcb, fcvdfc, dest, data) ==
    [func |-> func, isFromMaster |-> c.config.IsMaster, fcb |-> fcb,
     fcvdfc |-> fcvdfc, dest |-> dest, src |-> c.config.LocalAddr, data |-> data]

QueueAck(c, dest) ==
    QueueTransmit(c, FormatHeader(c, "SEC_ACK", FALSE, FALSE, dest, NoData), "Secondary")
QueueLinkStatus(c, dest) ==
    QueueTransmit(c, FormatHeader(c, "SEC_LINK_STATUS", FALSE, FALSE, dest, NoData), "Secondary")
QueueResetLinks(c, dest) ==
    QueueTransmit(c, FormatHeader(c, "PRI_RESET_LINK_STATES", FALSE, FALSE, dest, NoData), "Primary")
QueueRequestLinkStatus(c, dest) ==
    QueueTransmit(c, FormatHeader(c, "PRI_REQUEST_LINK_STATUS", FALSE, FALSE, dest, NoData), "Primary")

\* FormatPrimaryBufferWithConfirmed / WithUnconfirmed and QueueTransmit, for
\* the current segment.
QueueConfirmed(c) ==
    QueueTransmit(c, FormatHeader(c, "PRI_CONFIRMED_USER_DATA", c.nextWriteFCB, TRUE,
                                  c.pSegments.destination, Head(c.pSegments.segs)), "Primary")
QueueUnconfirmed(c) ==
    QueueTransmit(c, FormatHeader(c, "PRI_UNCONFIRMED_USER_DATA", FALSE, FALSE,
                                  c.pSegments.destination, Head(c.pSegments.segs)), "Primary")

-------------------------------------------------------------------------------
(* Primary station: PriLinkLayerStates.                                     *)

ResetRetry(c) == [c EXCEPT !.numRetryRemaining = c.config.NumRetry]
CancelTimer(c) == [c EXCEPT !.rspTimeoutTimer = TimerCancel(@)]
StartResponseTimer(c) == [c EXCEPT !.rspTimeoutTimer = TimerStart(@)]
EnterPri(c, state) == [c EXCEPT !.pPriState = state]
OnStateChange(c, status) == [c EXCEPT !.linkStatus = status]

\* Mutant of CompleteSendOperation: the segments are not let go.
CompleteSendOperationKeepsSegments(c) == [c EXCEPT !.posted = @ + 1]

\* The completion is posted: the upper layer hears of it in a later handler.
CompleteSendOperation(c) ==
    [c EXCEPT !.pSegments = NoSegments, !.posted = @ + 1]

\* ITransportSegment::Advance, and whether there is another segment.
Advance(c) == [c EXCEPT !.pSegments.segs = Tail(@)]
MoreSegments(c) == Len(c.pSegments.segs) > 1

\* PLLS_ResetLinkWait::Failure, PLLS_ConfDataWait::Failure
Failure(c) == EnterPri(CompleteSendOperation(CancelTimer(c)), "Idle")

TrySendUnconfirmed(c) ==
    IF c.pPriState = "Idle"
    THEN EnterPri(QueueUnconfirmed(c), "SendUnconfirmedTransmitWait")
    ELSE c

TrySendConfirmed(c) ==
    IF c.pPriState # "Idle" THEN c
    ELSE IF c.isRemoteReset
         THEN EnterPri(QueueConfirmed(ResetRetry(c)), "ConfUserDataTransmitWait")
         ELSE EnterPri(QueueResetLinks(ResetRetry(c), c.pSegments.destination),
                       "LinkResetTransmitWait")

TrySendRequestLinkStatus(c) ==
    IF c.pPriState = "Idle"
    THEN EnterPri(QueueRequestLinkStatus([c EXCEPT !.keepAliveTimeout = FALSE],
                                         c.config.RemoteAddr),
                  "RequestLinkStatusTransmitWait")
    ELSE c

TryStartTransmission(c) ==
    LET d == IF c.keepAliveTimeout THEN TrySendRequestLinkStatus(c) ELSE c
    IN  IF ~HasSegments(d) THEN d
        ELSE IF d.config.UseConfirms THEN TrySendConfirmed(d)
                                     ELSE TrySendUnconfirmed(d)

PriOnTxReady(c) ==
    CASE c.pPriState = "SendUnconfirmedTransmitWait" ->
           IF MoreSegments(c) THEN QueueUnconfirmed(Advance(c))
                              ELSE EnterPri(CompleteSendOperation(c), "Idle")
      [] c.pPriState = "LinkResetTransmitWait" ->
           EnterPri(StartResponseTimer(c), "ResetLinkWait")
      [] c.pPriState = "ConfUserDataTransmitWait" ->
           EnterPri(StartResponseTimer(c), "ConfDataWait")
      [] c.pPriState = "RequestLinkStatusTransmitWait" ->
           EnterPri(StartResponseTimer(c), "RequestLinkStatusWait")
      [] OTHER -> c

\* Mutant of ResetLinkWaitOnAck: the write FCB is not reset.
ResetLinkWaitOnAckKeepsFCB(c) ==
    LET d == CancelTimer([c EXCEPT !.isRemoteReset = TRUE])
    IN  EnterPri(OnStateChange(QueueConfirmed(d), "RESET"), "ConfUserDataTransmitWait")

ResetLinkWaitOnAck(c) ==
    LET d == CancelTimer([c EXCEPT !.isRemoteReset = TRUE, !.nextWriteFCB = TRUE])
    IN  EnterPri(OnStateChange(QueueConfirmed(d), "RESET"), "ConfUserDataTransmitWait")

\* Mutant of ConfDataWaitOnAck: the response timer is not cancelled.
ConfDataWaitOnAckKeepsTimer(c) ==
    LET d == [c EXCEPT !.nextWriteFCB = ~@]
    IN  IF MoreSegments(d)
        THEN EnterPri(QueueConfirmed(Advance(d)), "ConfUserDataTransmitWait")
        ELSE EnterPri(CompleteSendOperation(d), "Idle")

ConfDataWaitOnAck(c) ==
    LET d == CancelTimer([c EXCEPT !.nextWriteFCB = ~@])
    IN  IF MoreSegments(d)
        THEN EnterPri(QueueConfirmed(Advance(d)), "ConfUserDataTransmitWait")
        ELSE EnterPri(CompleteSendOperation(d), "Idle")

PriOnAck(c) ==
    CASE c.pPriState = "ResetLinkWait" -> ResetLinkWaitOnAck(c)
      [] c.pPriState = "ConfDataWait"  -> ConfDataWaitOnAck(c)
      [] OTHER -> c

ConfDataWaitOnNack(c, rxBuffFull) ==
    LET d == OnStateChange(c, "UNRESET")
    IN  IF rxBuffFull THEN Failure(d)
        ELSE EnterPri(QueueResetLinks(CancelTimer(ResetRetry(d)), d.pSegments.destination),
                      "LinkResetTransmitWait")

\* FailKeepAlive and CompleteKeepAlive only tell the listener.
RequestLinkStatusWaitDone(c) == EnterPri(CancelTimer(c), "Idle")

PriOnNack(c, rxBuffFull) ==
    CASE c.pPriState = "ResetLinkWait" -> Failure(c)
      [] c.pPriState = "ConfDataWait"  -> ConfDataWaitOnNack(c, rxBuffFull)
      [] c.pPriState = "RequestLinkStatusWait" -> RequestLinkStatusWaitDone(c)
      [] OTHER -> c

\* OnLinkStatus and OnNotSupported
PriOnStatus(c) ==
    CASE c.pPriState \in {"ResetLinkWait", "ConfDataWait"} -> Failure(c)
      [] c.pPriState = "RequestLinkStatusWait" -> RequestLinkStatusWaitDone(c)
      [] OTHER -> c

\* Mutant of Retry: the retry is not counted.
RetryUncounted(c) == c

Retry(c) == [c EXCEPT !.numRetryRemaining = @ - 1]

\* Mutant of PriOnTimeout: retries without looking at the number that remain.
PriOnTimeoutAlwaysRetries(c) ==
    IF c.pPriState = "ResetLinkWait"
    THEN EnterPri(QueueResetLinks(Retry(c), c.config.RemoteAddr), "LinkResetTransmitWait")
    ELSE c

PriOnTimeout(c) ==
    CASE c.pPriState = "ResetLinkWait" ->
           IF c.numRetryRemaining > 0
           THEN EnterPri(QueueResetLinks(Retry(c), c.config.RemoteAddr), "LinkResetTransmitWait")
           ELSE EnterPri(CompleteSendOperation(c), "Idle")
      [] c.pPriState = "ConfDataWait" ->
           IF c.numRetryRemaining > 0
           THEN EnterPri(QueueConfirmed(Retry(c)), "ConfUserDataTransmitWait")
           ELSE EnterPri(CompleteSendOperation(OnStateChange(c, "UNRESET")), "Idle")
      [] c.pPriState = "RequestLinkStatusWait" -> EnterPri(c, "Idle")
      [] OTHER -> c

-------------------------------------------------------------------------------
(* LinkLayer::Send.  The upper layer calls it from its own handlers and      *)
(* also from within OnReceive and OnLowerLayerUp, on the same stack.        *)

Send(c, segments) ==
    IF ~c.isOnline \/ HasSegments(c) THEN c
    ELSE TryStartTransmission([c EXCEPT !.pSegments = segments])

\* What the upper layer sends back from within a callback; NoSegments if it
\* sends nothing.
Reply(c, segments) == IF segments = NoSegments THEN c ELSE Send(c, segments)

PushDataUp(c, data, reply) == Reply([c EXCEPT !.up = Append(@, data)], reply)

-------------------------------------------------------------------------------
(* Secondary station: SecLinkLayerStates.                                   *)

EnterSec(c, state) == [c EXCEPT !.pSecState = state]

SecOnTxReady(c) ==
    CASE c.pSecState = "TransmitWaitReset"    -> EnterSec(c, "Reset")
      [] c.pSecState = "TransmitWaitNotReset" -> EnterSec(c, "NotReset")
      [] OTHER -> c

\* Mutant of OnResetLinkStates: answers while an answer is being transmitted.
OnResetLinkStatesFlooded(c, src) ==
    EnterSec([QueueAck(c, src) EXCEPT !.nextReadFCB = TRUE], "TransmitWaitReset")

\* SLLS_NotReset and SLLS_Reset treat RESET_LINK_STATES alike; while its last
\* answer is being transmitted the station ignores every request.
OnResetLinkStates(c, src) ==
    IF c.pSecState \in SecTransmitWait THEN c
    ELSE EnterSec([QueueAck(c, src) EXCEPT !.nextReadFCB = TRUE], "TransmitWaitReset")

OnRequestLinkStatus(c, src) ==
    CASE c.pSecState = "NotReset" -> EnterSec(QueueLinkStatus(c, src), "TransmitWaitNotReset")
      [] c.pSecState = "Reset"    -> EnterSec(QueueLinkStatus(c, src), "TransmitWaitReset")
      [] OTHER -> c

OnTestLinkStatus(c, src, fcb) ==
    IF c.pSecState = "Reset" /\ c.nextReadFCB = fcb
    THEN EnterSec([QueueAck(c, src) EXCEPT !.nextReadFCB = ~@], "TransmitWaitReset")
    ELSE c

\* Mutant of OnConfirmedUserData: the FCB is not compared.
OnConfirmedUserDataAnyFCB(c, src, fcb, data, reply) ==
    IF c.pSecState # "Reset" THEN c
    ELSE EnterSec(PushDataUp([QueueAck(c, src) EXCEPT !.nextReadFCB = ~@], data, reply),
                  "TransmitWaitReset")

\* A frame with the other FCB is a retransmission: acknowledged, not delivered.
OnConfirmedUserData(c, src, fcb, data, reply) ==
    IF c.pSecState # "Reset" THEN c
    ELSE LET d == QueueAck(c, src)
             e == IF d.nextReadFCB = fcb
                  THEN PushDataUp([d EXCEPT !.nextReadFCB = ~@], data, reply)
                  ELSE d
         IN  EnterSec(e, "TransmitWaitReset")

-------------------------------------------------------------------------------
(* The entry points of LinkLayer and LinkContext.                           *)

OnLowerLayerUp(c, reply) ==
    IF c.isOnline THEN c
    ELSE Reply([c EXCEPT !.isOnline = TRUE, !.keepAliveTimer = TimerStart(@),
                         !.linkStatus = "UNRESET"], reply)

\* What LinkContext::OnLowerLayerDown resets.  The FCBs, the retry count and the
\* completions already posted are kept.  The channel has dropped the frames it
\* held (IOHandler::Reset).
DownState(c) ==
    [c EXCEPT !.isOnline = FALSE, !.keepAliveTimeout = FALSE,
              !.isRemoteReset = FALSE, !.pSegments = NoSegments,
              !.txMode = "Idle", !.pendingPriTx = <<>>, !.pendingSecTx = <<>>,
              !.rspTimeoutTimer = TimerCancel(@), !.keepAliveTimer = TimerCancel(@),
              !.pPriState = "Idle", !.pSecState = "NotReset",
              !.linkStatus = "UNRESET", !.tx = <<>>]

\* Mutants of OnLowerLayerDown: one reset is forgotten.
OnLowerLayerDownKeepsMode(c) == [DownState(c) EXCEPT !.txMode = c.txMode]
OnLowerLayerDownKeepsTimer(c) == [DownState(c) EXCEPT !.keepAliveTimer = c.keepAliveTimer]
OnLowerLayerDownKeepsPriState(c) == [DownState(c) EXCEPT !.pPriState = c.pPriState]

OnLowerLayerDown(c) == IF c.isOnline THEN DownState(c) ELSE c

\* Pending frames go first, the secondary's before the primary's; then the
\* completion goes to the station whose frame it was.
OnTxReady(c) ==
    IF c.txMode = "Idle" THEN c
    ELSE LET d == TryPendingTx(TryPendingTx([c EXCEPT !.txMode = "Idle"], "Secondary"),
                               "Primary")
         IN  TryStartTransmission(IF c.txMode = "Primary" THEN PriOnTxReady(d)
                                                          ELSE SecOnTxReady(d))

\* The channel reports that the frame at the head of its queue is written.
OnWriteComplete(c) == OnTxReady([c EXCEPT !.tx = Tail(@)])

OnResponseTimeout(c) == TryStartTransmission(PriOnTimeout(c))

\* elapsed: no frame has been received for KeepAliveTimeout.
OnKeepAliveTimeout(c, elapsed) ==
    TryStartTransmission([c EXCEPT !.keepAliveTimeout = @ \/ elapsed,
                                   !.keepAliveTimer = TimerStart(@)])

\* The checks of LinkContext::OnFrame on a header.
Accepts(c, frame) ==
    /\ c.isOnline
    /\ frame.isFromMaster # c.config.IsMaster
    /\ frame.dest = c.config.LocalAddr
    /\ frame.src = c.config.RemoteAddr \/ c.config.respondToAnySource

Dispatch(c, frame, reply) ==
    CASE frame.func = "SEC_ACK"  -> PriOnAck(c)
      [] frame.func = "SEC_NACK" -> PriOnNack(c, frame.fcvdfc)
      [] frame.func \in {"SEC_LINK_STATUS", "SEC_NOT_SUPPORTED"} -> PriOnStatus(c)
      [] frame.func = "PRI_TEST_LINK_STATES" -> OnTestLinkStatus(c, frame.src, frame.fcb)
      [] frame.func = "PRI_RESET_LINK_STATES" -> OnResetLinkStates(c, frame.src)
      [] frame.func = "PRI_REQUEST_LINK_STATUS" -> OnRequestLinkStatus(c, frame.src)
      [] frame.func = "PRI_CONFIRMED_USER_DATA" ->
           OnConfirmedUserData(c, frame.src, frame.fcb, frame.data, reply)
      [] frame.func = "PRI_UNCONFIRMED_USER_DATA" -> PushDataUp(c, frame.data, reply)

\* Mutant of OnFrame: work that became possible is not started.
OnFrameNoRestart(c, frame, reply) ==
    IF Accepts(c, frame) THEN Dispatch(c, frame, reply) ELSE c

OnFrame(c, frame, reply) ==
    IF Accepts(c, frame) THEN TryStartTransmission(Dispatch(c, frame, reply)) ELSE c
===============================================================================
