---------------------------- MODULE LinkLayerProofs ----------------------------
(***************************************************************************)
(* Proofs about LinkLayer, for every configuration, every set of segments  *)
(* and every bound.                                                        *)
(*                                                                         *)
(* The invariant is the conjunction Full below.  Inside a handler it is    *)
(* broken and repaired several times, so the lemmas speak about contexts,  *)
(* not about states: Base is what the operators of the primary station     *)
(* keep, and Kept says that they leave the secondary station alone.        *)
(*                                                                         *)
(* The last part is what LinkPairProofs and TransportStackProofs share:    *)
(* the primary station of one context, the secondary station of another    *)
(* and the frames between them, which keep in step (Exchange) as long as   *)
(* both ends confirm.                                                      *)
(***************************************************************************)
EXTENDS LinkLayer, SequenceTheorems, TLAPS

\* What the transmit mode says about the frames in the channel.
Chan(c) ==
    /\ c.tx # <<>> => Len(c.tx) = 1 /\ c.tx[1].station = c.txMode
    /\ c.txMode = "Idle" => c.tx = <<>>
    /\ c.pendingPriTx # <<>> => c.txMode = "Secondary"
    /\ c.pendingSecTx # <<>> => c.txMode = "Primary"

\* The channel has the frame whose completion is awaited.
Live(c) == c.txMode # "Idle" => c.tx # <<>>

DataState == PriState \ {"Idle", "RequestLinkStatusTransmitWait", "RequestLinkStatusWait"}

PriAccounting(c) == c.pPriState \in PriTransmitWait <=> PriFrameOut(c)
SecAccounting(c) == c.pSecState \in SecTransmitWait <=> SecFrameOut(c)
Waits(c) == c.pPriState \in PriResponseWait <=> IsActive(c.rspTimeoutTimer)
Segs(c) == c.pPriState \in DataState => HasSegments(c)
Work(c) == c.pPriState = "Idle" => ~HasSegments(c) /\ ~c.keepAliveTimeout

\* A context in which the primary station may queue a frame.
PriReady(c) ==
    /\ c \in LinkContextType /\ Chan(c) /\ ~c.clobbered
    /\ ~PriFrameOut(c) /\ ~IsActive(c.rspTimeoutTimer)

Base(c) ==
    /\ c \in LinkContextType /\ Chan(c) /\ ~c.clobbered
    /\ PriAccounting(c) /\ Waits(c) /\ Segs(c)

Full(c) == Base(c) /\ SecAccounting(c) /\ Work(c)

\* What the primary station's operators leave alone.
Kept(c, d) ==
    /\ d.isOnline = c.isOnline /\ d.pSecState = c.pSecState
    /\ SecFrameOut(d) <=> SecFrameOut(c)
    /\ c.isOnline /\ Live(c) => Live(d)
    /\ c.tx # <<>> => d.tx # <<>>
    /\ d.keepAliveTimer = c.keepAliveTimer

\* Every field that QueueTransmit does not touch.
SameRest(c, d) ==
    /\ d.config = c.config /\ d.pSegments = c.pSegments
    /\ d.numRetryRemaining = c.numRetryRemaining
    /\ d.rspTimeoutTimer = c.rspTimeoutTimer /\ d.keepAliveTimer = c.keepAliveTimer
    /\ d.nextReadFCB = c.nextReadFCB /\ d.nextWriteFCB = c.nextWriteFCB
    /\ d.isOnline = c.isOnline /\ d.isRemoteReset = c.isRemoteReset
    /\ d.keepAliveTimeout = c.keepAliveTimeout
    /\ d.pPriState = c.pPriState /\ d.pSecState = c.pSecState
    /\ d.posted = c.posted /\ d.up = c.up /\ d.linkStatus = c.linkStatus

-------------------------------------------------------------------------------
LEMMA SameRestTransitive ==
    ASSUME NEW c, NEW d, NEW e, SameRest(c, d), SameRest(d, e)
    PROVE  SameRest(c, e)
  BY DEF SameRest

\* QueueTransmit keeps the type of a context and touches only the transmitter.
LEMMA QueueType ==
    ASSUME NEW c \in LinkContextType, NEW f \in Frame, NEW p \in Station
    PROVE  /\ QueueTransmit(c, f, p) \in LinkContextType
           /\ SameRest(c, QueueTransmit(c, f, p))
<1> DEFINE d == [c EXCEPT !.clobbered = c.clobbered \/ BufferInUse(c, p)]
           e == [d EXCEPT !.txMode = p]
           t == Append(e.tx, [station |-> p, frame |-> f])
<1>1. BufferInUse(c, p) \in BOOLEAN /\ p \in {"Idle", "Primary", "Secondary"}
  BY DEF BufferInUse, Station
<1>2. d \in LinkContextType /\ SameRest(c, d)
  BY <1>1 DEF LinkContextType, SameRest
<1> HIDE DEF d
<1>3. e \in LinkContextType /\ SameRest(d, e)
  BY <1>1, <1>2 DEF LinkContextType, SameRest
<1> HIDE DEF e
<1>4. t \in Seq([station : Station, frame : Frame])
  <2>1. [station |-> p, frame |-> f] \in [station : Station, frame : Frame]
    OBVIOUS
  <2>2. e.tx \in Seq([station : Station, frame : Frame])
    BY <1>3 DEF LinkContextType
  <2> QED
    BY <2>1, <2>2
<1> HIDE DEF t
<1> DEFINE one == <<f>>
           sent == [e EXCEPT !.tx = t]
           pri == [d EXCEPT !.pendingPriTx = one]
           sec == [d EXCEPT !.pendingSecTx = one]
<1>6. one \in Seq(Frame)
  OBVIOUS
<1>9. QueueTransmit(c, f, p) \in {e, sent, pri, sec}
  BY DEF QueueTransmit, BeginTransmit, d, e, t
<1> HIDE DEF one
<1>5. sent \in LinkContextType /\ SameRest(e, sent)
  BY <1>3, <1>4 DEF LinkContextType, SameRest
<1>7. pri \in LinkContextType /\ SameRest(d, pri)
  BY <1>2, <1>6 DEF LinkContextType, SameRest
<1>8. sec \in LinkContextType /\ SameRest(d, sec)
  BY <1>2, <1>6 DEF LinkContextType, SameRest
<1> HIDE DEF sent, pri, sec
<1>10. SameRest(c, e) /\ SameRest(c, sent) /\ SameRest(c, pri) /\ SameRest(c, sec)
  BY <1>2, <1>3, <1>5, <1>7, <1>8, SameRestTransitive
<1> QED
  BY <1>3, <1>5, <1>7, <1>8, <1>9, <1>10

\* A primary frame queued while none is out: the buffer is not overwritten, and
\* the frame is in the channel or parked behind an answer.
LEMMA QueuePrimary ==
    ASSUME NEW c, PriReady(c), NEW f \in Frame,
           NEW d, d = QueueTransmit(c, f, "Primary")
    PROVE  /\ d \in LinkContextType /\ SameRest(c, d)
           /\ Chan(d) /\ ~d.clobbered /\ PriFrameOut(d) /\ Kept(c, d)
<1>1. c \in LinkContextType /\ Chan(c) /\ ~c.clobbered /\ ~PriFrameOut(c)
  BY DEF PriReady
<1>2. d \in LinkContextType /\ SameRest(c, d)
  BY <1>1, QueueType DEF Station
<1>3. ~BufferInUse(c, "Primary")
  <2>1. c.tx \in Seq([station : Station, frame : Frame])
    BY <1>1 DEF LinkContextType
  <2> QED
    BY <1>1, <2>1 DEF BufferInUse, Pending, Chan, PriFrameOut
<1>4. d.clobbered = FALSE
  BY <1>1, <1>3 DEF QueueTransmit, BeginTransmit, LinkContextType
<1>5. ASSUME c.txMode = "Idle"
      PROVE  Chan(d) /\ PriFrameOut(d) /\ Kept(c, d)
  <2>1. d.txMode = "Primary" /\ d.pendingPriTx = <<>> /\ d.pendingSecTx = <<>>
    BY <1>1, <1>5 DEF QueueTransmit, BeginTransmit, LinkContextType, Chan
  <2>2. c.tx = <<>> /\ c.pendingSecTx = <<>>
    BY <1>1, <1>5 DEF Chan
  <2> DEFINE x == [station |-> "Primary", frame |-> f]
  <2>3. /\ c.isOnline => d.tx = Append(c.tx, x)
        /\ ~c.isOnline => d.tx = c.tx
    BY <1>1, <1>5 DEF QueueTransmit, BeginTransmit, LinkContextType
  <2>4. x.station = "Primary"
    OBVIOUS
  <2> HIDE DEF x
  <2>5. Append(<<>>, x) = <<x>>
    OBVIOUS
  <2> DEFINE y == <<x>>
  <2>6. c.isOnline => d.tx = y
    BY <2>2, <2>3, <2>5
  <2>7. y # <<>> /\ Len(y) = 1 /\ y[1] = x
    OBVIOUS
  <2> HIDE DEF y
  <2>8. c.isOnline => d.tx # <<>> /\ Len(d.tx) = 1 /\ d.tx[1].station = "Primary"
    BY <2>4, <2>6, <2>7
  <2>9. ~c.isOnline => d.tx = <<>>
    BY <2>2, <2>3
  <2>10. Chan(d) /\ PriFrameOut(d)
    BY <2>1, <2>8, <2>9 DEF Chan, PriFrameOut
  <2> QED
    BY <1>2, <1>5, <2>1, <2>2, <2>8, <2>10 DEF SecFrameOut, Kept, Live, SameRest
<1>6. ASSUME c.txMode # "Idle"
      PROVE  Chan(d) /\ PriFrameOut(d) /\ Kept(c, d)
  <2>1. /\ d.txMode = c.txMode /\ d.tx = c.tx /\ d.pendingPriTx = <<f>>
        /\ d.pendingSecTx = c.pendingSecTx
    BY <1>1, <1>6 DEF QueueTransmit, LinkContextType
  <2>2. c.txMode = "Secondary" /\ <<f>> # <<>>
    BY <1>1, <1>6 DEF PriFrameOut, LinkContextType
  <2> QED
    BY <1>1, <1>2, <2>1, <2>2
       DEF Chan, PriFrameOut, SecFrameOut, Kept, Live, SameRest
<1> QED
  BY <1>2, <1>4, <1>5, <1>6

\* The same transmitter and secondary station: what a change of the primary
\* station's own fields leaves alone.
SameTx(c, d) ==
    /\ d.txMode = c.txMode /\ d.tx = c.tx /\ d.clobbered = c.clobbered
    /\ d.pendingPriTx = c.pendingPriTx /\ d.pendingSecTx = c.pendingSecTx
    /\ d.isOnline = c.isOnline /\ d.pSecState = c.pSecState
    /\ d.keepAliveTimer = c.keepAliveTimer

LEMMA SameTxKept ==
    ASSUME NEW c, NEW d, SameTx(c, d)
    PROVE  /\ Kept(c, d)
           /\ Chan(c) => Chan(d)
           /\ PriFrameOut(d) <=> PriFrameOut(c)
           /\ SecFrameOut(d) <=> SecFrameOut(c)
  BY DEF SameTx, Kept, Chan, PriFrameOut, SecFrameOut, Live

LEMMA KeptTransitive ==
    ASSUME NEW c, NEW d, NEW e, Kept(c, d), Kept(d, e)
    PROVE  Kept(c, e)
  BY DEF Kept

\* A primary state whose entry has nothing to transmit.
LEMMA EnterPriType ==
    ASSUME NEW c \in LinkContextType, NEW s \in PriState
    PROVE  /\ EnterPri(c, s) \in LinkContextType
           /\ EnterPri(c, s).pPriState = s
           /\ SameTx(c, EnterPri(c, s))
           /\ EnterPri(c, s).rspTimeoutTimer = c.rspTimeoutTimer
           /\ EnterPri(c, s).pSegments = c.pSegments
           /\ EnterPri(c, s).keepAliveTimeout = c.keepAliveTimeout
  BY DEF EnterPri, LinkContextType, SameTx

\* The primary station goes idle with no frame out and no timer running.
LEMMA PriIdle ==
    ASSUME NEW c, PriReady(c), NEW e, e = EnterPri(c, "Idle")
    PROVE  Base(e) /\ Kept(c, e)
<1>1. c \in LinkContextType /\ Chan(c) /\ ~c.clobbered /\ ~PriFrameOut(c)
  BY DEF PriReady
<1>2. /\ e \in LinkContextType /\ e.pPriState = "Idle" /\ SameTx(c, e)
      /\ e.rspTimeoutTimer = c.rspTimeoutTimer
  BY <1>1, EnterPriType DEF PriState
<1>3. Chan(e) /\ ~PriFrameOut(e) /\ Kept(c, e)
  BY <1>1, <1>2, SameTxKept
<1>4. ~e.clobbered /\ ~IsActive(e.rspTimeoutTimer)
  BY <1>2 DEF SameTx, PriReady
<1> QED
  BY <1>2, <1>3, <1>4
     DEF Base, PriAccounting, Waits, Segs, PriTransmitWait, PriResponseWait, DataState

\* The primary station queues a frame and waits for its transmission.
LEMMA PriQueue ==
    ASSUME NEW c, PriReady(c), NEW f \in Frame, NEW s \in PriTransmitWait,
           s \in DataState => HasSegments(c),
           NEW e, e = EnterPri(QueueTransmit(c, f, "Primary"), s)
    PROVE  Base(e) /\ Kept(c, e) /\ e.pPriState = s
<1> DEFINE d == QueueTransmit(c, f, "Primary")
<1>1. /\ d \in LinkContextType /\ SameRest(c, d)
      /\ Chan(d) /\ ~d.clobbered /\ PriFrameOut(d) /\ Kept(c, d)
  BY QueuePrimary
<1>2. e = EnterPri(d, s)
  OBVIOUS
<1> HIDE DEF d
<1>3. /\ e \in LinkContextType /\ e.pPriState = s /\ SameTx(d, e)
      /\ e.rspTimeoutTimer = d.rspTimeoutTimer /\ e.pSegments = d.pSegments
  <2>1. s \in PriState
    BY DEF PriState
  <2> QED
    BY <1>1, <1>2, <2>1, EnterPriType
<1>4. Chan(e) /\ PriFrameOut(e) /\ Kept(d, e)
  BY <1>1, <1>3, SameTxKept
<1>5. ~e.clobbered /\ ~IsActive(e.rspTimeoutTimer) /\ e.pSegments = c.pSegments
  BY <1>1, <1>3 DEF SameTx, SameRest, PriReady
<1>6. s \notin PriResponseWait
  BY DEF PriTransmitWait, PriResponseWait
<1>7. PriAccounting(e) /\ Waits(e)
  BY <1>3, <1>4, <1>5, <1>6 DEF PriAccounting, Waits
<1>8. Segs(e)
  BY <1>3, <1>5 DEF Segs, HasSegments
<1> QED
  BY <1>1, <1>3, <1>4, <1>5, <1>7, <1>8, KeptTransitive DEF Base

\* The frames that the formatting functions write pass the parser.
LEMMA FormatHeaderType ==
    ASSUME NEW c \in LinkContextType, NEW func \in SecFunction \cup PriFunction,
           NEW fcb \in BOOLEAN, NEW fcv \in BOOLEAN, NEW dest \in Address,
           NEW data \in Segment \cup {NoData},
           WellFormed(FormatHeader(c, func, fcb, fcv, dest, data))
    PROVE  FormatHeader(c, func, fcb, fcv, dest, data) \in Frame
<1>1. c.config \in LinkLayerConfig
  BY DEF LinkContextType
<1>2. c.config.IsMaster \in BOOLEAN /\ c.config.LocalAddr \in Address
  BY <1>1 DEF LinkLayerConfig
<1>3. FormatHeader(c, func, fcb, fcv, dest, data) \in LinkHeader
  BY <1>2 DEF FormatHeader, LinkHeader
<1> QED
  BY <1>3 DEF Frame

LEMMA PlainFrame ==
    ASSUME NEW c \in LinkContextType, NEW dest \in Address,
           NEW func \in {"SEC_ACK", "SEC_LINK_STATUS", "PRI_RESET_LINK_STATES",
                         "PRI_REQUEST_LINK_STATUS"},
           NEW f, f = FormatHeader(c, func, FALSE, FALSE, dest, NoData)
    PROVE  f \in Frame /\ f.func = func
<1>1. f.func = func /\ f.fcb = FALSE /\ f.fcvdfc = FALSE /\ f.data = NoData
  BY DEF FormatHeader
<1>2. WellFormed(f)
  BY <1>1 DEF WellFormed
<1>3. func \in SecFunction \cup PriFunction
  BY DEF SecFunction, PriFunction
<1> QED
  BY <1>1, <1>2, <1>3, FormatHeaderType

LEMMA ConfirmedFrame ==
    ASSUME NEW c \in LinkContextType, NEW dest \in Address, NEW fcb \in BOOLEAN,
           NEW data \in Segment,
           NEW f, f = FormatHeader(c, "PRI_CONFIRMED_USER_DATA", fcb, TRUE, dest, data)
    PROVE  f \in Frame
<1>1. f.func = "PRI_CONFIRMED_USER_DATA" /\ f.fcvdfc = TRUE /\ f.data = data
  BY DEF FormatHeader
<1>2. WellFormed(f)
  BY <1>1, SegmentAssumption DEF WellFormed, SecFunction
<1> QED
  BY <1>2, FormatHeaderType DEF PriFunction

LEMMA UnconfirmedFrame ==
    ASSUME NEW c \in LinkContextType, NEW dest \in Address, NEW data \in Segment,
           NEW f, f = FormatHeader(c, "PRI_UNCONFIRMED_USER_DATA", FALSE, FALSE, dest, data)
    PROVE  f \in Frame
<1>1. f.func = "PRI_UNCONFIRMED_USER_DATA" /\ f.fcvdfc = FALSE /\ f.data = data
  BY DEF FormatHeader
<1>2. WellFormed(f)
  BY <1>1, SegmentAssumption DEF WellFormed, SecFunction
<1> QED
  BY <1>2, FormatHeaderType DEF PriFunction

\* The pointer to the segments is good for another Advance when it says so.
LEMMA SegmentFacts ==
    ASSUME NEW c \in LinkContextType, HasSegments(c)
    PROVE  /\ c.pSegments \in Segments
           /\ c.pSegments.destination \in Address
           /\ Head(c.pSegments.segs) \in Segment
<1>1. c.pSegments \in Segments
  BY DEF LinkContextType, HasSegments
<1>2. c.pSegments.segs \in Seq(Segment) /\ c.pSegments.segs # <<>>
  BY <1>1 DEF Segments
<1> QED
  BY <1>1, <1>2 DEF Segments

LEMMA TailFacts ==
    ASSUME NEW S, NEW s \in Seq(S), Len(s) > 1
    PROVE  Tail(s) \in Seq(S) /\ Tail(s) # <<>>
<1>1. Tail(s) \in Seq(S) /\ Len(Tail(s)) = Len(s) - 1
  OBVIOUS
<1>2. Len(Tail(s)) # 0
  BY <1>1
<1> DEFINE t == Tail(s)
<1>3. t # <<>>
  <2>1. Len(t) # 0
    BY <1>2
  <2> HIDE DEF t
  <2> QED
    BY <2>1
<1> QED
  BY <1>1, <1>3

LEMMA AdvanceFacts ==
    ASSUME NEW c \in LinkContextType, HasSegments(c), MoreSegments(c),
           NEW d, d = Advance(c)
    PROVE  /\ d \in LinkContextType /\ HasSegments(d) /\ SameTx(c, d)
           /\ d.rspTimeoutTimer = c.rspTimeoutTimer
           /\ d.pPriState = c.pPriState
<1> DEFINE p == c.pSegments
           q == [p EXCEPT !.segs = Tail(@)]
<1>1. p \in Segments /\ p.segs \in Seq(Segment) /\ Len(p.segs) > 1
  BY SegmentFacts DEF Segments, MoreSegments
<1>2. Tail(p.segs) \in Seq(Segment) /\ Tail(p.segs) # <<>>
  BY <1>1, TailFacts
<1>3. q \in Segments /\ q.segs # <<>>
  BY <1>1, <1>2 DEF Segments
<1>4. q # NoSegments
  BY <1>3 DEF NoSegments
<1>5. d = [c EXCEPT !.pSegments = q]
  BY DEF Advance
<1> HIDE DEF p, q
<1> QED
  BY <1>3, <1>4, <1>5 DEF LinkContextType, HasSegments, SameTx

-------------------------------------------------------------------------------
LEMMA TimerFacts ==
    ASSUME NEW t \in TimerRefType
    PROVE  /\ TimerCancel(t) \in TimerRefType /\ ~IsActive(TimerCancel(t))
           /\ TimerStart(t) \in TimerRefType /\ IsActive(TimerStart(t))
           /\ TimerExpire(t) \in TimerRefType /\ IsActive(TimerExpire(t))
           /\ CurrentCallback(t) \in TimerRefType /\ ~IsActive(CurrentCallback(t))
           /\ t.stale > 0 => StaleCallback(t) \in TimerRefType
           /\ ~IsActive(StaleCallback(t))
<1>1. TimerCancel(t) \in TimerRefType /\ ~IsActive(TimerCancel(t))
  BY DEF TimerRefType, TimerCancel, IsActive
<1>2. TimerStart(t) \in TimerRefType /\ IsActive(TimerStart(t))
  BY DEF TimerRefType, TimerStart, IsActive
<1>3. TimerExpire(t) \in TimerRefType /\ IsActive(TimerExpire(t))
  BY DEF TimerRefType, TimerExpire, IsActive
<1>4. CurrentCallback(t) \in TimerRefType /\ ~IsActive(CurrentCallback(t))
  BY DEF TimerRefType, CurrentCallback, IsActive
<1>5. t.stale > 0 => StaleCallback(t) \in TimerRefType
  BY DEF TimerRefType, StaleCallback, IsActive
<1>6. ~IsActive(StaleCallback(t))
  BY DEF StaleCallback, IsActive
<1> QED
  BY <1>1, <1>2, <1>3, <1>4, <1>5, <1>6

\* The updates of the primary station's own fields.
LEMMA ResetRetryFacts ==
    ASSUME NEW c \in LinkContextType, NEW d, d = ResetRetry(c)
    PROVE  /\ d \in LinkContextType /\ SameTx(c, d) /\ d.config = c.config
           /\ d.rspTimeoutTimer = c.rspTimeoutTimer /\ d.pSegments = c.pSegments
           /\ d.pPriState = c.pPriState
<1>1. c.config \in LinkLayerConfig
  BY DEF LinkContextType
<1>2. c.config.NumRetry \in Nat
  BY <1>1 DEF LinkLayerConfig
<1> QED
  BY <1>2 DEF LinkContextType, ResetRetry, SameTx

LEMMA RetryFacts ==
    ASSUME NEW c \in LinkContextType, c.numRetryRemaining > 0, NEW d, d = Retry(c)
    PROVE  /\ d \in LinkContextType /\ SameTx(c, d) /\ d.config = c.config
           /\ d.rspTimeoutTimer = c.rspTimeoutTimer /\ d.pSegments = c.pSegments
           /\ d.pPriState = c.pPriState
<1>1. c.numRetryRemaining \in Nat
  BY DEF LinkContextType
<1>2. c.numRetryRemaining - 1 \in Nat
  BY <1>1
<1> QED
  BY <1>2 DEF LinkContextType, Retry, SameTx

LEMMA CancelTimerFacts ==
    ASSUME NEW c \in LinkContextType, NEW d, d = CancelTimer(c)
    PROVE  /\ d \in LinkContextType /\ SameTx(c, d) /\ d.config = c.config
           /\ ~IsActive(d.rspTimeoutTimer) /\ d.pSegments = c.pSegments
           /\ d.pPriState = c.pPriState
<1> DEFINE t == TimerCancel(c.rspTimeoutTimer)
<1>1. t \in TimerRefType /\ ~IsActive(t)
  BY TimerFacts DEF LinkContextType
<1>2. d = [c EXCEPT !.rspTimeoutTimer = t]
  BY DEF CancelTimer
<1> HIDE DEF t
<1> QED
  BY <1>1, <1>2 DEF LinkContextType, SameTx

LEMMA StartResponseTimerFacts ==
    ASSUME NEW c \in LinkContextType, NEW d, d = StartResponseTimer(c)
    PROVE  /\ d \in LinkContextType /\ SameTx(c, d)
           /\ IsActive(d.rspTimeoutTimer) /\ d.pSegments = c.pSegments
<1> DEFINE t == TimerStart(c.rspTimeoutTimer)
<1>1. t \in TimerRefType /\ IsActive(t)
  BY TimerFacts DEF LinkContextType
<1>2. d = [c EXCEPT !.rspTimeoutTimer = t]
  BY DEF StartResponseTimer
<1> HIDE DEF t
<1> QED
  BY <1>1, <1>2 DEF LinkContextType, SameTx

LEMMA CompleteFacts ==
    ASSUME NEW c \in LinkContextType, NEW d, d = CompleteSendOperation(c)
    PROVE  /\ d \in LinkContextType /\ SameTx(c, d)
           /\ d.rspTimeoutTimer = c.rspTimeoutTimer
<1>1. c.posted + 1 \in Nat
  BY DEF LinkContextType
<1> QED
  BY <1>1 DEF LinkContextType, CompleteSendOperation, SameTx

LEMMA OnStateChangeFacts ==
    ASSUME NEW c \in LinkContextType, NEW s \in {"RESET", "UNRESET"},
           NEW d, d = OnStateChange(c, s)
    PROVE  /\ d \in LinkContextType /\ SameTx(c, d) /\ d.config = c.config
           /\ d.rspTimeoutTimer = c.rspTimeoutTimer /\ d.pSegments = c.pSegments
           /\ d.pPriState = c.pPriState
  BY DEF LinkContextType, OnStateChange, SameTx

\* A change that leaves the transmitter alone leaves the station ready.
LEMMA ReadyAfter ==
    ASSUME NEW c \in LinkContextType, Chan(c), ~c.clobbered, ~PriFrameOut(c),
           NEW d \in LinkContextType, SameTx(c, d), ~IsActive(d.rspTimeoutTimer)
    PROVE  PriReady(d) /\ Kept(c, d)
<1>1. Chan(d) /\ ~PriFrameOut(d) /\ Kept(c, d)
  BY SameTxKept
<1>2. ~d.clobbered
  BY DEF SameTx
<1> QED
  BY <1>1, <1>2 DEF PriReady

-------------------------------------------------------------------------------
\* The four frames a primary station queues.
LEMMA SendConfirmed ==
    ASSUME NEW c, PriReady(c), HasSegments(c),
           NEW e, e = EnterPri(QueueConfirmed(c), "ConfUserDataTransmitWait")
    PROVE  Base(e) /\ Kept(c, e) /\ e.pPriState = "ConfUserDataTransmitWait"
<1> DEFINE f == FormatHeader(c, "PRI_CONFIRMED_USER_DATA", c.nextWriteFCB, TRUE,
                             c.pSegments.destination, Head(c.pSegments.segs))
<1>1. c \in LinkContextType /\ c.nextWriteFCB \in BOOLEAN
  BY DEF PriReady, LinkContextType
<1>2. f \in Frame
  BY <1>1, SegmentFacts, ConfirmedFrame
<1>3. e = EnterPri(QueueTransmit(c, f, "Primary"), "ConfUserDataTransmitWait")
  BY DEF QueueConfirmed
<1> HIDE DEF f
<1> QED
  BY <1>2, <1>3, PriQueue DEF PriTransmitWait

LEMMA SendUnconfirmed ==
    ASSUME NEW c, PriReady(c), HasSegments(c),
           NEW e, e = EnterPri(QueueUnconfirmed(c), "SendUnconfirmedTransmitWait")
    PROVE  Base(e) /\ Kept(c, e) /\ e.pPriState = "SendUnconfirmedTransmitWait"
<1> DEFINE f == FormatHeader(c, "PRI_UNCONFIRMED_USER_DATA", FALSE, FALSE,
                             c.pSegments.destination, Head(c.pSegments.segs))
<1>1. c \in LinkContextType
  BY DEF PriReady
<1>2. f \in Frame
  BY <1>1, SegmentFacts, UnconfirmedFrame
<1>3. e = EnterPri(QueueTransmit(c, f, "Primary"), "SendUnconfirmedTransmitWait")
  BY DEF QueueUnconfirmed
<1> HIDE DEF f
<1> QED
  BY <1>2, <1>3, PriQueue DEF PriTransmitWait

LEMMA SendResetLinks ==
    ASSUME NEW c, PriReady(c), HasSegments(c), NEW dest \in Address,
           NEW e, e = EnterPri(QueueResetLinks(c, dest), "LinkResetTransmitWait")
    PROVE  Base(e) /\ Kept(c, e) /\ e.pPriState = "LinkResetTransmitWait"
<1> DEFINE f == FormatHeader(c, "PRI_RESET_LINK_STATES", FALSE, FALSE, dest, NoData)
<1>1. c \in LinkContextType
  BY DEF PriReady
<1>2. f \in Frame
  BY <1>1, PlainFrame
<1>3. e = EnterPri(QueueTransmit(c, f, "Primary"), "LinkResetTransmitWait")
  BY DEF QueueResetLinks
<1> HIDE DEF f
<1> QED
  BY <1>2, <1>3, PriQueue DEF PriTransmitWait

LEMMA SendRequestLinkStatus ==
    ASSUME NEW c, PriReady(c), NEW dest \in Address,
           NEW e, e = EnterPri(QueueRequestLinkStatus(c, dest), "RequestLinkStatusTransmitWait")
    PROVE  Base(e) /\ Kept(c, e) /\ e.pPriState = "RequestLinkStatusTransmitWait"
<1> DEFINE f == FormatHeader(c, "PRI_REQUEST_LINK_STATUS", FALSE, FALSE, dest, NoData)
<1>1. c \in LinkContextType
  BY DEF PriReady
<1>2. f \in Frame
  BY <1>1, PlainFrame
<1>3. e = EnterPri(QueueTransmit(c, f, "Primary"), "RequestLinkStatusTransmitWait")
  BY DEF QueueRequestLinkStatus
<1>4. "RequestLinkStatusTransmitWait" \notin DataState
  BY DEF DataState
<1> HIDE DEF f
<1> QED
  BY <1>2, <1>3, <1>4, PriQueue DEF PriTransmitWait

LEMMA RemoteAddrType ==
    ASSUME NEW c \in LinkContextType
    PROVE  c.config.RemoteAddr \in Address
<1>1. c.config \in LinkLayerConfig
  BY DEF LinkContextType
<1> QED
  BY <1>1 DEF LinkLayerConfig

\* An idle primary station whose context is in order may queue a frame.
LEMMA IdleReady ==
    ASSUME NEW c, Base(c), c.pPriState = "Idle"
    PROVE  PriReady(c)
  BY DEF Base, PriReady, PriAccounting, Waits, PriTransmitWait, PriResponseWait

\* TryStartTransmission: whatever work waits for an idle station is started, a
\* keep-alive before a send, and a busy station is left alone.
LEMMA TryStart ==
    ASSUME NEW c, Base(c), NEW r, r = TryStartTransmission(c)
    PROVE  Base(r) /\ Work(r) /\ Kept(c, r)
<1>t. c \in LinkContextType
  BY DEF Base
<1>1. CASE c.pPriState # "Idle"
  <2>1. r = c
    BY <1>1 DEF TryStartTransmission, TrySendRequestLinkStatus, TrySendConfirmed,
                TrySendUnconfirmed
  <2> QED
    BY <1>1, <2>1 DEF Work, Kept
<1>2. CASE c.pPriState = "Idle" /\ c.keepAliveTimeout
  <2> DEFINE k == [c EXCEPT !.keepAliveTimeout = FALSE]
             d == EnterPri(QueueRequestLinkStatus(k, c.config.RemoteAddr),
                           "RequestLinkStatusTransmitWait")
  <2>1. k \in LinkContextType /\ SameTx(c, k) /\ k.rspTimeoutTimer = c.rspTimeoutTimer
    BY <1>t DEF LinkContextType, SameTx
  <2>2. TrySendRequestLinkStatus(c) = d
    BY <1>2 DEF TrySendRequestLinkStatus
  <2> HIDE DEF k
  <2>3. PriReady(k) /\ Kept(c, k)
    BY <1>2, <1>t, <2>1, IdleReady, ReadyAfter DEF PriReady
  <2>4. Base(d) /\ Kept(k, d) /\ d.pPriState = "RequestLinkStatusTransmitWait"
    BY <2>3, <1>t, RemoteAddrType, SendRequestLinkStatus
  <2> HIDE DEF d
  <2>5. r = d
    BY <1>2, <2>2, <2>4 DEF TryStartTransmission, TrySendConfirmed, TrySendUnconfirmed
  <2> QED
    BY <2>3, <2>4, <2>5, KeptTransitive DEF Work
<1>3. CASE c.pPriState = "Idle" /\ ~c.keepAliveTimeout /\ ~HasSegments(c)
  <2>1. r = c
    BY <1>3 DEF TryStartTransmission
  <2> QED
    BY <1>3, <2>1 DEF Work, Kept
<1>4. CASE c.pPriState = "Idle" /\ ~c.keepAliveTimeout /\ HasSegments(c)
  <2> DEFINE k == ResetRetry(c)
  <2>1. /\ k \in LinkContextType /\ SameTx(c, k) /\ k.pSegments = c.pSegments
        /\ k.rspTimeoutTimer = c.rspTimeoutTimer
    BY <1>t, ResetRetryFacts
  <2>2. PriReady(c)
    BY <1>4, IdleReady
  <2>3. r \in {EnterPri(QueueUnconfirmed(c), "SendUnconfirmedTransmitWait"),
               EnterPri(QueueConfirmed(k), "ConfUserDataTransmitWait"),
               EnterPri(QueueResetLinks(k, c.pSegments.destination), "LinkResetTransmitWait")}
    BY <1>4 DEF TryStartTransmission, TrySendConfirmed, TrySendUnconfirmed
  <2> HIDE DEF k
  <2>4. PriReady(k) /\ Kept(c, k) /\ HasSegments(k)
    BY <1>4, <1>t, <2>1, <2>2, ReadyAfter DEF PriReady, HasSegments
  <2>5. c.pSegments.destination \in Address
    BY <1>4, <1>t, SegmentFacts
  <2>6. CASE r = EnterPri(QueueUnconfirmed(c), "SendUnconfirmedTransmitWait")
    BY <2>6, <1>4, <2>2, SendUnconfirmed DEF Work
  <2>7. CASE r = EnterPri(QueueConfirmed(k), "ConfUserDataTransmitWait")
    BY <2>7, <2>4, SendConfirmed, KeptTransitive DEF Work
  <2>8. CASE r = EnterPri(QueueResetLinks(k, c.pSegments.destination), "LinkResetTransmitWait")
    BY <2>8, <2>4, <2>5, SendResetLinks, KeptTransitive DEF Work
  <2> QED
    BY <2>3, <2>6, <2>7, <2>8
<1> QED
  BY <1>1, <1>2, <1>3, <1>4

-------------------------------------------------------------------------------
\* The events of the primary station keep Base and leave the secondary alone.

\* A transmission is complete: the station's frame is no longer out.
LEMMA PriTxReady ==
    ASSUME NEW c, PriReady(c), Segs(c), c.pPriState \in PriTransmitWait,
           NEW r, r = PriOnTxReady(c)
    PROVE  Base(r) /\ Kept(c, r)
<1>1. c \in LinkContextType /\ Chan(c) /\ ~c.clobbered /\ ~PriFrameOut(c)
  BY DEF PriReady
<1>2. CASE c.pPriState = "SendUnconfirmedTransmitWait" /\ MoreSegments(c)
  <2> DEFINE a == Advance(c)
             q == QueueUnconfirmed(a)
  <2>1. HasSegments(c)
    BY <1>2 DEF Segs, DataState, PriState, PriTransmitWait
  <2>2. /\ a \in LinkContextType /\ HasSegments(a) /\ SameTx(c, a)
        /\ a.rspTimeoutTimer = c.rspTimeoutTimer /\ a.pPriState = c.pPriState
    BY <1>1, <1>2, <2>1, AdvanceFacts
  <2>3. r = q
    BY <1>2 DEF PriOnTxReady
  <2> HIDE DEF a
  <2>4. PriReady(a) /\ Kept(c, a)
    BY <1>1, <2>2, ReadyAfter DEF PriReady
  <2>5. q \in LinkContextType /\ q.pPriState = a.pPriState
    <3> DEFINE f == FormatHeader(a, "PRI_UNCONFIRMED_USER_DATA", FALSE, FALSE,
                                 a.pSegments.destination, Head(a.pSegments.segs))
    <3>1. f \in Frame
      BY <2>2, SegmentFacts, UnconfirmedFrame
    <3>2. q = QueueTransmit(a, f, "Primary")
      BY DEF QueueUnconfirmed
    <3> HIDE DEF f, q
    <3> QED
      BY <2>2, <3>1, <3>2, QueueType DEF SameRest, Station
  <2>6. Base(EnterPri(q, "SendUnconfirmedTransmitWait"))
        /\ Kept(a, EnterPri(q, "SendUnconfirmedTransmitWait"))
    BY <2>2, <2>4, SendUnconfirmed
  <2> HIDE DEF q
  <2>7. EnterPri(q, "SendUnconfirmedTransmitWait") = q
    BY <1>2, <2>2, <2>5 DEF EnterPri, LinkContextType
  <2> QED
    BY <2>3, <2>4, <2>6, <2>7, KeptTransitive
<1>3. CASE c.pPriState = "SendUnconfirmedTransmitWait" /\ ~MoreSegments(c)
  <2> DEFINE d == CompleteSendOperation(c)
  <2>1. d \in LinkContextType /\ SameTx(c, d) /\ d.rspTimeoutTimer = c.rspTimeoutTimer
    BY <1>1, CompleteFacts
  <2>2. r = EnterPri(d, "Idle")
    BY <1>3 DEF PriOnTxReady
  <2> HIDE DEF d
  <2>3. PriReady(d) /\ Kept(c, d)
    BY <1>1, <2>1, ReadyAfter DEF PriReady
  <2> QED
    BY <2>2, <2>3, PriIdle, KeptTransitive
<1>4. ASSUME NEW s \in PriResponseWait, r = EnterPri(StartResponseTimer(c), s),
             s \in DataState => HasSegments(c)
      PROVE  Base(r) /\ Kept(c, r)
  <2> DEFINE d == StartResponseTimer(c)
  <2>1. /\ d \in LinkContextType /\ SameTx(c, d)
        /\ IsActive(d.rspTimeoutTimer) /\ d.pSegments = c.pSegments
    BY <1>1, StartResponseTimerFacts
  <2>2. r = EnterPri(d, s)
    BY <1>4
  <2> HIDE DEF d
  <2>3. s \in PriState
    BY DEF PriState
  <2>4. /\ r \in LinkContextType /\ r.pPriState = s /\ SameTx(d, r)
        /\ r.rspTimeoutTimer = d.rspTimeoutTimer /\ r.pSegments = d.pSegments
    BY <2>1, <2>2, <2>3, EnterPriType
  <2>5. SameTx(c, r) /\ IsActive(r.rspTimeoutTimer) /\ r.pSegments = c.pSegments
    BY <2>1, <2>4 DEF SameTx
  <2>6. Chan(r) /\ ~PriFrameOut(r) /\ Kept(c, r)
    BY <1>1, <2>5, SameTxKept
  <2>7. s \notin PriTransmitWait
    BY DEF PriTransmitWait, PriResponseWait
  <2>8. PriAccounting(r) /\ Waits(r)
    BY <2>4, <2>5, <2>6, <2>7 DEF PriAccounting, Waits
  <2>9. Segs(r) /\ ~r.clobbered
    BY <1>1, <1>4, <2>4, <2>5 DEF Segs, HasSegments, SameTx
  <2> QED
    BY <2>4, <2>6, <2>8, <2>9 DEF Base
<1>5. CASE c.pPriState = "LinkResetTransmitWait"
  <2>1. HasSegments(c)
    BY <1>5 DEF Segs, DataState, PriState, PriTransmitWait
  <2>2. r = EnterPri(StartResponseTimer(c), "ResetLinkWait")
    BY <1>5 DEF PriOnTxReady
  <2> QED
    BY <1>4, <2>1, <2>2 DEF PriResponseWait
<1>6. CASE c.pPriState = "ConfUserDataTransmitWait"
  <2>1. HasSegments(c)
    BY <1>6 DEF Segs, DataState, PriState, PriTransmitWait
  <2>2. r = EnterPri(StartResponseTimer(c), "ConfDataWait")
    BY <1>6 DEF PriOnTxReady
  <2> QED
    BY <1>4, <2>1, <2>2 DEF PriResponseWait
<1>7. CASE c.pPriState = "RequestLinkStatusTransmitWait"
  <2>1. r = EnterPri(StartResponseTimer(c), "RequestLinkStatusWait")
    BY <1>7 DEF PriOnTxReady
  <2> QED
    BY <1>4, <2>1 DEF PriResponseWait, DataState
<1> QED
  BY <1>2, <1>3, <1>5, <1>6, <1>7 DEF PriTransmitWait

\* While the station waits for an answer no frame of its own is out.
LEMMA WaitingFacts ==
    ASSUME NEW c, Base(c), c.pPriState \in PriResponseWait
    PROVE  /\ c \in LinkContextType /\ Chan(c) /\ ~c.clobbered /\ ~PriFrameOut(c)
           /\ c.pPriState # "RequestLinkStatusWait" => HasSegments(c)
  BY DEF Base, PriAccounting, Segs, DataState, PriState, PriResponseWait, PriTransmitWait

LEMMA AfterCancel ==
    ASSUME NEW c \in LinkContextType, Chan(c), ~c.clobbered, ~PriFrameOut(c),
           NEW d, d = CancelTimer(c)
    PROVE  PriReady(d) /\ Kept(c, d) /\ d.pSegments = c.pSegments
<1>1. /\ d \in LinkContextType /\ SameTx(c, d) /\ ~IsActive(d.rspTimeoutTimer)
      /\ d.pSegments = c.pSegments
  BY CancelTimerFacts
<1> QED
  BY <1>1, ReadyAfter

\* The send is over: its completion is posted and the station is idle.
LEMMA CompleteIdle ==
    ASSUME NEW c, PriReady(c), NEW r, r = EnterPri(CompleteSendOperation(c), "Idle")
    PROVE  Base(r) /\ Kept(c, r)
<1> DEFINE d == CompleteSendOperation(c)
<1>1. c \in LinkContextType /\ Chan(c) /\ ~c.clobbered /\ ~PriFrameOut(c)
  BY DEF PriReady
<1>2. d \in LinkContextType /\ SameTx(c, d) /\ d.rspTimeoutTimer = c.rspTimeoutTimer
  BY <1>1, CompleteFacts
<1>3. r = EnterPri(d, "Idle")
  OBVIOUS
<1> HIDE DEF d
<1>4. PriReady(d) /\ Kept(c, d)
  BY <1>1, <1>2, ReadyAfter DEF PriReady
<1> QED
  BY <1>3, <1>4, PriIdle, KeptTransitive

LEMMA FailureFacts ==
    ASSUME NEW c \in LinkContextType, Chan(c), ~c.clobbered, ~PriFrameOut(c),
           NEW r, r = Failure(c)
    PROVE  Base(r) /\ Kept(c, r)
<1> DEFINE d == CancelTimer(c)
<1>1. PriReady(d) /\ Kept(c, d)
  BY AfterCancel
<1>2. r = EnterPri(CompleteSendOperation(d), "Idle")
  BY DEF Failure
<1> HIDE DEF d
<1> QED
  BY <1>1, <1>2, CompleteIdle, KeptTransitive

LEMMA ResetAck ==
    ASSUME NEW c, Base(c), c.pPriState = "ResetLinkWait",
           NEW r, r = ResetLinkWaitOnAck(c)
    PROVE  Base(r) /\ Kept(c, r)
<1> DEFINE a == [c EXCEPT !.isRemoteReset = TRUE, !.nextWriteFCB = TRUE]
           d == CancelTimer(a)
           q == QueueConfirmed(d)
           x == EnterPri(q, "ConfUserDataTransmitWait")
<1>1. c \in LinkContextType /\ Chan(c) /\ ~c.clobbered /\ ~PriFrameOut(c) /\ HasSegments(c)
  BY WaitingFacts DEF PriResponseWait
<1>2. a \in LinkContextType /\ SameTx(c, a) /\ a.pSegments = c.pSegments
  BY <1>1 DEF LinkContextType, SameTx
<1>3. r = EnterPri(OnStateChange(q, "RESET"), "ConfUserDataTransmitWait")
  BY DEF ResetLinkWaitOnAck
<1> HIDE DEF a
<1>4. Chan(a) /\ ~a.clobbered /\ ~PriFrameOut(a) /\ Kept(c, a)
  BY <1>1, <1>2, SameTxKept DEF SameTx
<1>5. PriReady(d) /\ Kept(a, d) /\ HasSegments(d)
  BY <1>1, <1>2, <1>4, AfterCancel DEF HasSegments
<1> HIDE DEF d
<1>6. Base(x) /\ Kept(d, x) /\ x.pPriState = "ConfUserDataTransmitWait"
  BY <1>5, SendConfirmed
<1>7. q \in LinkContextType
  <2> DEFINE f == FormatHeader(d, "PRI_CONFIRMED_USER_DATA", d.nextWriteFCB, TRUE,
                               d.pSegments.destination, Head(d.pSegments.segs))
  <2>1. d \in LinkContextType /\ d.nextWriteFCB \in BOOLEAN
    BY <1>5 DEF PriReady, LinkContextType
  <2>2. f \in Frame
    BY <1>5, <2>1, SegmentFacts, ConfirmedFrame
  <2>3. q = QueueTransmit(d, f, "Primary")
    BY DEF QueueConfirmed
  <2> HIDE DEF f, q
  <2> QED
    BY <2>1, <2>2, <2>3, QueueType DEF Station
<1> HIDE DEF q
<1>8. r = OnStateChange(x, "RESET")
  BY <1>3, <1>7 DEF OnStateChange, EnterPri, LinkContextType
<1> HIDE DEF x
<1>9. x \in LinkContextType
  BY <1>6 DEF Base
<1>10. /\ r \in LinkContextType /\ SameTx(x, r)
       /\ r.rspTimeoutTimer = x.rspTimeoutTimer /\ r.pSegments = x.pSegments
       /\ r.pPriState = x.pPriState
  BY <1>8, <1>9, OnStateChangeFacts
<1>11. Base(r) /\ Kept(x, r)
  <2>1. Kept(x, r) /\ Chan(r) /\ (PriFrameOut(r) <=> PriFrameOut(x))
    BY <1>6, <1>10, SameTxKept DEF Base
  <2>2. ~r.clobbered
    BY <1>6, <1>10 DEF Base, SameTx
  <2> QED
    BY <1>6, <1>10, <2>1, <2>2 DEF Base, PriAccounting, Waits, Segs, HasSegments
<1> QED
  BY <1>4, <1>5, <1>6, <1>11, KeptTransitive

LEMMA DataAck ==
    ASSUME NEW c, Base(c), c.pPriState = "ConfDataWait",
           NEW r, r = ConfDataWaitOnAck(c)
    PROVE  Base(r) /\ Kept(c, r)
<1> DEFINE a == [c EXCEPT !.nextWriteFCB = ~@]
           d == CancelTimer(a)
           v == Advance(d)
<1>1. c \in LinkContextType /\ Chan(c) /\ ~c.clobbered /\ ~PriFrameOut(c) /\ HasSegments(c)
  BY WaitingFacts DEF PriResponseWait
<1>2. a \in LinkContextType /\ SameTx(c, a) /\ a.pSegments = c.pSegments
  BY <1>1 DEF LinkContextType, SameTx
<1>3. r = IF MoreSegments(d)
          THEN EnterPri(QueueConfirmed(v), "ConfUserDataTransmitWait")
          ELSE EnterPri(CompleteSendOperation(d), "Idle")
  BY DEF ConfDataWaitOnAck
<1> HIDE DEF a
<1>4. Chan(a) /\ ~a.clobbered /\ ~PriFrameOut(a) /\ Kept(c, a)
  BY <1>1, <1>2, SameTxKept DEF SameTx
<1>5. PriReady(d) /\ Kept(a, d) /\ HasSegments(d)
  BY <1>1, <1>2, <1>4, AfterCancel DEF HasSegments
<1>6. Kept(c, d)
  BY <1>4, <1>5, KeptTransitive
<1> HIDE DEF d
<1>7. CASE MoreSegments(d)
  <2>1. d \in LinkContextType /\ Chan(d) /\ ~d.clobbered /\ ~PriFrameOut(d)
    BY <1>5 DEF PriReady
  <2>2. /\ v \in LinkContextType /\ HasSegments(v) /\ SameTx(d, v)
        /\ v.rspTimeoutTimer = d.rspTimeoutTimer
    BY <1>5, <1>7, <2>1, AdvanceFacts
  <2> HIDE DEF v
  <2>3. PriReady(v) /\ Kept(d, v)
    BY <1>5, <2>1, <2>2, ReadyAfter DEF PriReady
  <2> QED
    BY <1>3, <1>6, <1>7, <2>2, <2>3, SendConfirmed, KeptTransitive
<1>8. CASE ~MoreSegments(d)
  BY <1>3, <1>5, <1>6, <1>8, CompleteIdle, KeptTransitive
<1> QED
  BY <1>7, <1>8

LEMMA DataNack ==
    ASSUME NEW c, Base(c), c.pPriState = "ConfDataWait", NEW full,
           NEW r, r = ConfDataWaitOnNack(c, full)
    PROVE  Base(r) /\ Kept(c, r)
<1> DEFINE d == OnStateChange(c, "UNRESET")
           k == ResetRetry(d)
           x == CancelTimer(k)
<1>1. c \in LinkContextType /\ Chan(c) /\ ~c.clobbered /\ ~PriFrameOut(c) /\ HasSegments(c)
  BY WaitingFacts DEF PriResponseWait
<1>2. d \in LinkContextType /\ SameTx(c, d) /\ d.pSegments = c.pSegments
  BY <1>1, OnStateChangeFacts
<1>3. r = IF full THEN Failure(d)
          ELSE EnterPri(QueueResetLinks(x, d.pSegments.destination), "LinkResetTransmitWait")
  BY DEF ConfDataWaitOnNack
<1> HIDE DEF d
<1>4. Chan(d) /\ ~d.clobbered /\ ~PriFrameOut(d) /\ Kept(c, d) /\ HasSegments(d)
  BY <1>1, <1>2, SameTxKept DEF SameTx, HasSegments
<1>5. CASE full
  <2>1. r = Failure(d)
    BY <1>3, <1>5
  <2> QED
    BY <1>2, <1>4, <2>1, FailureFacts, KeptTransitive
<1>6. CASE ~full
  <2>1. k \in LinkContextType /\ SameTx(d, k) /\ k.pSegments = d.pSegments
    BY <1>2, ResetRetryFacts
  <2> HIDE DEF k
  <2>2. Chan(k) /\ ~k.clobbered /\ ~PriFrameOut(k) /\ Kept(d, k)
    BY <1>4, <2>1, SameTxKept DEF SameTx
  <2>3. PriReady(x) /\ Kept(k, x) /\ HasSegments(x)
    BY <1>4, <2>1, <2>2, AfterCancel DEF HasSegments
  <2> HIDE DEF x
  <2>4. d.pSegments.destination \in Address
    BY <1>2, <1>4, SegmentFacts
  <2>5. r = EnterPri(QueueResetLinks(x, d.pSegments.destination), "LinkResetTransmitWait")
    BY <1>3, <1>6
  <2>6. Base(r) /\ Kept(x, r)
    BY <2>3, <2>4, <2>5, SendResetLinks
  <2> QED
    BY <1>4, <2>2, <2>3, <2>6, KeptTransitive
<1> QED
  BY <1>5, <1>6

LEMMA LinkStatusDone ==
    ASSUME NEW c, Base(c), c.pPriState = "RequestLinkStatusWait",
           NEW r, r = RequestLinkStatusWaitDone(c)
    PROVE  Base(r) /\ Kept(c, r)
<1> DEFINE d == CancelTimer(c)
<1>1. PriReady(d) /\ Kept(c, d)
  BY WaitingFacts, AfterCancel DEF PriResponseWait
<1>2. r = EnterPri(d, "Idle")
  BY DEF RequestLinkStatusWaitDone
<1> HIDE DEF d
<1> QED
  BY <1>1, <1>2, PriIdle, KeptTransitive

\* The three kinds of answer: SEC_ACK, SEC_NACK, and the status answers.
LEMMA PriAnswer ==
    ASSUME NEW c, Base(c), NEW full,
           NEW r, r \in {PriOnAck(c), PriOnNack(c, full), PriOnStatus(c)}
    PROVE  Base(r) /\ Kept(c, r)
<1>0. Kept(c, c)
  BY DEF Kept
<1>1. CASE r = PriOnAck(c)
  <2>1. CASE c.pPriState = "ResetLinkWait"
    <3>1. r = ResetLinkWaitOnAck(c)
      BY <1>1, <2>1 DEF PriOnAck
    <3> QED
      BY <2>1, <3>1, ResetAck
  <2>2. CASE c.pPriState = "ConfDataWait"
    <3>1. r = ConfDataWaitOnAck(c)
      BY <1>1, <2>2 DEF PriOnAck
    <3> QED
      BY <2>2, <3>1, DataAck
  <2>3. CASE c.pPriState \notin {"ResetLinkWait", "ConfDataWait"}
    <3>1. r = c
      BY <1>1, <2>3 DEF PriOnAck
    <3> QED
      BY <1>0, <3>1
  <2> QED
    BY <2>1, <2>2, <2>3
<1>2. ASSUME c.pPriState \in {"ResetLinkWait", "ConfDataWait"}, r = Failure(c)
      PROVE  Base(r) /\ Kept(c, r)
  BY <1>2, WaitingFacts, FailureFacts DEF PriResponseWait
<1>3. CASE r = PriOnNack(c, full)
  <2>1. CASE c.pPriState = "ResetLinkWait"
    <3>1. r = Failure(c)
      BY <1>3, <2>1 DEF PriOnNack
    <3> QED
      BY <1>2, <2>1, <3>1
  <2>2. CASE c.pPriState = "ConfDataWait"
    <3>1. r = ConfDataWaitOnNack(c, full)
      BY <1>3, <2>2 DEF PriOnNack
    <3> QED
      BY <2>2, <3>1, DataNack
  <2>3. CASE c.pPriState = "RequestLinkStatusWait"
    <3>1. r = RequestLinkStatusWaitDone(c)
      BY <1>3, <2>3 DEF PriOnNack
    <3> QED
      BY <2>3, <3>1, LinkStatusDone
  <2>4. CASE c.pPriState \notin PriResponseWait
    <3>1. r = c
      BY <1>3, <2>4 DEF PriOnNack, PriResponseWait
    <3> QED
      BY <1>0, <3>1
  <2> QED
    BY <2>1, <2>2, <2>3, <2>4 DEF PriResponseWait
<1>4. CASE r = PriOnStatus(c)
  <2>1. CASE c.pPriState \in {"ResetLinkWait", "ConfDataWait"}
    <3>1. r = Failure(c)
      BY <1>4, <2>1 DEF PriOnStatus
    <3> QED
      BY <1>2, <2>1, <3>1
  <2>2. CASE c.pPriState = "RequestLinkStatusWait"
    <3>1. r = RequestLinkStatusWaitDone(c)
      BY <1>4, <2>2 DEF PriOnStatus
    <3> QED
      BY <2>2, <3>1, LinkStatusDone
  <2>3. CASE c.pPriState \notin PriResponseWait
    <3>1. r = c
      BY <1>4, <2>3 DEF PriOnStatus, PriResponseWait
    <3> QED
      BY <1>0, <3>1
  <2> QED
    BY <2>1, <2>2, <2>3 DEF PriResponseWait
<1> QED
  BY <1>1, <1>3, <1>4

\* A response timer handler, current or stale: its proxy has cleared the timer,
\* so the context satisfies all of Base but Waits.
LEMMA PriTimeout ==
    ASSUME NEW c, c \in LinkContextType, Chan(c), ~c.clobbered,
           PriAccounting(c), Segs(c), ~IsActive(c.rspTimeoutTimer),
           NEW r, r = PriOnTimeout(c)
    PROVE  Base(r) /\ Kept(c, r)
<1> DEFINE k == Retry(c)
           u == OnStateChange(c, "UNRESET")
<1>1. CASE c.pPriState \notin PriResponseWait
  <2>1. r = c
    BY <1>1 DEF PriOnTimeout, PriResponseWait
  <2> QED
    BY <1>1, <2>1 DEF Base, Kept, Waits
<1>2. ASSUME c.pPriState \in PriResponseWait
      PROVE  PriReady(c) /\ (c.pPriState # "RequestLinkStatusWait" => HasSegments(c))
  BY <1>2 DEF PriReady, PriAccounting, Segs, DataState, PriState, PriResponseWait,
              PriTransmitWait
<1>3. ASSUME c.pPriState \in {"ResetLinkWait", "ConfDataWait"}, c.numRetryRemaining > 0
      PROVE  PriReady(k) /\ Kept(c, k) /\ HasSegments(k)
  <2>1. /\ k \in LinkContextType /\ SameTx(c, k) /\ k.pSegments = c.pSegments
        /\ k.rspTimeoutTimer = c.rspTimeoutTimer
    BY <1>3, RetryFacts
  <2>2. PriReady(c) /\ HasSegments(c)
    BY <1>2, <1>3 DEF PriResponseWait
  <2> HIDE DEF k
  <2> QED
    BY <2>1, <2>2, ReadyAfter DEF PriReady, HasSegments
<1>4. CASE c.pPriState = "ResetLinkWait" /\ c.numRetryRemaining > 0
  <2>1. r = EnterPri(QueueResetLinks(k, c.config.RemoteAddr), "LinkResetTransmitWait")
    BY <1>4 DEF PriOnTimeout
  <2>2. PriReady(k) /\ Kept(c, k) /\ HasSegments(k)
    BY <1>3, <1>4
  <2> HIDE DEF k
  <2> QED
    BY <2>1, <2>2, RemoteAddrType, SendResetLinks, KeptTransitive
<1>5. CASE c.pPriState = "ResetLinkWait" /\ ~(c.numRetryRemaining > 0)
  <2>1. r = EnterPri(CompleteSendOperation(c), "Idle")
    BY <1>5 DEF PriOnTimeout
  <2> QED
    BY <1>2, <1>5, <2>1, CompleteIdle DEF PriResponseWait
<1>6. CASE c.pPriState = "ConfDataWait" /\ c.numRetryRemaining > 0
  <2>1. r = EnterPri(QueueConfirmed(k), "ConfUserDataTransmitWait")
    BY <1>6 DEF PriOnTimeout
  <2>2. PriReady(k) /\ Kept(c, k) /\ HasSegments(k)
    BY <1>3, <1>6
  <2> HIDE DEF k
  <2> QED
    BY <2>1, <2>2, SendConfirmed, KeptTransitive
<1>7. CASE c.pPriState = "ConfDataWait" /\ ~(c.numRetryRemaining > 0)
  <2>1. r = EnterPri(CompleteSendOperation(u), "Idle")
    BY <1>7 DEF PriOnTimeout
  <2>2. /\ u \in LinkContextType /\ SameTx(c, u)
        /\ u.rspTimeoutTimer = c.rspTimeoutTimer
    BY OnStateChangeFacts
  <2> HIDE DEF u
  <2>3. PriReady(c)
    BY <1>2, <1>7 DEF PriResponseWait
  <2>4. PriReady(u) /\ Kept(c, u)
    BY <2>2, <2>3, ReadyAfter DEF PriReady
  <2> QED
    BY <2>1, <2>4, CompleteIdle, KeptTransitive
<1>8. CASE c.pPriState = "RequestLinkStatusWait"
  <2>1. r = EnterPri(c, "Idle")
    BY <1>8 DEF PriOnTimeout
  <2> QED
    BY <1>2, <1>8, <2>1, PriIdle DEF PriResponseWait
<1> QED
  BY <1>1, <1>4, <1>5, <1>6, <1>7, <1>8 DEF PriResponseWait

-------------------------------------------------------------------------------
\* What every operator leaves alone while the channel stays as it is.
SameSession(c, d) ==
    /\ d.isOnline = c.isOnline /\ d.keepAliveTimer = c.keepAliveTimer
    /\ c.isOnline /\ Live(c) => Live(d)
    /\ c.tx # <<>> => d.tx # <<>>

LEMMA SessionTransitive ==
    ASSUME NEW c, NEW d, NEW e, SameSession(c, d), SameSession(d, e)
    PROVE  SameSession(c, e)
  BY DEF SameSession

LEMMA KeptSession ==
    ASSUME NEW c, NEW d, Kept(c, d)
    PROVE  /\ SameSession(c, d)
           /\ d.pSecState = c.pSecState
           /\ SecAccounting(c) => SecAccounting(d)
  BY DEF Kept, SameSession, SecAccounting

\* An answer queued while none is out: the mirror image of QueuePrimary.
LEMMA QueueSecondary ==
    ASSUME NEW c \in LinkContextType, Chan(c), ~c.clobbered, ~SecFrameOut(c),
           NEW f \in Frame, NEW d, d = QueueTransmit(c, f, "Secondary")
    PROVE  /\ d \in LinkContextType /\ SameRest(c, d) /\ SameSession(c, d)
           /\ Chan(d) /\ ~d.clobbered /\ SecFrameOut(d)
           /\ PriFrameOut(d) <=> PriFrameOut(c)
<1>2. d \in LinkContextType /\ SameRest(c, d)
  BY QueueType DEF Station
<1>3. ~BufferInUse(c, "Secondary")
  <2>1. c.tx \in Seq([station : Station, frame : Frame])
    BY DEF LinkContextType
  <2> QED
    BY <2>1 DEF BufferInUse, Pending, Chan, SecFrameOut
<1>4. d.clobbered = FALSE
  BY <1>3 DEF QueueTransmit, BeginTransmit, LinkContextType
<1>5. ASSUME c.txMode = "Idle"
      PROVE  /\ Chan(d) /\ SecFrameOut(d) /\ SameSession(c, d)
             /\ PriFrameOut(d) <=> PriFrameOut(c)
  <2>1. d.txMode = "Secondary" /\ d.pendingPriTx = <<>> /\ d.pendingSecTx = <<>>
    BY <1>5 DEF QueueTransmit, BeginTransmit, LinkContextType, Chan
  <2>2. c.tx = <<>> /\ c.pendingPriTx = <<>>
    BY <1>5 DEF Chan
  <2> DEFINE x == [station |-> "Secondary", frame |-> f]
  <2>3. /\ c.isOnline => d.tx = Append(c.tx, x)
        /\ ~c.isOnline => d.tx = c.tx
    BY <1>5 DEF QueueTransmit, BeginTransmit, LinkContextType
  <2>4. x.station = "Secondary"
    OBVIOUS
  <2> HIDE DEF x
  <2>5. Append(<<>>, x) = <<x>>
    OBVIOUS
  <2> DEFINE y == <<x>>
  <2>6. c.isOnline => d.tx = y
    BY <2>2, <2>3, <2>5
  <2>7. y # <<>> /\ Len(y) = 1 /\ y[1] = x
    OBVIOUS
  <2> HIDE DEF y
  <2>8. c.isOnline => d.tx # <<>> /\ Len(d.tx) = 1 /\ d.tx[1].station = "Secondary"
    BY <2>4, <2>6, <2>7
  <2>9. ~c.isOnline => d.tx = <<>>
    BY <2>2, <2>3
  <2>10. Chan(d) /\ SecFrameOut(d)
    BY <2>1, <2>8, <2>9 DEF Chan, SecFrameOut
  <2> QED
    BY <1>2, <1>5, <2>1, <2>2, <2>8, <2>10 DEF PriFrameOut, SameSession, Live, SameRest
<1>6. ASSUME c.txMode # "Idle"
      PROVE  /\ Chan(d) /\ SecFrameOut(d) /\ SameSession(c, d)
             /\ PriFrameOut(d) <=> PriFrameOut(c)
  <2>1. /\ d.txMode = c.txMode /\ d.tx = c.tx /\ d.pendingSecTx = <<f>>
        /\ d.pendingPriTx = c.pendingPriTx
    BY <1>6 DEF QueueTransmit, LinkContextType
  <2>2. c.txMode = "Primary" /\ <<f>> # <<>>
    BY <1>6 DEF SecFrameOut, LinkContextType
  <2> QED
    BY <1>2, <2>1, <2>2 DEF Chan, PriFrameOut, SecFrameOut, SameSession, Live, SameRest
<1> QED
  BY <1>2, <1>4, <1>5, <1>6

\* The same about Base: the primary station is not disturbed.
LEMMA SecQueue ==
    ASSUME NEW c, Base(c), SecAccounting(c), c.pSecState \notin SecTransmitWait,
           NEW f \in Frame, NEW d, d = QueueTransmit(c, f, "Secondary")
    PROVE  Base(d) /\ SecFrameOut(d) /\ SameSession(c, d) /\ d.pSecState = c.pSecState
<1>1. c \in LinkContextType /\ Chan(c) /\ ~c.clobbered /\ ~SecFrameOut(c)
  BY DEF Base, SecAccounting
<1>2. /\ d \in LinkContextType /\ SameRest(c, d) /\ SameSession(c, d)
      /\ Chan(d) /\ ~d.clobbered /\ SecFrameOut(d)
      /\ PriFrameOut(d) <=> PriFrameOut(c)
  BY <1>1, QueueSecondary
<1>3. PriAccounting(c) /\ Waits(c) /\ Segs(c)
  BY DEF Base
<1>4. PriAccounting(d) /\ Waits(d) /\ Segs(d)
  BY <1>2, <1>3 DEF PriAccounting, Waits, Segs, HasSegments, SameRest
<1> QED
  BY <1>2, <1>4 DEF Base, SameRest

\* Fields of the secondary station that no part of the invariant mentions.
LEMMA NextReadFCB ==
    ASSUME NEW c, Base(c), NEW b \in BOOLEAN, NEW d, d = [c EXCEPT !.nextReadFCB = b]
    PROVE  /\ Base(d) /\ SameSession(c, d) /\ d.pSecState = c.pSecState
           /\ SecFrameOut(d) <=> SecFrameOut(c)
<1>1. c \in LinkContextType
  BY DEF Base
<1>2. /\ d \in LinkContextType /\ SameTx(c, d) /\ d.pPriState = c.pPriState
      /\ d.rspTimeoutTimer = c.rspTimeoutTimer /\ d.pSegments = c.pSegments
  BY <1>1 DEF LinkContextType, SameTx
<1>3. /\ Kept(c, d) /\ (Chan(c) => Chan(d)) /\ (PriFrameOut(d) <=> PriFrameOut(c))
      /\ (SecFrameOut(d) <=> SecFrameOut(c))
  BY <1>2, SameTxKept
<1>4. d.clobbered = c.clobbered
  BY <1>2 DEF SameTx
<1> QED
  BY <1>2, <1>3, <1>4, KeptSession DEF Base, PriAccounting, Waits, Segs, HasSegments

\* The secondary station enters a state that matches its frames.
LEMMA EnterSecFacts ==
    ASSUME NEW c, Base(c), NEW s \in SecState,
           s \in SecTransmitWait <=> SecFrameOut(c),
           NEW d, d = EnterSec(c, s)
    PROVE  Base(d) /\ SecAccounting(d) /\ SameSession(c, d)
<1>1. c \in LinkContextType
  BY DEF Base
<1>2. /\ d \in LinkContextType /\ d.pSecState = s /\ d.pPriState = c.pPriState
      /\ d.rspTimeoutTimer = c.rspTimeoutTimer /\ d.pSegments = c.pSegments
      /\ d.txMode = c.txMode /\ d.tx = c.tx /\ d.clobbered = c.clobbered
      /\ d.pendingPriTx = c.pendingPriTx /\ d.pendingSecTx = c.pendingSecTx
      /\ d.isOnline = c.isOnline /\ d.keepAliveTimer = c.keepAliveTimer
  BY <1>1 DEF LinkContextType, EnterSec
<1>3. PriAccounting(c) /\ Waits(c) /\ Segs(c) /\ Chan(c) /\ ~c.clobbered
  BY DEF Base
<1>4. PriAccounting(d) /\ Waits(d) /\ Segs(d)
  BY <1>2, <1>3 DEF PriAccounting, Waits, Segs, HasSegments, PriFrameOut
<1>5. Chan(d) /\ ~d.clobbered
  BY <1>2, <1>3 DEF Chan
<1>6. SecAccounting(d)
  BY <1>2 DEF SecAccounting, SecFrameOut
<1>7. SameSession(c, d)
  BY <1>2 DEF SameSession, Live
<1> QED
  BY <1>2, <1>4, <1>5, <1>6, <1>7 DEF Base

-------------------------------------------------------------------------------
\* LinkLayer::Send, also when it is called from within another handler.
LEMMA SendFacts ==
    ASSUME NEW c, Base(c), NEW s \in Segments, NEW r, r = Send(c, s)
    PROVE  Base(r) /\ Kept(c, r) /\ (Work(c) => Work(r))
<1>1. CASE ~c.isOnline \/ HasSegments(c)
  <2>1. r = c
    BY <1>1 DEF Send
  <2> QED
    BY <2>1 DEF Kept
<1>2. CASE c.isOnline /\ ~HasSegments(c)
  <2> DEFINE d == [c EXCEPT !.pSegments = s]
  <2>1. s # NoSegments
    BY DEF Segments, NoSegments
  <2>2. c \in LinkContextType
    BY DEF Base
  <2>3. /\ d \in LinkContextType /\ SameTx(c, d) /\ d.pPriState = c.pPriState
        /\ d.rspTimeoutTimer = c.rspTimeoutTimer /\ d.pSegments = s
    BY <2>2 DEF LinkContextType, SameTx
  <2>4. r = TryStartTransmission(d)
    BY <1>2 DEF Send
  <2> HIDE DEF d
  <2>5. Kept(c, d) /\ (Chan(c) => Chan(d)) /\ (PriFrameOut(d) <=> PriFrameOut(c))
    BY <2>3, SameTxKept
  <2>6. d.clobbered = c.clobbered /\ Segs(d)
    BY <2>1, <2>3 DEF SameTx, Segs, HasSegments
  <2>7. Base(d)
    BY <2>3, <2>5, <2>6 DEF Base, PriAccounting, Waits
  <2> QED
    BY <2>4, <2>5, <2>7, TryStart, KeptTransitive
<1> QED
  BY <1>1, <1>2

LEMMA ReplyFacts ==
    ASSUME NEW c, Base(c), NEW s \in Segments \cup {NoSegments}, NEW r, r = Reply(c, s)
    PROVE  Base(r) /\ Kept(c, r) /\ (Work(c) => Work(r))
<1>1. CASE s = NoSegments
  <2>1. r = c
    BY <1>1 DEF Reply
  <2> QED
    BY <2>1 DEF Kept
<1>2. CASE s # NoSegments
  <2>1. r = Send(c, s) /\ s \in Segments
    BY <1>2 DEF Reply
  <2> QED
    BY <2>1, SendFacts
<1> QED
  BY <1>1, <1>2

LEMMA PushDataUpFacts ==
    ASSUME NEW c, Base(c), NEW data \in Segment, NEW s \in Segments \cup {NoSegments},
           NEW r, r = PushDataUp(c, data, s)
    PROVE  Base(r) /\ Kept(c, r)
<1> DEFINE u == Append(c.up, data)
           d == [c EXCEPT !.up = u]
<1>1. c \in LinkContextType
  BY DEF Base
<1>2. u \in Seq(Segment)
  <2>1. c.up \in Seq(Segment)
    BY <1>1 DEF LinkContextType
  <2> QED
    BY <2>1
<1>3. r = Reply(d, s)
  BY DEF PushDataUp
<1> HIDE DEF u
<1>4. /\ d \in LinkContextType /\ SameTx(c, d) /\ d.pPriState = c.pPriState
      /\ d.rspTimeoutTimer = c.rspTimeoutTimer /\ d.pSegments = c.pSegments
  BY <1>1, <1>2 DEF LinkContextType, SameTx
<1> HIDE DEF d
<1>5. Kept(c, d) /\ (Chan(c) => Chan(d)) /\ (PriFrameOut(d) <=> PriFrameOut(c))
  BY <1>4, SameTxKept
<1>6. d.clobbered = c.clobbered
  BY <1>4 DEF SameTx
<1>7. Base(d)
  BY <1>4, <1>5, <1>6 DEF Base, PriAccounting, Waits, Segs, HasSegments
<1> QED
  BY <1>3, <1>5, <1>7, ReplyFacts, KeptTransitive

-------------------------------------------------------------------------------
\* The events of the secondary station.

LEMMA AnswerQueued ==
    ASSUME NEW c, Base(c), SecAccounting(c), c.pSecState \notin SecTransmitWait,
           NEW dest \in Address, NEW d, d \in {QueueAck(c, dest), QueueLinkStatus(c, dest)}
    PROVE  Base(d) /\ SecFrameOut(d) /\ SameSession(c, d) /\ d.pSecState = c.pSecState
<1>1. c \in LinkContextType
  BY DEF Base
<1>2. CASE d = QueueAck(c, dest)
  <2> DEFINE f == FormatHeader(c, "SEC_ACK", FALSE, FALSE, dest, NoData)
  <2>1. f \in Frame
    BY <1>1, PlainFrame
  <2>2. d = QueueTransmit(c, f, "Secondary")
    BY <1>2 DEF QueueAck
  <2> HIDE DEF f
  <2> QED
    BY <2>1, <2>2, SecQueue
<1>3. CASE d = QueueLinkStatus(c, dest)
  <2> DEFINE f == FormatHeader(c, "SEC_LINK_STATUS", FALSE, FALSE, dest, NoData)
  <2>1. f \in Frame
    BY <1>1, PlainFrame
  <2>2. d = QueueTransmit(c, f, "Secondary")
    BY <1>3 DEF QueueLinkStatus
  <2> HIDE DEF f
  <2> QED
    BY <2>1, <2>2, SecQueue
<1> QED
  BY <1>2, <1>3

LEMMA SecWaitStates ==
    /\ "TransmitWaitReset" \in SecState /\ "TransmitWaitReset" \in SecTransmitWait
    /\ "TransmitWaitNotReset" \in SecState /\ "TransmitWaitNotReset" \in SecTransmitWait
    /\ "Reset" \notin SecTransmitWait /\ "NotReset" \notin SecTransmitWait
    /\ "Reset" \in SecState /\ "NotReset" \in SecState
  BY DEF SecState, SecTransmitWait

LEMMA SecResetLink ==
    ASSUME NEW c, Base(c), SecAccounting(c), NEW src \in Address,
           NEW r, r = OnResetLinkStates(c, src)
    PROVE  Base(r) /\ SecAccounting(r) /\ SameSession(c, r)
<1> DEFINE q == QueueAck(c, src)
           d == [q EXCEPT !.nextReadFCB = TRUE]
<1>1. CASE c.pSecState \in SecTransmitWait
  <2>1. r = c
    BY <1>1 DEF OnResetLinkStates
  <2> QED
    BY <2>1 DEF SameSession
<1>2. CASE c.pSecState \notin SecTransmitWait
  <2>1. r = EnterSec(d, "TransmitWaitReset")
    BY <1>2 DEF OnResetLinkStates
  <2>2. Base(q) /\ SecFrameOut(q) /\ SameSession(c, q)
    BY <1>2, AnswerQueued
  <2> HIDE DEF q
  <2>3. Base(d) /\ SecFrameOut(d) /\ SameSession(q, d)
    BY <2>2, NextReadFCB
  <2> HIDE DEF d
  <2> QED
    BY <2>1, <2>2, <2>3, SecWaitStates, EnterSecFacts, SessionTransitive
<1> QED
  BY <1>1, <1>2

LEMMA SecRequestLinkStatus ==
    ASSUME NEW c, Base(c), SecAccounting(c), NEW src \in Address,
           NEW r, r = OnRequestLinkStatus(c, src)
    PROVE  Base(r) /\ SecAccounting(r) /\ SameSession(c, r)
<1> DEFINE q == QueueLinkStatus(c, src)
<1>1. CASE c.pSecState \notin {"NotReset", "Reset"}
  <2>1. r = c
    BY <1>1 DEF OnRequestLinkStatus
  <2> QED
    BY <2>1 DEF SameSession
<1>2. CASE c.pSecState \in {"NotReset", "Reset"}
  <2>1. r \in {EnterSec(q, "TransmitWaitNotReset"), EnterSec(q, "TransmitWaitReset")}
    BY <1>2 DEF OnRequestLinkStatus
  <2>2. Base(q) /\ SecFrameOut(q) /\ SameSession(c, q)
    BY <1>2, SecWaitStates, AnswerQueued
  <2> HIDE DEF q
  <2> QED
    BY <2>1, <2>2, SecWaitStates, EnterSecFacts, SessionTransitive
<1> QED
  BY <1>1, <1>2

LEMMA SecTestLink ==
    ASSUME NEW c, Base(c), SecAccounting(c), NEW src \in Address, NEW fcb,
           NEW r, r = OnTestLinkStatus(c, src, fcb)
    PROVE  Base(r) /\ SecAccounting(r) /\ SameSession(c, r)
<1> DEFINE q == QueueAck(c, src)
           d == [q EXCEPT !.nextReadFCB = ~q.nextReadFCB]
<1>1. CASE ~(c.pSecState = "Reset" /\ c.nextReadFCB = fcb)
  <2>1. r = c
    BY <1>1 DEF OnTestLinkStatus
  <2> QED
    BY <2>1 DEF SameSession
<1>2. CASE c.pSecState = "Reset" /\ c.nextReadFCB = fcb
  <2>1. r = EnterSec(d, "TransmitWaitReset")
    BY <1>2 DEF OnTestLinkStatus
  <2>2. Base(q) /\ SecFrameOut(q) /\ SameSession(c, q)
    BY <1>2, SecWaitStates, AnswerQueued
  <2> HIDE DEF q
  <2>3. Base(d) /\ SecFrameOut(d) /\ SameSession(q, d)
    BY <2>2, NextReadFCB
  <2> HIDE DEF d
  <2> QED
    BY <2>1, <2>2, <2>3, SecWaitStates, EnterSecFacts, SessionTransitive
<1> QED
  BY <1>1, <1>2

LEMMA SecConfirmedData ==
    ASSUME NEW c, Base(c), SecAccounting(c), NEW src \in Address, NEW fcb,
           NEW data \in Segment, NEW s \in Segments \cup {NoSegments},
           NEW r, r = OnConfirmedUserData(c, src, fcb, data, s)
    PROVE  Base(r) /\ SecAccounting(r) /\ SameSession(c, r)
<1> DEFINE q == QueueAck(c, src)
           d == [q EXCEPT !.nextReadFCB = ~q.nextReadFCB]
           u == PushDataUp(d, data, s)
<1>1. CASE c.pSecState # "Reset"
  <2>1. r = c
    BY <1>1 DEF OnConfirmedUserData
  <2> QED
    BY <2>1 DEF SameSession
<1>2. CASE c.pSecState = "Reset"
  <2>1. r \in {EnterSec(u, "TransmitWaitReset"), EnterSec(q, "TransmitWaitReset")}
    BY <1>2 DEF OnConfirmedUserData
  <2>2. Base(q) /\ SecFrameOut(q) /\ SameSession(c, q)
    BY <1>2, SecWaitStates, AnswerQueued
  <2> HIDE DEF q
  <2>3. Base(d) /\ SecFrameOut(d) /\ SameSession(q, d)
    BY <2>2, NextReadFCB
  <2> HIDE DEF d
  <2>4. Base(u) /\ Kept(d, u)
    BY <2>3, PushDataUpFacts
  <2>5. SecFrameOut(u) /\ SameSession(d, u)
    BY <2>3, <2>4, KeptSession DEF Kept
  <2> HIDE DEF u
  <2> QED
    BY <2>1, <2>2, <2>3, <2>4, <2>5, SecWaitStates, EnterSecFacts, SessionTransitive
<1> QED
  BY <1>1, <1>2

-------------------------------------------------------------------------------
\* LinkContext::OnFrame.
LEMMA FrameFacts ==
    ASSUME NEW c, Base(c), SecAccounting(c), Work(c), NEW f \in Frame,
           NEW s \in Segments \cup {NoSegments}, NEW r, r = OnFrame(c, f, s)
    PROVE  Full(r) /\ SameSession(c, r)
<1> DEFINE d == Dispatch(c, f, s)
<1>1. f \in LinkHeader /\ WellFormed(f)
  BY DEF Frame
<1>2. f.func \in SecFunction \cup PriFunction /\ f.src \in Address
      /\ f.data \in Segment \cup {NoData}
  BY <1>1 DEF LinkHeader
<1>3. f.func \in {"PRI_CONFIRMED_USER_DATA", "PRI_UNCONFIRMED_USER_DATA"} => f.data \in Segment
  BY <1>1, <1>2 DEF WellFormed
<1>4. Base(d) /\ SecAccounting(d) /\ SameSession(c, d)
  <2>1. CASE f.func \in SecFunction
    <3>1. d \in {PriOnAck(c), PriOnNack(c, f.fcvdfc), PriOnStatus(c)}
      BY <2>1 DEF Dispatch, SecFunction
    <3> HIDE DEF d
    <3> QED
      BY <3>1, PriAnswer, KeptSession
  <2>2. CASE f.func = "PRI_TEST_LINK_STATES"
    <3>1. d = OnTestLinkStatus(c, f.src, f.fcb)
      BY <2>2 DEF Dispatch
    <3> QED
      BY <3>1, <1>2, SecTestLink
  <2>3. CASE f.func = "PRI_RESET_LINK_STATES"
    <3>1. d = OnResetLinkStates(c, f.src)
      BY <2>3 DEF Dispatch
    <3> QED
      BY <3>1, <1>2, SecResetLink
  <2>4. CASE f.func = "PRI_REQUEST_LINK_STATUS"
    <3>1. d = OnRequestLinkStatus(c, f.src)
      BY <2>4 DEF Dispatch
    <3> QED
      BY <3>1, <1>2, SecRequestLinkStatus
  <2>5. CASE f.func = "PRI_CONFIRMED_USER_DATA"
    <3>1. d = OnConfirmedUserData(c, f.src, f.fcb, f.data, s)
      BY <2>5 DEF Dispatch
    <3> QED
      BY <2>5, <3>1, <1>2, <1>3, SecConfirmedData
  <2>6. CASE f.func = "PRI_UNCONFIRMED_USER_DATA"
    <3>1. d = PushDataUp(c, f.data, s)
      BY <2>6 DEF Dispatch
    <3> QED
      BY <2>6, <3>1, <1>3, PushDataUpFacts, KeptSession
  <2> QED
    BY <1>2, <2>1, <2>2, <2>3, <2>4, <2>5, <2>6 DEF PriFunction
<1> HIDE DEF d
<1>5. CASE ~Accepts(c, f)
  <2>1. r = c
    BY <1>5 DEF OnFrame
  <2> QED
    BY <2>1 DEF Full, SameSession
<1>6. CASE Accepts(c, f)
  <2>1. r = TryStartTransmission(d)
    BY <1>6 DEF OnFrame, d
  <2> QED
    BY <1>4, <2>1, TryStart, KeptSession, SessionTransitive DEF Full
<1> QED
  BY <1>5, <1>6

-------------------------------------------------------------------------------
\* LinkContext::OnTxReady.

\* A parked frame goes to a channel that is free.
LEMMA PendingSent ==
    ASSUME NEW c \in LinkContextType, c.txMode = "Idle", c.tx = <<>>,
           NEW p \in Station, Pending(c, p) # <<>>, NEW d, d = TryPendingTx(c, p)
    PROVE  /\ d \in LinkContextType /\ SameRest(c, d) /\ d.clobbered = c.clobbered
           /\ d.txMode = p
           /\ d.pendingPriTx = IF p = "Primary" THEN <<>> ELSE c.pendingPriTx
           /\ d.pendingSecTx = IF p = "Primary" THEN c.pendingSecTx ELSE <<>>
           /\ d.tx # <<>> => /\ Len(d.tx) = 1 /\ d.tx[1].station = p
                            /\ d.tx[1].frame = Head(Pending(c, p))
           /\ c.isOnline => d.tx # <<>>
<1> DEFINE f == Head(Pending(c, p))
           x == [station |-> p, frame |-> f]
           y == <<x>>
           e == [c EXCEPT !.txMode = p]
           b == IF c.isOnline THEN [e EXCEPT !.tx = y] ELSE e
<1>1. Pending(c, p) \in Seq(Frame)
  BY DEF Pending, LinkContextType
<1>2. f \in Frame
  BY <1>1
<1>3. x \in [station : Station, frame : Frame] /\ x.station = p /\ x.frame = f
  BY <1>2
<1>4. d = IF p = "Primary" THEN [BeginTransmit(e, f, p) EXCEPT !.pendingPriTx = <<>>]
                           ELSE [BeginTransmit(e, f, p) EXCEPT !.pendingSecTx = <<>>]
  BY DEF TryPendingTx
<1>5. /\ e \in LinkContextType /\ SameRest(c, e) /\ e.clobbered = c.clobbered
      /\ e.txMode = p /\ e.tx = <<>>
      /\ e.pendingPriTx = c.pendingPriTx /\ e.pendingSecTx = c.pendingSecTx
  <2>1. p \in {"Idle", "Primary", "Secondary"}
    BY DEF Station
  <2> QED
    BY <2>1 DEF LinkContextType, SameRest
<1>6. BeginTransmit(e, f, p) = b
  <2>1. BeginTransmit(e, f, p) = IF e.isOnline THEN [e EXCEPT !.tx = Append(e.tx, x)] ELSE e
    BY DEF BeginTransmit
  <2> HIDE DEF e, x
  <2>2. Append(<<>>, x) = y
    OBVIOUS
  <2> HIDE DEF y
  <2> QED
    BY <2>1, <2>2, <1>5 DEF SameRest
<1> HIDE DEF f, x, e
<1>7. /\ y \in Seq([station : Station, frame : Frame])
      /\ y # <<>> /\ Len(y) = 1 /\ y[1] = x
  BY <1>3
<1> HIDE DEF y
<1>8. /\ b \in LinkContextType /\ SameRest(c, b) /\ b.clobbered = c.clobbered
      /\ b.txMode = p
      /\ b.pendingPriTx = c.pendingPriTx /\ b.pendingSecTx = c.pendingSecTx
      /\ b.tx = IF c.isOnline THEN y ELSE <<>>
  <2>1. CASE c.isOnline
    <3> DEFINE g == [e EXCEPT !.tx = y]
    <3>1. b = g
      BY <2>1
    <3>2. /\ g \in LinkContextType /\ SameRest(e, g) /\ g.clobbered = e.clobbered
          /\ g.txMode = e.txMode /\ g.tx = y
          /\ g.pendingPriTx = e.pendingPriTx /\ g.pendingSecTx = e.pendingSecTx
      BY <1>5, <1>7 DEF LinkContextType, SameRest
    <3> HIDE DEF g, b
    <3>3. SameRest(c, g)
      BY <1>5, <3>2, SameRestTransitive
    <3> QED
      BY <1>5, <2>1, <3>1, <3>2, <3>3
  <2>2. CASE ~c.isOnline
    <3>1. b = e
      BY <2>2
    <3> HIDE DEF b
    <3> QED
      BY <1>5, <2>2, <3>1
  <2> QED
    BY <2>1, <2>2
<1> HIDE DEF b
<1>9. <<>> \in Seq(Frame)
  OBVIOUS
<1>10. /\ d \in LinkContextType /\ SameRest(b, d) /\ d.clobbered = b.clobbered
       /\ d.txMode = b.txMode /\ d.tx = b.tx
       /\ d.pendingPriTx = IF p = "Primary" THEN <<>> ELSE b.pendingPriTx
       /\ d.pendingSecTx = IF p = "Primary" THEN b.pendingSecTx ELSE <<>>
  <2> DEFINE none == <<>>
  <2>1. none \in Seq(Frame)
    BY <1>9
  <2>2. d = IF p = "Primary" THEN [b EXCEPT !.pendingPriTx = none]
                            ELSE [b EXCEPT !.pendingSecTx = none]
    BY <1>4, <1>6
  <2> HIDE DEF none
  <2>3. CASE p = "Primary"
    <3>1. d = [b EXCEPT !.pendingPriTx = none]
      BY <2>2, <2>3
    <3>2. /\ d \in LinkContextType /\ SameRest(b, d) /\ d.clobbered = b.clobbered
          /\ d.txMode = b.txMode /\ d.tx = b.tx
          /\ d.pendingPriTx = none /\ d.pendingSecTx = b.pendingSecTx
      BY <1>8, <2>1, <3>1 DEF LinkContextType, SameRest
    <3> QED
      BY <2>3, <3>2 DEF none
  <2>4. CASE p # "Primary"
    <3>1. d = [b EXCEPT !.pendingSecTx = none]
      BY <2>2, <2>4
    <3>2. /\ d \in LinkContextType /\ SameRest(b, d) /\ d.clobbered = b.clobbered
          /\ d.txMode = b.txMode /\ d.tx = b.tx
          /\ d.pendingPriTx = b.pendingPriTx /\ d.pendingSecTx = none
      BY <1>8, <2>1, <3>1 DEF LinkContextType, SameRest
    <3> QED
      BY <2>4, <3>2 DEF none
  <2> QED
    BY <2>3, <2>4
<1>11. /\ d.tx # <<>> => d.tx = y
       /\ c.isOnline => d.tx = y
  BY <1>8, <1>10
<1>12. SameRest(c, d)
  BY <1>8, <1>10 DEF SameRest
<1>13. d.tx # <<>> => d.tx[1].frame = Head(Pending(c, p))
  BY <1>3, <1>7, <1>11 DEF f
<1> QED
  BY <1>3, <1>7, <1>8, <1>10, <1>11, <1>12, <1>13

LEMMA PendingNone ==
    ASSUME NEW c, NEW p, c.txMode # "Idle" \/ Pending(c, p) = <<>>
    PROVE  TryPendingTx(c, p) = c
  BY DEF TryPendingTx

\* The channel has written a station's frame and takes up the one that was
\* parked behind it.
PriWritten(c, d) ==
    /\ c.txMode = "Primary" /\ c.pendingPriTx = <<>>
    /\ d.pendingPriTx = <<>> /\ d.pendingSecTx = <<>>
    /\ IF c.pendingSecTx = <<>> THEN d.txMode = "Idle"
       ELSE /\ d.txMode = "Secondary"
            /\ c.isOnline => d.tx[1].frame = Head(c.pendingSecTx)
SecWritten(c, d) ==
    /\ c.txMode = "Secondary" /\ c.pendingSecTx = <<>>
    /\ d.pendingPriTx = <<>> /\ d.pendingSecTx = <<>>
    /\ IF c.pendingPriTx = <<>> THEN d.txMode = "Idle"
       ELSE /\ d.txMode = "Primary"
            /\ c.isOnline => d.tx[1].frame = Head(c.pendingPriTx)

LEMMA WriteDone ==
    ASSUME NEW c, Full(c), c.tx # <<>>, NEW r, r = OnWriteComplete(c)
    PROVE  \E d : /\ d \in LinkContextType /\ SameRest(c, d) /\ ~d.clobbered
                  /\ Chan(d) /\ (c.isOnline => Live(d))
                  /\ \/ PriWritten(c, d) /\ r = TryStartTransmission(PriOnTxReady(d))
                     \/ SecWritten(c, d) /\ r = TryStartTransmission(SecOnTxReady(d))
<1> DEFINE a == [c EXCEPT !.tx = Tail(@)]
           b == [a EXCEPT !.txMode = "Idle"]
           s == TryPendingTx(b, "Secondary")
           d == TryPendingTx(s, "Primary")
           x == IF c.txMode = "Primary" THEN PriOnTxReady(d) ELSE SecOnTxReady(d)
<1>1. c \in LinkContextType /\ Chan(c) /\ ~c.clobbered
  BY DEF Full, Base
<1>2. Tail(c.tx) = <<>>
  <2>1. c.tx \in Seq([station : Station, frame : Frame]) /\ Len(c.tx) = 1
    BY <1>1 DEF Chan, LinkContextType
  <2>2. Tail(c.tx) \in Seq([station : Station, frame : Frame]) /\ Len(Tail(c.tx)) = 0
    BY <2>1
  <2> DEFINE t == Tail(c.tx)
  <2> HIDE DEF t
  <2>3. t \in Seq([station : Station, frame : Frame]) /\ Len(t) = 0
    BY <2>2 DEF t
  <2>4. t = <<>>
    BY <2>3
  <2> QED
    BY <2>4 DEF t
<1>3. c.txMode \in {"Primary", "Secondary"}
  BY <1>1 DEF Chan, LinkContextType
<1>4. /\ a \in LinkContextType /\ SameRest(c, a) /\ a.clobbered = c.clobbered
      /\ a.txMode = c.txMode /\ a.tx = <<>>
      /\ a.pendingPriTx = c.pendingPriTx /\ a.pendingSecTx = c.pendingSecTx
  <2> DEFINE none == <<>>
  <2>1. none \in Seq([station : Station, frame : Frame])
    OBVIOUS
  <2>2. a = [c EXCEPT !.tx = none]
    BY <1>2
  <2> HIDE DEF none, a
  <2>3. /\ a \in LinkContextType /\ SameRest(c, a) /\ a.clobbered = c.clobbered
        /\ a.txMode = c.txMode /\ a.tx = none
        /\ a.pendingPriTx = c.pendingPriTx /\ a.pendingSecTx = c.pendingSecTx
    BY <1>1, <2>1, <2>2 DEF LinkContextType, SameRest
  <2> QED
    BY <2>3 DEF none
<1>5. r = TryStartTransmission(x)
  <2>1. r = OnTxReady(a)
    BY DEF OnWriteComplete
  <2>2. a.txMode = c.txMode /\ a.txMode # "Idle"
    BY <1>3, <1>4
  <2> HIDE DEF a
  <2> QED
    BY <2>1, <2>2 DEF OnTxReady
<1>6. /\ b \in LinkContextType /\ SameRest(c, b) /\ b.clobbered = c.clobbered
      /\ b.txMode = "Idle" /\ b.tx = <<>>
      /\ b.pendingPriTx = c.pendingPriTx /\ b.pendingSecTx = c.pendingSecTx
  <2> HIDE DEF a
  <2> QED
    BY <1>4 DEF LinkContextType, SameRest
<1> HIDE DEF a, b
<1>7. CASE c.txMode = "Primary"
  <2>1. c.pendingPriTx = <<>>
    BY <1>1, <1>7 DEF Chan
  <2>2. /\ d \in LinkContextType /\ SameRest(c, d) /\ ~d.clobbered /\ Chan(d)
        /\ (c.isOnline => Live(d)) /\ PriWritten(c, d)
    <3>1. CASE c.pendingSecTx = <<>>
      <4>1. Pending(b, "Secondary") = <<>> /\ Pending(b, "Primary") = <<>>
        BY <1>6, <2>1, <3>1 DEF Pending
      <4>2. d = b
        BY <4>1, PendingNone
      <4> HIDE DEF d
      <4> QED
        BY <1>1, <1>6, <1>7, <2>1, <3>1, <4>2 DEF Chan, Live, PriWritten
    <3>2. CASE c.pendingSecTx # <<>>
      <4>1. Pending(b, "Secondary") # <<>> /\ Pending(b, "Secondary") = c.pendingSecTx
        BY <1>6, <3>2 DEF Pending
      <4>2. /\ s \in LinkContextType /\ SameRest(b, s) /\ s.clobbered = b.clobbered
            /\ s.txMode = "Secondary" /\ s.pendingPriTx = b.pendingPriTx
            /\ s.pendingSecTx = <<>>
            /\ s.tx # <<>> => /\ Len(s.tx) = 1 /\ s.tx[1].station = "Secondary"
                             /\ s.tx[1].frame = Head(c.pendingSecTx)
            /\ b.isOnline => s.tx # <<>>
        BY <1>6, <4>1, PendingSent DEF Station
      <4> HIDE DEF s
      <4>3. d = s
        BY <4>2, PendingNone
      <4> HIDE DEF d
      <4>4. SameRest(c, d) /\ b.isOnline = c.isOnline
        BY <1>6, <4>2, <4>3 DEF SameRest
      <4>5. Chan(d) /\ (c.isOnline => Live(d))
        BY <1>6, <2>1, <4>2, <4>3, <4>4 DEF Chan, Live
      <4>6. PriWritten(c, d)
        BY <1>6, <1>7, <2>1, <3>2, <4>2, <4>3, <4>4 DEF PriWritten
      <4> QED
        BY <1>1, <1>6, <4>2, <4>3, <4>4, <4>5, <4>6
    <3> QED
      BY <3>1, <3>2
  <2>3. r = TryStartTransmission(PriOnTxReady(d))
    BY <1>5, <1>7
  <2> HIDE DEF d
  <2> QED
    BY <2>2, <2>3
<1>8. CASE c.txMode = "Secondary"
  <2>1. c.pendingSecTx = <<>>
    BY <1>1, <1>8 DEF Chan
  <2>2. s = b
    BY <1>6, <2>1, PendingNone DEF Pending
  <2> HIDE DEF s
  <2>3. /\ d \in LinkContextType /\ SameRest(c, d) /\ ~d.clobbered /\ Chan(d)
        /\ (c.isOnline => Live(d)) /\ SecWritten(c, d)
    <3>1. CASE c.pendingPriTx = <<>>
      <4>1. Pending(b, "Primary") = <<>>
        BY <1>6, <3>1 DEF Pending
      <4>2. d = b
        BY <2>2, <4>1, PendingNone
      <4> HIDE DEF d
      <4> QED
        BY <1>1, <1>6, <1>8, <2>1, <3>1, <4>2 DEF Chan, Live, SecWritten
    <3>2. CASE c.pendingPriTx # <<>>
      <4>1. /\ Pending(b, "Primary") # <<>> /\ Pending(b, "Primary") = c.pendingPriTx
            /\ d = TryPendingTx(b, "Primary")
        BY <1>6, <2>2, <3>2 DEF Pending
      <4> HIDE DEF d
      <4>2. /\ d \in LinkContextType /\ SameRest(b, d) /\ d.clobbered = b.clobbered
            /\ d.txMode = "Primary" /\ d.pendingSecTx = b.pendingSecTx
            /\ d.pendingPriTx = <<>>
            /\ d.tx # <<>> => /\ Len(d.tx) = 1 /\ d.tx[1].station = "Primary"
                             /\ d.tx[1].frame = Head(c.pendingPriTx)
            /\ b.isOnline => d.tx # <<>>
        BY <1>6, <4>1, PendingSent DEF Station
      <4>4. SameRest(c, d) /\ b.isOnline = c.isOnline
        BY <1>6, <4>2 DEF SameRest
      <4>5. Chan(d) /\ (c.isOnline => Live(d))
        BY <1>6, <2>1, <4>2, <4>4 DEF Chan, Live
      <4>6. SecWritten(c, d)
        BY <1>6, <1>8, <2>1, <3>2, <4>2, <4>4 DEF SecWritten
      <4> QED
        BY <1>1, <1>6, <4>2, <4>4, <4>5, <4>6
    <3> QED
      BY <3>1, <3>2
  <2>4. r = TryStartTransmission(SecOnTxReady(d))
    BY <1>5, <1>8
  <2> HIDE DEF d
  <2> QED
    BY <2>3, <2>4
<1> QED
  BY <1>3, <1>7, <1>8

\* The primary station is told that its frame is written.
LEMMA PriWrittenFacts ==
    ASSUME NEW c, Full(c), NEW d \in LinkContextType, SameRest(c, d), ~d.clobbered,
           Chan(d), PriWritten(c, d), NEW x, x = PriOnTxReady(d)
    PROVE  /\ PriReady(d) /\ d.pPriState \in PriTransmitWait
           /\ Base(x) /\ Kept(d, x) /\ SecAccounting(d)
<1>1. Base(c) /\ SecAccounting(c)
  BY DEF Full
<1>2. ~PriFrameOut(d) /\ (SecFrameOut(d) <=> SecFrameOut(c)) /\ PriFrameOut(c)
  BY DEF PriWritten, PriFrameOut, SecFrameOut
<1>3. c.pPriState \in PriTransmitWait
  BY <1>1, <1>2 DEF Base, PriAccounting
<1>4. ~IsActive(c.rspTimeoutTimer) /\ Segs(c)
  BY <1>1, <1>3 DEF Base, Waits, PriTransmitWait, PriResponseWait
<1>5. PriReady(d) /\ Segs(d) /\ d.pPriState \in PriTransmitWait
  BY <1>2, <1>3, <1>4 DEF PriReady, Segs, HasSegments, SameRest
<1>6. Base(x) /\ Kept(d, x)
  BY <1>5, PriTxReady
<1>7. SecAccounting(d)
  BY <1>1, <1>2 DEF SecAccounting, SameRest
<1> QED
  BY <1>5, <1>6, <1>7

\* The secondary station is told that its frame is written.
LEMMA SecWrittenFacts ==
    ASSUME NEW c, Full(c), NEW d \in LinkContextType, SameRest(c, d), ~d.clobbered,
           Chan(d), SecWritten(c, d), NEW x, x = SecOnTxReady(d)
    PROVE  /\ d.pSecState \in SecTransmitWait
           /\ Base(x) /\ SecAccounting(x) /\ SameSession(d, x)
<1>1. Base(c) /\ SecAccounting(c)
  BY DEF Full
<1>2. ~SecFrameOut(d) /\ (PriFrameOut(d) <=> PriFrameOut(c)) /\ SecFrameOut(c)
  BY DEF SecWritten, PriFrameOut, SecFrameOut
<1>3. Base(d)
  BY <1>1, <1>2 DEF Base, PriAccounting, Waits, Segs, HasSegments, SameRest
<1>4. d.pSecState \in SecTransmitWait
  BY <1>1, <1>2 DEF SecAccounting, SameRest
<1>5. x \in {EnterSec(d, "Reset"), EnterSec(d, "NotReset")}
  BY <1>4 DEF SecOnTxReady, SecTransmitWait
<1>6. Base(x) /\ SecAccounting(x) /\ SameSession(d, x)
  BY <1>2, <1>3, <1>5, SecWaitStates, EnterSecFacts
<1> QED
  BY <1>4, <1>6

LEMMA WriteCompleteFacts ==
    ASSUME NEW c, Full(c), c.tx # <<>>, NEW r, r = OnWriteComplete(c)
    PROVE  Full(r) /\ r.isOnline = c.isOnline /\ r.keepAliveTimer = c.keepAliveTimer
           /\ (c.isOnline => Live(r))
<1>1. PICK d : /\ d \in LinkContextType /\ SameRest(c, d) /\ ~d.clobbered
               /\ Chan(d) /\ (c.isOnline => Live(d))
               /\ \/ PriWritten(c, d) /\ r = TryStartTransmission(PriOnTxReady(d))
                  \/ SecWritten(c, d) /\ r = TryStartTransmission(SecOnTxReady(d))
  BY WriteDone
<1>2. CASE PriWritten(c, d) /\ r = TryStartTransmission(PriOnTxReady(d))
  <2> DEFINE x == PriOnTxReady(d)
  <2>1. Base(x) /\ Kept(d, x) /\ SecAccounting(d) /\ r = TryStartTransmission(x)
    BY <1>1, <1>2, PriWrittenFacts
  <2> HIDE DEF x
  <2>2. Base(r) /\ Work(r) /\ Kept(x, r)
    BY <2>1, TryStart
  <2>3. SecAccounting(r) /\ SameSession(d, r)
    BY <2>1, <2>2, KeptTransitive, KeptSession
  <2> QED
    BY <1>1, <2>2, <2>3 DEF Full, SameSession, SameRest
<1>3. CASE SecWritten(c, d) /\ r = TryStartTransmission(SecOnTxReady(d))
  <2> DEFINE x == SecOnTxReady(d)
  <2>1. Base(x) /\ SecAccounting(x) /\ SameSession(d, x) /\ r = TryStartTransmission(x)
    BY <1>1, <1>3, SecWrittenFacts
  <2> HIDE DEF x
  <2>2. Base(r) /\ Work(r) /\ Kept(x, r)
    BY <2>1, TryStart
  <2>3. SecAccounting(r) /\ SameSession(d, r)
    BY <2>1, <2>2, KeptSession, SessionTransitive
  <2> QED
    BY <1>1, <2>2, <2>3 DEF Full, SameSession, SameRest
<1> QED
  BY <1>1, <1>2, <1>3

-------------------------------------------------------------------------------
\* The timer handlers and the handlers that bring the layer up and down.

LEMMA ResponseHandler ==
    ASSUME NEW c, Full(c), NEW t \in TimerRefType, ~IsActive(t),
           NEW d, d = [c EXCEPT !.rspTimeoutTimer = t],
           NEW r, r = OnResponseTimeout(d)
    PROVE  /\ Full(r) /\ SameSession(c, r)
           /\ c.pPriState = "Idle" => r = d
<1> DEFINE x == PriOnTimeout(d)
<1>1. Base(c) /\ SecAccounting(c) /\ Work(c) /\ c \in LinkContextType
  BY DEF Full, Base
<1>2. /\ d \in LinkContextType /\ SameTx(c, d) /\ d.pPriState = c.pPriState
      /\ d.rspTimeoutTimer = t /\ d.pSegments = c.pSegments
      /\ d.keepAliveTimeout = c.keepAliveTimeout
  BY <1>1 DEF LinkContextType, SameTx
<1>3. Kept(c, d) /\ (Chan(c) => Chan(d)) /\ (PriFrameOut(d) <=> PriFrameOut(c))
  BY <1>2, SameTxKept
<1>4. d.clobbered = c.clobbered
  BY <1>2 DEF SameTx
<1>5. Chan(d) /\ ~d.clobbered /\ PriAccounting(d) /\ Segs(d)
  BY <1>1, <1>2, <1>3, <1>4 DEF Base, PriAccounting, Segs, HasSegments
<1>6. Base(x) /\ Kept(d, x)
  BY <1>2, <1>5, PriTimeout
<1>7. r = TryStartTransmission(x)
  BY DEF OnResponseTimeout
<1>8. c.pPriState = "Idle" => r = d
  <2> SUFFICES ASSUME c.pPriState = "Idle" PROVE r = d
    OBVIOUS
  <2>1. x = d
    BY <1>2 DEF PriOnTimeout
  <2>2. ~HasSegments(d) /\ ~d.keepAliveTimeout
    BY <1>1, <1>2 DEF Work, HasSegments
  <2> HIDE DEF x
  <2> QED
    BY <1>7, <2>1, <2>2 DEF TryStartTransmission
<1> HIDE DEF x
<1>9. Base(r) /\ Work(r) /\ Kept(x, r)
  BY <1>6, <1>7, TryStart
<1>10. Kept(c, r)
  BY <1>3, <1>6, <1>9, KeptTransitive
<1> QED
  BY <1>1, <1>8, <1>9, <1>10, KeptSession DEF Full

LEMMA KeepAliveHandler ==
    ASSUME NEW c, Full(c), NEW t \in TimerRefType, NEW elapsed \in BOOLEAN,
           NEW d, d = [c EXCEPT !.keepAliveTimer = t],
           NEW r, r = OnKeepAliveTimeout(d, elapsed)
    PROVE  /\ Full(r) /\ r.isOnline = c.isOnline
           /\ c.isOnline /\ Live(c) => Live(r)
           /\ r.keepAliveTimer = TimerStart(t)
<1> DEFINE k == TimerStart(t)
           b == c.keepAliveTimeout \/ elapsed
           x == [c EXCEPT !.keepAliveTimeout = b, !.keepAliveTimer = k]
<1>1. Base(c) /\ SecAccounting(c) /\ c \in LinkContextType
  BY DEF Full, Base
<1>2. k \in TimerRefType /\ b \in BOOLEAN
  BY <1>1, TimerFacts DEF LinkContextType
<1>3. r = TryStartTransmission(x)
  <2>1. d.keepAliveTimeout = c.keepAliveTimeout /\ d.keepAliveTimer = t
    BY <1>1 DEF LinkContextType
  <2>2. [d EXCEPT !.keepAliveTimeout = d.keepAliveTimeout \/ elapsed,
                  !.keepAliveTimer = TimerStart(d.keepAliveTimer)]
        = [d EXCEPT !.keepAliveTimeout = b, !.keepAliveTimer = k]
    BY <2>1
  <2> HIDE DEF b, k
  <2>3. [d EXCEPT !.keepAliveTimeout = b, !.keepAliveTimer = k] = x
    BY <1>1 DEF LinkContextType
  <2> HIDE DEF x
  <2> QED
    BY <2>2, <2>3 DEF OnKeepAliveTimeout
<1> HIDE DEF k, b
<1>4. /\ x \in LinkContextType /\ x.pPriState = c.pPriState /\ x.pSecState = c.pSecState
      /\ x.rspTimeoutTimer = c.rspTimeoutTimer /\ x.pSegments = c.pSegments
      /\ x.txMode = c.txMode /\ x.tx = c.tx /\ x.clobbered = c.clobbered
      /\ x.pendingPriTx = c.pendingPriTx /\ x.pendingSecTx = c.pendingSecTx
      /\ x.isOnline = c.isOnline /\ x.keepAliveTimer = k
  BY <1>1, <1>2 DEF LinkContextType
<1> HIDE DEF x
<1>5. Base(x) /\ SecAccounting(x) /\ (Live(c) => Live(x))
  BY <1>1, <1>4 DEF Base, SecAccounting, Live, Chan, PriAccounting, Waits, Segs,
                    HasSegments, PriFrameOut, SecFrameOut
<1>6. Base(r) /\ Work(r) /\ Kept(x, r)
  BY <1>3, <1>5, TryStart
<1>7. SecAccounting(r) /\ SameSession(x, r)
  BY <1>5, <1>6, KeptSession
<1> QED
  BY <1>4, <1>5, <1>6, <1>7 DEF Full, SameSession, k

LEMMA UpHandler ==
    ASSUME NEW c, Full(c), ~c.isOnline, NEW s \in Segments \cup {NoSegments},
           NEW r, r = OnLowerLayerUp(c, s)
    PROVE  /\ Full(r) /\ r.isOnline = TRUE
           /\ Live(c) => Live(r)
           /\ r.keepAliveTimer = TimerStart(c.keepAliveTimer)
<1> DEFINE k == TimerStart(c.keepAliveTimer)
           x == [c EXCEPT !.isOnline = TRUE, !.keepAliveTimer = k, !.linkStatus = "UNRESET"]
<1>1. Base(c) /\ SecAccounting(c) /\ Work(c) /\ c \in LinkContextType
  BY DEF Full, Base
<1>2. k \in TimerRefType
  BY <1>1, TimerFacts DEF LinkContextType
<1>3. r = Reply(x, s)
  BY DEF OnLowerLayerUp
<1> HIDE DEF k
<1>4. /\ x \in LinkContextType /\ x.pPriState = c.pPriState /\ x.pSecState = c.pSecState
      /\ x.rspTimeoutTimer = c.rspTimeoutTimer /\ x.pSegments = c.pSegments
      /\ x.txMode = c.txMode /\ x.tx = c.tx /\ x.clobbered = c.clobbered
      /\ x.pendingPriTx = c.pendingPriTx /\ x.pendingSecTx = c.pendingSecTx
      /\ x.isOnline = TRUE /\ x.keepAliveTimer = k
      /\ x.keepAliveTimeout = c.keepAliveTimeout
  BY <1>1, <1>2 DEF LinkContextType
<1> HIDE DEF x
<1>5. Base(x) /\ SecAccounting(x) /\ Work(x) /\ (Live(c) => Live(x))
  BY <1>1, <1>4 DEF Base, SecAccounting, Work, Live, Chan, PriAccounting, Waits, Segs,
                    HasSegments, PriFrameOut, SecFrameOut
<1>6. Base(r) /\ Kept(x, r) /\ Work(r)
  BY <1>3, <1>5, ReplyFacts
<1>7. SecAccounting(r) /\ SameSession(x, r)
  BY <1>5, <1>6, KeptSession
<1> QED
  BY <1>4, <1>5, <1>6, <1>7 DEF Full, SameSession, k

LEMMA DownHandler ==
    ASSUME NEW c, Full(c), NEW r, r = DownState(c)
    PROVE  /\ Full(r) /\ ~r.isOnline /\ r.txMode = "Idle" /\ r.tx = <<>>
           /\ r.pPriState = "Idle" /\ r.pSecState = "NotReset"
           /\ r.pendingPriTx = <<>> /\ r.pendingSecTx = <<>>
           /\ r.keepAliveTimer = TimerCancel(c.keepAliveTimer)
<1> DEFINE k == TimerCancel(c.keepAliveTimer)
           t == TimerCancel(c.rspTimeoutTimer)
           none == <<>>
<1>1. c \in LinkContextType /\ ~c.clobbered
  BY DEF Full, Base
<1>2. k \in TimerRefType /\ t \in TimerRefType /\ ~IsActive(t)
  BY <1>1, TimerFacts DEF LinkContextType
<1>3. r = [c EXCEPT !.isOnline = FALSE, !.keepAliveTimeout = FALSE,
              !.isRemoteReset = FALSE, !.pSegments = NoSegments,
              !.txMode = "Idle", !.pendingPriTx = none, !.pendingSecTx = none,
              !.rspTimeoutTimer = t, !.keepAliveTimer = k,
              !.pPriState = "Idle", !.pSecState = "NotReset",
              !.linkStatus = "UNRESET", !.tx = none]
  BY DEF DownState
<1> HIDE DEF k, t
<1>4. none \in Seq(Frame) /\ none \in Seq([station : Station, frame : Frame])
      /\ "Idle" \in PriState /\ "NotReset" \in SecState
  BY DEF PriState, SecState
<1> HIDE DEF none
<1>5. r \in LinkContextType
  <2> DEFINE m == [c EXCEPT !.isOnline = FALSE, !.keepAliveTimeout = FALSE,
                            !.isRemoteReset = FALSE, !.pSegments = NoSegments,
                            !.txMode = "Idle", !.pendingPriTx = none]
  <2>1. m \in LinkContextType
    BY <1>1, <1>4 DEF LinkContextType
  <2> DEFINE n == [m EXCEPT !.pendingSecTx = none, !.rspTimeoutTimer = t,
                            !.keepAliveTimer = k]
  <2>2. r = [n EXCEPT !.pPriState = "Idle", !.pSecState = "NotReset",
                      !.linkStatus = "UNRESET", !.tx = none]
    BY <1>3
  <2> HIDE DEF m
  <2>3. n \in LinkContextType
    BY <1>2, <1>4, <2>1 DEF LinkContextType
  <2> HIDE DEF n
  <2> QED
    BY <1>4, <2>2, <2>3 DEF LinkContextType
<1>6. /\ ~r.isOnline /\ ~r.keepAliveTimeout /\ r.pSegments = NoSegments
      /\ r.txMode = "Idle" /\ r.tx = none /\ r.pPriState = "Idle"
      /\ r.pSecState = "NotReset" /\ r.pendingPriTx = none /\ r.pendingSecTx = none
      /\ r.rspTimeoutTimer = t /\ r.keepAliveTimer = k /\ r.clobbered = c.clobbered
  BY <1>1, <1>3 DEF LinkContextType
<1>7. Chan(r) /\ ~PriFrameOut(r) /\ ~SecFrameOut(r) /\ ~HasSegments(r)
  BY <1>6 DEF Chan, PriFrameOut, SecFrameOut, HasSegments, none
<1>8. PriAccounting(r) /\ SecAccounting(r) /\ Waits(r) /\ Segs(r) /\ Work(r)
  BY <1>2, <1>6, <1>7 DEF PriAccounting, SecAccounting, Waits, Segs, Work, DataState,
     PriTransmitWait, PriResponseWait, SecTransmitWait
<1> QED
  BY <1>1, <1>5, <1>6, <1>7, <1>8 DEF Full, Base, k, none

-------------------------------------------------------------------------------
\* The fields that no part of the invariant mentions: EndpointRunPosted and Handled.
LEMMA PlainUpdate ==
    ASSUME NEW c, Full(c), NEW n \in Nat, NEW u \in Seq(Segment),
           NEW r, r \in {[c EXCEPT !.posted = n], [c EXCEPT !.up = u]}
    PROVE  Full(r) /\ SameTx(c, r) /\ r.pPriState = c.pPriState
<1>1. c \in LinkContextType
  BY DEF Full, Base
<1>2. /\ r \in LinkContextType /\ SameTx(c, r) /\ r.pPriState = c.pPriState
      /\ r.rspTimeoutTimer = c.rspTimeoutTimer /\ r.pSegments = c.pSegments
      /\ r.keepAliveTimeout = c.keepAliveTimeout
  BY <1>1 DEF LinkContextType, SameTx
<1>3. /\ Kept(c, r) /\ (Chan(c) => Chan(r)) /\ (PriFrameOut(r) <=> PriFrameOut(c))
      /\ (SecFrameOut(r) <=> SecFrameOut(c))
  BY <1>2, SameTxKept
<1>4. r.clobbered = c.clobbered /\ r.pSecState = c.pSecState
  BY <1>2 DEF SameTx
<1> QED
  BY <1>2, <1>3, <1>4
     DEF Full, Base, PriAccounting, SecAccounting, Waits, Segs, Work, HasSegments

\* A timer expires: its handler is queued, the TimerRef stays active.
LEMMA ExpireUpdate ==
    ASSUME NEW c, Full(c), NEW t \in TimerRefType,
           NEW r, \/ r = [c EXCEPT !.keepAliveTimer = t]
                  \/ r = [c EXCEPT !.rspTimeoutTimer = t]
                     /\ (IsActive(t) <=> IsActive(c.rspTimeoutTimer))
    PROVE  Full(r)
<1>1. c \in LinkContextType
  BY DEF Full, Base
<1>2. /\ r \in LinkContextType /\ r.pPriState = c.pPriState /\ r.pSecState = c.pSecState
      /\ r.pSegments = c.pSegments /\ r.keepAliveTimeout = c.keepAliveTimeout
      /\ r.txMode = c.txMode /\ r.tx = c.tx /\ r.clobbered = c.clobbered
      /\ r.pendingPriTx = c.pendingPriTx /\ r.pendingSecTx = c.pendingSecTx
  BY <1>1 DEF LinkContextType
<1>3. IsActive(r.rspTimeoutTimer) <=> IsActive(c.rspTimeoutTimer)
  BY <1>1 DEF LinkContextType
<1>4. Chan(c) /\ PriAccounting(c) /\ SecAccounting(c) /\ Waits(c) /\ Segs(c) /\ Work(c)
      /\ ~c.clobbered
  BY DEF Full, Base
<1>5. Chan(r) /\ PriAccounting(r) /\ SecAccounting(r)
  BY <1>2, <1>4 DEF Chan, PriAccounting, SecAccounting, PriFrameOut, SecFrameOut
<1>6. Waits(r) /\ Segs(r) /\ Work(r) /\ ~r.clobbered
  BY <1>2, <1>3, <1>4 DEF Waits, Segs, Work, HasSegments
<1> QED
  BY <1>2, <1>5, <1>6 DEF Full, Base

\* A context as it is constructed.
LEMMA InitContextFacts ==
    ASSUME NEW config \in LinkLayerConfig, NEW c, c = InitContext(config)
    PROVE  /\ Full(c) /\ c.config = config /\ ~c.isOnline /\ c.up = <<>>
           /\ c.txMode = "Idle" /\ c.tx = <<>>
           /\ c.pendingPriTx = <<>> /\ c.pendingSecTx = <<>>
           /\ c.pPriState = "Idle" /\ c.pSecState = "NotReset" /\ c.pSegments = NoSegments
           /\ c.nextReadFCB = FALSE /\ c.nextWriteFCB = FALSE /\ c.isRemoteReset = FALSE
<1> DEFINE noFrames == <<>>
           noTx == <<>>
           noUp == <<>>
<1>1. /\ noFrames \in Seq(Frame) /\ noTx \in Seq([station : Station, frame : Frame])
      /\ noUp \in Seq(Segment)
  OBVIOUS
<1>2. TimerOff \in TimerRefType /\ ~IsActive(TimerOff)
  BY DEF TimerOff, TimerRefType, IsActive
<1>3. "Idle" \in PriState /\ "NotReset" \in SecState
  BY DEF PriState, SecState
<1>4. c = [config |-> config, pSegments |-> NoSegments, txMode |-> "Idle",
             numRetryRemaining |-> 0, rspTimeoutTimer |-> TimerOff,
             keepAliveTimer |-> TimerOff, nextReadFCB |-> FALSE, nextWriteFCB |-> FALSE,
             isOnline |-> FALSE, isRemoteReset |-> FALSE, keepAliveTimeout |-> FALSE,
             pPriState |-> "Idle", pSecState |-> "NotReset",
             pendingPriTx |-> noFrames, pendingSecTx |-> noFrames, tx |-> noTx, posted |-> 0,
             up |-> noUp, linkStatus |-> "UNRESET", clobbered |-> FALSE]
  BY DEF InitContext
<1>5. c.tx = <<>> /\ c.pendingPriTx = <<>> /\ c.pendingSecTx = <<>> /\ c.up = <<>>
  BY <1>4
<1> HIDE DEF noFrames, noTx, noUp
<1>6. c \in LinkContextType
  BY <1>1, <1>2, <1>3, <1>4 DEF LinkContextType
<1>7. /\ c.pPriState = "Idle" /\ c.pSecState = "NotReset" /\ c.txMode = "Idle"
      /\ c.pSegments = NoSegments /\ c.keepAliveTimeout = FALSE
      /\ c.rspTimeoutTimer = TimerOff /\ c.clobbered = FALSE
      /\ c.config = config /\ ~c.isOnline /\ c.nextReadFCB = FALSE
      /\ c.nextWriteFCB = FALSE /\ c.isRemoteReset = FALSE
  BY <1>4
<1>8. Chan(c) /\ ~PriFrameOut(c) /\ ~SecFrameOut(c) /\ ~HasSegments(c)
  BY <1>5, <1>7 DEF Chan, PriFrameOut, SecFrameOut, HasSegments
<1>9. PriAccounting(c) /\ SecAccounting(c) /\ Waits(c) /\ Segs(c) /\ Work(c)
  BY <1>2, <1>7, <1>8 DEF PriAccounting, SecAccounting, Waits, Segs, Work, DataState,
     PriTransmitWait, PriResponseWait, SecTransmitWait
<1> QED
  BY <1>5, <1>6, <1>7, <1>8, <1>9 DEF Full, Base

LEMMA InitFull == EndpointInit => Full(ctx)
  BY ConfigAssumption, InitContextFacts DEF EndpointInit

\* Every action keeps the invariant.
LEMMA NextFull == Full(ctx) /\ [EndpointNext]_endpointVars => Full(ctx)'
<1> SUFFICES ASSUME Full(ctx), [EndpointNext]_endpointVars PROVE Full(ctx')
  BY DEF Full, Base, SecAccounting, Work, Chan, PriAccounting, Waits, Segs
<1>t. ctx \in LinkContextType
  BY DEF Full, Base
<1>1. CASE LowerLayerUp
  <2>1. PICK reply \in SendSet \cup {NoSegments} : ctx' = OnLowerLayerUp(ctx, reply)
    BY <1>1 DEF LowerLayerUp
  <2>2. reply \in Segments \cup {NoSegments} /\ ~ctx.isOnline
    BY <1>1, SendSetAssumption DEF LowerLayerUp
  <2> QED
    BY <2>1, <2>2, UpHandler
<1>2. CASE LowerLayerDown
  <2>1. ctx' = DownState(ctx)
    BY <1>2 DEF LowerLayerDown, OnLowerLayerDown
  <2> QED
    BY <2>1, DownHandler
<1>3. CASE EndpointSend
  <2>1. PICK s \in SendSet : ctx' = Send(ctx, s)
    BY <1>3 DEF EndpointSend
  <2>2. s \in Segments
    BY SendSetAssumption
  <2> QED
    BY <2>1, <2>2, SendFacts, KeptSession DEF Full
<1>4. CASE ReceiveFrame
  <2>1. PICK f \in Frame, reply \in SendSet \cup {NoSegments} :
          ctx' = Handled(OnFrame(ctx, f, reply))
    BY <1>4 DEF ReceiveFrame
  <2> DEFINE r == OnFrame(ctx, f, reply)
             u == <<>>
  <2>2. reply \in Segments \cup {NoSegments}
    BY SendSetAssumption
  <2>3. Full(r)
    BY <2>2, FrameFacts DEF Full
  <2>4. ctx' = [r EXCEPT !.up = u] /\ u \in Seq(Segment)
    BY <2>1 DEF Handled
  <2> HIDE DEF r, u
  <2> QED
    BY <2>3, <2>4, PlainUpdate
<1>5. CASE EndpointWriteComplete
  BY <1>5, WriteCompleteFacts DEF EndpointWriteComplete
<1>6. CASE EndpointRunPosted
  <2>1. ctx.posted \in Nat /\ ctx.posted > 0
    BY <1>6, <1>t DEF EndpointRunPosted, LinkContextType
  <2>2. ctx.posted - 1 \in Nat
    BY <2>1
  <2>3. ctx' = [ctx EXCEPT !.posted = ctx.posted - 1]
    BY <1>6 DEF EndpointRunPosted
  <2>4. <<>> \in Seq(Segment)
    OBVIOUS
  <2> QED
    BY <2>2, <2>3, <2>4, PlainUpdate
<1>7. CASE RspTimerExpires
  <2> DEFINE t == TimerExpire(ctx.rspTimeoutTimer)
  <2>1. t \in TimerRefType /\ IsActive(t)
    BY <1>t, TimerFacts DEF LinkContextType
  <2>2. IsActive(ctx.rspTimeoutTimer) /\ ctx' = [ctx EXCEPT !.rspTimeoutTimer = t]
    BY <1>7 DEF RspTimerExpires, CanExpire, IsActive
  <2> HIDE DEF t
  <2> QED
    BY <2>1, <2>2, ExpireUpdate
<1>8. CASE RspTimerCallback
  <2> DEFINE t == CurrentCallback(ctx.rspTimeoutTimer)
  <2>1. t \in TimerRefType /\ ~IsActive(t)
    BY <1>t, TimerFacts DEF LinkContextType
  <2>2. ctx' = OnResponseTimeout([ctx EXCEPT !.rspTimeoutTimer = t])
    BY <1>8 DEF RspTimerCallback
  <2> HIDE DEF t
  <2> QED
    BY <2>1, <2>2, ResponseHandler
<1>9. CASE StaleRspTimerCallback
  <2> DEFINE t == StaleCallback(ctx.rspTimeoutTimer)
  <2>1. t \in TimerRefType /\ ~IsActive(t)
    BY <1>t, <1>9, TimerFacts DEF LinkContextType, StaleRspTimerCallback
  <2>2. ctx' = OnResponseTimeout([ctx EXCEPT !.rspTimeoutTimer = t])
    BY <1>9 DEF StaleRspTimerCallback
  <2> HIDE DEF t
  <2> QED
    BY <2>1, <2>2, ResponseHandler
<1>10. CASE KeepAliveTimerExpires
  <2> DEFINE t == TimerExpire(ctx.keepAliveTimer)
  <2>1. t \in TimerRefType
    BY <1>t, TimerFacts DEF LinkContextType
  <2>2. ctx' = [ctx EXCEPT !.keepAliveTimer = t]
    BY <1>10 DEF KeepAliveTimerExpires
  <2> HIDE DEF t
  <2> QED
    BY <2>1, <2>2, ExpireUpdate
<1>11. CASE KeepAliveTimerCallback
  <2> DEFINE t == CurrentCallback(ctx.keepAliveTimer)
  <2>1. t \in TimerRefType
    BY <1>t, TimerFacts DEF LinkContextType
  <2>2. PICK elapsed \in BOOLEAN :
          ctx' = OnKeepAliveTimeout([ctx EXCEPT !.keepAliveTimer = t], elapsed)
    BY <1>11 DEF KeepAliveTimerCallback
  <2> HIDE DEF t
  <2> QED
    BY <2>1, <2>2, KeepAliveHandler
<1>12. CASE StaleKeepAliveTimerCallback
  <2> DEFINE t == StaleCallback(ctx.keepAliveTimer)
  <2>1. t \in TimerRefType
    BY <1>t, <1>12, TimerFacts DEF LinkContextType, StaleKeepAliveTimerCallback
  <2>2. PICK elapsed \in BOOLEAN :
          ctx' = OnKeepAliveTimeout([ctx EXCEPT !.keepAliveTimer = t], elapsed)
    BY <1>12 DEF StaleKeepAliveTimerCallback
  <2> HIDE DEF t
  <2> QED
    BY <2>1, <2>2, KeepAliveHandler
<1>13. CASE ctx' = ctx
  BY <1>13
<1> QED
  BY <1>1, <1>2, <1>3, <1>4, <1>5, <1>6, <1>7, <1>8, <1>9, <1>10, <1>11, <1>12, <1>13
     DEF EndpointNext, endpointVars

LEMMA AlwaysFull == EndpointSpec => []Full(ctx)
  BY InitFull, NextFull, PTL DEF EndpointSpec

\* The link context keeps its type, whatever frames arrive and whichever timer
\* handlers outlive a Cancel: numRetryRemaining never goes below zero, and no
\* operator builds a frame from a missing segment.
THEOREM EndpointTypeCorrect == EndpointSpec => []EndpointTypeOK
<1>1. EndpointInit => orphaned \in BOOLEAN
  BY DEF EndpointInit
<1>2. orphaned \in BOOLEAN /\ [EndpointNext]_endpointVars => (orphaned \in BOOLEAN)'
  BY DEF EndpointNext, endpointVars, LowerLayerUp, LowerLayerDown, EndpointSend, ReceiveFrame, EndpointWriteComplete,
         EndpointRunPosted, RspTimerExpires, RspTimerCallback, StaleRspTimerCallback,
         KeepAliveTimerExpires, KeepAliveTimerCallback, StaleKeepAliveTimerCallback
<1>3. Full(ctx) /\ orphaned \in BOOLEAN => EndpointTypeOK
  BY DEF Full, Base, EndpointTypeOK
<1> QED
  BY <1>1, <1>2, <1>3, AlwaysFull, PTL DEF EndpointSpec

\* A transmit buffer is never formatted while the channel or a pending slot
\* refers to it, under any interleaving of frames, sends, timers and channel
\* events (LinkContext::QueueTransmit, the shared priTxBuffer and secTxBuffer).
THEOREM BuffersSafe == EndpointSpec => []BuffersIntact
<1>1. Full(ctx) => BuffersIntact
  BY DEF Full, Base, BuffersIntact
<1> QED
  BY <1>1, AlwaysFull, PTL

\* A station waits for an answer exactly while its response timer is active,
\* although Start is ignored on an active timer and stale handlers clear a newer
\* one (TimerRef::Start, PriStateBase::OnTimeout).
THEOREM TimerWhileWaiting == EndpointSpec => []WaitHasTimer
<1>1. Full(ctx) => WaitHasTimer
  BY DEF Full, Base, Waits, WaitHasTimer
<1> QED
  BY <1>1, AlwaysFull, PTL

\* No state that dereferences pSegments is ever entered, or stays, without
\* segments (PLLS_ConfDataWait::OnAck and the other users of pSegments).
THEOREM SegmentsSafe == EndpointSpec => []SegmentsPresent
<1>1. Full(ctx) => SegmentsPresent
  BY DEF Full, Base, Segs, DataState, SegmentsPresent
<1> QED
  BY <1>1, AlwaysFull, PTL

\* The primary station is idle only with nothing left to do: every handler that
\* makes it idle ends in TryStartTransmission.
THEOREM WorkNotLost == EndpointSpec => []NoLostWork
<1>1. Full(ctx) => NoLostWork
  BY DEF Full, Work, NoLostWork
<1> QED
  BY <1>1, AlwaysFull, PTL

-------------------------------------------------------------------------------
(* The accounting of frames across channel sessions.  The only thing that   *)
(* upsets it is a keep-alive handler that runs while the layer is down; the *)
(* variable orphaned records that one has.                                  *)

Down(c) ==
    /\ c.pPriState = "Idle" /\ c.pSecState = "NotReset"
    /\ c.txMode = "Idle" /\ c.tx = <<>>
    /\ c.pendingPriTx = <<>> /\ c.pendingSecTx = <<>>
    /\ ~IsActive(c.keepAliveTimer)

Session(c) ==
    /\ c.isOnline => Live(c)
    /\ ~c.isOnline => Down(c)

\* A layer that is online stays in order while the session lasts.
LEMMA SessionKept ==
    ASSUME NEW c, NEW d, Session(c), c.isOnline, SameSession(c, d)
    PROVE  Session(d)
  BY DEF Session, SameSession

LEMMA SameTxSession ==
    ASSUME NEW c, NEW d, Session(c), SameTx(c, d), d.pPriState = c.pPriState
    PROVE  Session(d)
  BY DEF Session, SameTx, Live, Down

\* Going down puts everything back in order.
LEMMA DownSession ==
    ASSUME Full(ctx), LowerLayerDown
    PROVE  Session(ctx')
<1>1. ctx' = DownState(ctx)
  BY DEF LowerLayerDown, OnLowerLayerDown
<1>2. /\ ~ctx'.isOnline /\ ctx'.txMode = "Idle" /\ ctx'.tx = <<>>
      /\ ctx'.pPriState = "Idle" /\ ctx'.pSecState = "NotReset"
      /\ ctx'.pendingPriTx = <<>> /\ ctx'.pendingSecTx = <<>>
      /\ ctx'.keepAliveTimer = TimerCancel(ctx.keepAliveTimer)
  BY <1>1, DownHandler
<1>3. ~IsActive(ctx'.keepAliveTimer)
  BY <1>2, TimerFacts DEF Full, Base, LinkContextType
<1> QED
  BY <1>2, <1>3 DEF Session, Down

LEMMA NextSession ==
    ASSUME Full(ctx), Session(ctx), [EndpointNext]_endpointVars, ~orphaned'
    PROVE  Session(ctx')
<1>t. ctx \in LinkContextType /\ ctx.keepAliveTimer \in TimerRefType
  BY DEF Full, Base, LinkContextType
<1>1. CASE LowerLayerUp
  <2>1. PICK reply \in SendSet \cup {NoSegments} : ctx' = OnLowerLayerUp(ctx, reply)
    BY <1>1 DEF LowerLayerUp
  <2>2. reply \in Segments \cup {NoSegments} /\ ~ctx.isOnline
    BY <1>1, SendSetAssumption DEF LowerLayerUp
  <2>3. /\ ctx'.isOnline = TRUE /\ (Live(ctx) => Live(ctx'))
    BY <2>1, <2>2, UpHandler
  <2>4. Live(ctx)
    BY <1>1, <2>2 DEF LowerLayerUp, Session, Down, Live
  <2> QED
    BY <2>3, <2>4 DEF Session
<1>2. CASE LowerLayerDown
  BY <1>2, DownSession
<1>3. CASE EndpointSend
  <2>1. PICK s \in SendSet : ctx' = Send(ctx, s)
    BY <1>3 DEF EndpointSend
  <2>2. s \in Segments
    BY SendSetAssumption
  <2>3. CASE ctx.isOnline
    BY <2>1, <2>2, <2>3, SendFacts, KeptSession, SessionKept DEF Full
  <2>4. CASE ~ctx.isOnline
    <3>1. ctx' = ctx
      BY <2>1, <2>4 DEF Send
    <3> QED
      BY <3>1
  <2> QED
    BY <2>3, <2>4
<1>4. CASE ReceiveFrame
  <2>1. PICK f \in Frame, reply \in SendSet \cup {NoSegments} :
          ctx' = Handled(OnFrame(ctx, f, reply))
    BY <1>4 DEF ReceiveFrame
  <2> DEFINE r == OnFrame(ctx, f, reply)
             u == <<>>
  <2>2. reply \in Segments \cup {NoSegments} /\ ctx.isOnline
    BY <1>4, SendSetAssumption DEF ReceiveFrame
  <2>3. Full(r) /\ Session(r)
    BY <2>2, FrameFacts, SessionKept DEF Full
  <2>4. ctx' = [r EXCEPT !.up = u] /\ u \in Seq(Segment)
    BY <2>1 DEF Handled
  <2> HIDE DEF r, u
  <2>5. SameTx(r, ctx') /\ ctx'.pPriState = r.pPriState
    BY <2>3, <2>4, PlainUpdate
  <2> QED
    BY <2>3, <2>5, SameTxSession
<1>5. CASE EndpointWriteComplete
  <2>1. ctx.tx # <<>> /\ ctx' = OnWriteComplete(ctx)
    BY <1>5 DEF EndpointWriteComplete
  <2>2. ctx.isOnline
    BY <2>1 DEF Session, Down
  <2>3. ctx'.isOnline = ctx.isOnline /\ ctx'.keepAliveTimer = ctx.keepAliveTimer /\ Live(ctx')
    BY <2>1, <2>2, WriteCompleteFacts
  <2> QED
    BY <2>2, <2>3 DEF Session
<1>6. CASE EndpointRunPosted
  <2>1. ctx.posted \in Nat /\ ctx.posted > 0
    BY <1>6, <1>t DEF EndpointRunPosted, LinkContextType
  <2>2. ctx.posted - 1 \in Nat
    BY <2>1
  <2>3. ctx' = [ctx EXCEPT !.posted = ctx.posted - 1]
    BY <1>6 DEF EndpointRunPosted
  <2>4. <<>> \in Seq(Segment)
    OBVIOUS
  <2>5. SameTx(ctx, ctx') /\ ctx'.pPriState = ctx.pPriState
    BY <2>2, <2>3, <2>4, PlainUpdate
  <2> QED
    BY <2>5, SameTxSession
<1>7. CASE RspTimerExpires
  <2>1. SameTx(ctx, ctx') /\ ctx'.pPriState = ctx.pPriState
    BY <1>7, <1>t DEF RspTimerExpires, SameTx, LinkContextType
  <2> QED
    BY <2>1, SameTxSession
<1>8. ASSUME NEW t \in TimerRefType, ~IsActive(t),
             ctx' = OnResponseTimeout([ctx EXCEPT !.rspTimeoutTimer = t])
      PROVE  Session(ctx')
  <2> DEFINE d == [ctx EXCEPT !.rspTimeoutTimer = t]
  <2>1. SameSession(ctx, ctx') /\ (ctx.pPriState = "Idle" => ctx' = d)
    BY <1>8, ResponseHandler
  <2>2. SameTx(ctx, d) /\ d.pPriState = ctx.pPriState
    BY <1>t DEF SameTx, LinkContextType
  <2> HIDE DEF d
  <2>3. CASE ctx.isOnline
    BY <2>1, <2>3, SessionKept
  <2>4. CASE ~ctx.isOnline
    <3>1. ctx.pPriState = "Idle"
      BY <2>4 DEF Session, Down
    <3> QED
      BY <2>1, <2>2, <3>1, SameTxSession
  <2> QED
    BY <2>3, <2>4
<1>9. CASE RspTimerCallback
  <2> DEFINE t == CurrentCallback(ctx.rspTimeoutTimer)
  <2>1. t \in TimerRefType /\ ~IsActive(t)
    BY <1>t, TimerFacts DEF LinkContextType
  <2>2. ctx' = OnResponseTimeout([ctx EXCEPT !.rspTimeoutTimer = t])
    BY <1>9 DEF RspTimerCallback
  <2> HIDE DEF t
  <2> QED
    BY <1>8, <2>1, <2>2
<1>10. CASE StaleRspTimerCallback
  <2> DEFINE t == StaleCallback(ctx.rspTimeoutTimer)
  <2>1. t \in TimerRefType /\ ~IsActive(t)
    BY <1>t, <1>10, TimerFacts DEF LinkContextType, StaleRspTimerCallback
  <2>2. ctx' = OnResponseTimeout([ctx EXCEPT !.rspTimeoutTimer = t])
    BY <1>10 DEF StaleRspTimerCallback
  <2> HIDE DEF t
  <2> QED
    BY <1>8, <2>1, <2>2
<1>11. CASE KeepAliveTimerExpires
  <2> DEFINE t == TimerExpire(ctx.keepAliveTimer)
  <2>1. IsActive(ctx.keepAliveTimer) /\ ctx' = [ctx EXCEPT !.keepAliveTimer = t]
    BY <1>11 DEF KeepAliveTimerExpires, CanExpire, IsActive
  <2>2. ctx.isOnline
    BY <2>1 DEF Session, Down
  <2> HIDE DEF t
  <2>3. ctx'.isOnline = ctx.isOnline /\ ctx'.txMode = ctx.txMode /\ ctx'.tx = ctx.tx
    BY <1>t, <2>1 DEF LinkContextType
  <2> QED
    BY <2>2, <2>3 DEF Session, Live
<1>12. CASE KeepAliveTimerCallback
  <2> DEFINE t == CurrentCallback(ctx.keepAliveTimer)
  <2>1. t \in TimerRefType
    BY <1>t, TimerFacts
  <2>2. PICK elapsed \in BOOLEAN :
          ctx' = OnKeepAliveTimeout([ctx EXCEPT !.keepAliveTimer = t], elapsed)
    BY <1>12 DEF KeepAliveTimerCallback
  <2> HIDE DEF t
  <2>3. ctx.isOnline
    BY <1>12 DEF KeepAliveTimerCallback, Session, Down
  <2>4. ctx'.isOnline = ctx.isOnline /\ (ctx.isOnline /\ Live(ctx) => Live(ctx'))
    BY <2>1, <2>2, KeepAliveHandler
  <2> QED
    BY <2>3, <2>4 DEF Session
<1>13. CASE StaleKeepAliveTimerCallback
  <2> DEFINE t == StaleCallback(ctx.keepAliveTimer)
  <2>1. t \in TimerRefType
    BY <1>t, <1>13, TimerFacts DEF StaleKeepAliveTimerCallback
  <2>2. PICK elapsed \in BOOLEAN :
          ctx' = OnKeepAliveTimeout([ctx EXCEPT !.keepAliveTimer = t], elapsed)
    BY <1>13 DEF StaleKeepAliveTimerCallback
  <2> HIDE DEF t
  <2>3. ctx.isOnline
    BY <1>13 DEF StaleKeepAliveTimerCallback
  <2>4. ctx'.isOnline = ctx.isOnline /\ (ctx.isOnline /\ Live(ctx) => Live(ctx'))
    BY <2>1, <2>2, KeepAliveHandler
  <2> QED
    BY <2>3, <2>4 DEF Session
<1>14. CASE ctx' = ctx
  BY <1>14
<1> QED
  BY <1>1, <1>2, <1>3, <1>4, <1>5, <1>6, <1>7, <1>9, <1>10, <1>11, <1>12, <1>13, <1>14
     DEF EndpointNext, endpointVars

\* The invariant of a layer whose timers do not run while it is down.
Orderly == Full(ctx) /\ (~orphaned => Session(ctx))

LEMMA InitSession == EndpointInit => Session(ctx)
<1> SUFFICES ASSUME NEW config \in Configs, ctx = InitContext(config) PROVE Session(ctx)
  BY DEF EndpointInit
<1> QED
  BY DEF InitContext, Session, TimerOff, Down, IsActive

LEMMA NextOrderly == Orderly /\ [EndpointNext]_endpointVars => Orderly'
<1> SUFFICES ASSUME Full(ctx), ~orphaned => Session(ctx), [EndpointNext]_endpointVars
             PROVE  Full(ctx') /\ (~orphaned' => Session(ctx'))
  BY DEF Orderly, Full, Base, SecAccounting, Work, Chan, PriAccounting, Waits, Segs,
         Session, Live, Down
<1>1. Full(ctx')
  <2>1. Full(ctx)'
    BY NextFull
  <2> QED
    BY <2>1 DEF Full, Base, SecAccounting, Work, Chan, PriAccounting, Waits, Segs
<1>2. ~orphaned' => LowerLayerDown \/ ~orphaned
  BY DEF EndpointNext, endpointVars, LowerLayerUp, EndpointSend, ReceiveFrame, EndpointWriteComplete,
         EndpointRunPosted, RspTimerExpires, RspTimerCallback, StaleRspTimerCallback,
         KeepAliveTimerExpires, KeepAliveTimerCallback, StaleKeepAliveTimerCallback
<1> QED
  BY <1>1, <1>2, DownSession, NextSession

LEMMA AlwaysOrderly == EndpointSpec => []Orderly
<1>1. EndpointInit => Orderly
  BY InitFull, InitSession DEF Orderly
<1> QED
  BY <1>1, NextOrderly, PTL DEF EndpointSpec

\* While the layer is up every frame is accounted for exactly once, so each
\* completion reaches the station whose frame it was (LinkContext::OnTxReady),
\* unless a keep-alive handler ran while the layer was down.
THEOREM FramesAccountedFor == EndpointSpec => []TransmitAccounting
<1>1. Orderly => TransmitAccounting
  <2> SUFFICES ASSUME Full(ctx), Session(ctx), ctx.isOnline
               PROVE  /\ ChannelMatchesMode(ctx)
                      /\ ctx.pPriState \in PriTransmitWait <=> PriFrameOut(ctx)
                      /\ ctx.pSecState \in SecTransmitWait <=> SecFrameOut(ctx)
    BY DEF Orderly, TransmitAccounting
  <2> QED
    BY DEF Full, Base, Chan, PriAccounting, SecAccounting, Session, Live, ChannelMatchesMode
<1> QED
  BY <1>1, AlwaysOrderly, PTL

\* With the same exception OnLowerLayerDown leaves nothing behind: a layer that
\* is down is ready to be brought up again.
THEOREM DownIsQuiet == EndpointSpec => []OfflineQuiet
<1>1. Orderly => OfflineQuiet
  <2> SUFFICES ASSUME Full(ctx), Session(ctx), ~ctx.isOnline PROVE OfflineQuiet
    BY DEF Orderly, OfflineQuiet
  <2>1. Down(ctx) /\ Waits(ctx)
    BY DEF Session, Full, Base
  <2>2. ~IsActive(ctx.rspTimeoutTimer)
    BY <2>1 DEF Down, Waits, PriResponseWait
  <2> QED
    BY <2>1, <2>2 DEF OfflineQuiet, TimersOffWhenDown, Down
<1> QED
  BY <1>1, AlwaysOrderly, PTL

-------------------------------------------------------------------------------
(* The exchange between two contexts, one direction at a time:              *)
(*                                                                          *)
(*   OneUnderWay  the exchange has one frame under way at a time, which is  *)
(*                what the single outstanding request of a primary station  *)
(*                comes to;                                                 *)
(*   Matching     a request belongs to the state of the primary station, an *)
(*                answer says what the secondary station did;               *)
(*   States       what the states of a confirming primary station imply;    *)
(*   InStep       the frame count bits differ only while a segment waits    *)
(*                for its acknowledgement, unless the sender gave up.       *)

\* A station's frame that the channel has not put on the wire.
PriOut(c, w) ==
    IF c.pendingPriTx # <<>> THEN <<Head(c.pendingPriTx)>>
    ELSE IF c.txMode = "Primary" /\ ~w THEN <<c.tx[1].frame>> ELSE <<>>
SecOut(c, w) ==
    IF c.pendingSecTx # <<>> THEN <<Head(c.pendingSecTx)>>
    ELSE IF c.txMode = "Secondary" /\ ~w THEN <<c.tx[1].frame>> ELSE <<>>

Pri(c, w) == [state |-> c.pPriState, segs |-> c.pSegments.segs, fcb |-> c.nextWriteFCB,
              reset |-> c.isRemoteReset, addr |-> c.config.LocalAddr, out |-> PriOut(c, w)]
Sec(c, w) == [state |-> c.pSecState, fcb |-> c.nextReadFCB, out |-> SecOut(c, w)]

Resetting(P) == P.state \in {"LinkResetTransmitWait", "ResetLinkWait"}
Sending(P) == P.state \in {"ConfUserDataTransmitWait", "ConfDataWait"}
Asking(P) == P.state \in {"RequestLinkStatusTransmitWait", "RequestLinkStatusWait"}
Listening(S) == S.state \in {"Reset", "TransmitWaitReset"}

RequestOf(P, f) ==
    /\ f \in Frame /\ f.src = P.addr
    /\ \/ Resetting(P) /\ f.func = "PRI_RESET_LINK_STATES"
       \/ Asking(P) /\ f.func = "PRI_REQUEST_LINK_STATUS"
       \/ /\ Sending(P) /\ f.func = "PRI_CONFIRMED_USER_DATA"
          /\ f.data = Head(P.segs) /\ f.fcb = P.fcb
AnswerTo(P, S, f) ==
    /\ f \in Frame
    /\ \/ Resetting(P) /\ f.func = "SEC_ACK" /\ Listening(S) /\ S.fcb
       \/ Asking(P) /\ f.func = "SEC_LINK_STATUS"
       \/ Sending(P) /\ f.func = "SEC_ACK" /\ Listening(S) /\ S.fcb # P.fcb

None(w, F) == \A i \in DOMAIN w : w[i].func \notin F
AtMostOne(w, F) == \A i, j \in DOMAIN w : w[i].func \in F /\ w[j].func \in F => i = j
AtMost1(out) == out = <<>> \/ \E f : out = <<f>>

\* req: the frames on their way to the peer; ans: the frames on their way back.
OneUnderWay(P, S, req, ans) ==
    /\ AtMost1(P.out) /\ AtMost1(S.out)
    /\ AtMostOne(req, PriFunction) /\ AtMostOne(ans, SecFunction)
    /\ P.out # <<>> => None(req, PriFunction)
    /\ P.out # <<>> \/ ~None(req, PriFunction) => S.out = <<>>
    /\ P.out # <<>> \/ ~None(req, PriFunction) \/ S.out # <<>> => None(ans, SecFunction)

Matching(P, S, req, ans) ==
    /\ \A f : P.out = <<f>> => RequestOf(P, f)
    /\ \A i \in DOMAIN req : req[i].func \in PriFunction => RequestOf(P, req[i])
    /\ \A f : S.out = <<f>> => AnswerTo(P, S, f)
    /\ \A i \in DOMAIN ans : ans[i].func \in SecFunction => AnswerTo(P, S, ans[i])

States(P) ==
    /\ P.state # "SendUnconfirmedTransmitWait"
    /\ Resetting(P) => ~P.reset /\ P.segs # <<>>
    /\ Sending(P) => P.reset /\ P.segs # <<>>

\* gave: whether the endpoint gave up.
InStep(P, S, gave) ==
    ~gave /\ P.reset /\ Listening(S) /\ S.fcb # P.fcb => Sending(P)

DirType(P, S, req, ans, gave) ==
    /\ P.segs \in Seq(Segment) /\ P.fcb \in BOOLEAN /\ P.reset \in BOOLEAN
    /\ S.fcb \in BOOLEAN
    /\ req \in Seq(Frame) /\ ans \in Seq(Frame)
    /\ gave \in BOOLEAN

Exchange(P, S, req, ans, gave) ==
    /\ DirType(P, S, req, ans, gave)
    /\ OneUnderWay(P, S, req, ans)
    /\ Matching(P, S, req, ans)
    /\ States(P)
    /\ InStep(P, S, gave)

-------------------------------------------------------------------------------
(* Sequences of frames.                                                     *)

\* The indexes of a sequence and of its tail.
LEMMA TailIndex ==
    ASSUME NEW T, NEW s \in Seq(T), s # <<>>
    PROVE  /\ Head(s) \in T /\ Tail(s) \in Seq(T)
           /\ 1 \in DOMAIN s /\ s[1] = Head(s)
           /\ \A i \in DOMAIN Tail(s) : i + 1 \in DOMAIN s /\ Tail(s)[i] = s[i + 1] /\ i \in Nat /\ i > 0
           /\ \A i \in DOMAIN s : i = 1 \/ (i - 1 \in DOMAIN Tail(s) /\ s[i] = Tail(s)[i - 1])
<1>1. /\ Head(s) \in T /\ Tail(s) \in Seq(T) /\ Len(Tail(s)) = Len(s) - 1
      /\ \A i \in 1 .. Len(Tail(s)) : Tail(s)[i] = s[i + 1]
  BY HeadTailProperties
<1>2. DOMAIN s = 1 .. Len(s) /\ Len(s) \in Nat \ {0}
  BY LenProperties, EmptySeq
<1>3. DOMAIN Tail(s) = 1 .. Len(Tail(s))
  BY <1>1, LenProperties
<1>4. Head(s) = s[1]
  OBVIOUS
<1> QED
  BY <1>1, <1>2, <1>3, <1>4

\* The indexes of a sequence and of one with an element appended.
LEMMA AppendIndex ==
    ASSUME NEW T, NEW s \in Seq(T), NEW x \in T
    PROVE  /\ Append(s, x) \in Seq(T)
           /\ \A i \in DOMAIN Append(s, x) :
                 \/ i \in DOMAIN s /\ Append(s, x)[i] = s[i] /\ i < Len(s) + 1
                 \/ i = Len(s) + 1 /\ Append(s, x)[i] = x
           /\ \A i \in DOMAIN s : i \in DOMAIN Append(s, x) /\ Append(s, x)[i] = s[i]
           /\ Len(s) + 1 \in DOMAIN Append(s, x) /\ Append(s, x)[Len(s) + 1] = x
           /\ Len(s) + 1 \notin DOMAIN s
<1>1. /\ Append(s, x) \in Seq(T) /\ Len(Append(s, x)) = Len(s) + 1
      /\ \A i \in 1 .. Len(s) : Append(s, x)[i] = s[i]
      /\ Append(s, x)[Len(s) + 1] = x
  BY AppendProperties
<1>2. DOMAIN s = 1 .. Len(s) /\ Len(s) \in Nat
  BY LenProperties
<1>3. DOMAIN Append(s, x) = 1 .. Len(Append(s, x))
  BY <1>1, LenProperties
<1> QED
  BY <1>1, <1>2, <1>3

LEMMA EmptyTyped == <<>> \in Seq(Segment) /\ <<>> \in Seq(Frame)
  OBVIOUS

\* A frame leaves the head of the wire.
LEMMA TailWire ==
    ASSUME NEW w \in Seq(Frame), w # <<>>, NEW F
    PROVE  /\ Head(w) \in Frame /\ Tail(w) \in Seq(Frame)
           /\ None(w, F) => None(Tail(w), F)
           /\ AtMostOne(w, F) => AtMostOne(Tail(w), F)
           /\ AtMostOne(w, F) /\ Head(w).func \in F => None(Tail(w), F) /\ ~None(w, F)
           /\ \A i \in DOMAIN Tail(w) : \E j \in DOMAIN w : Tail(w)[i] = w[j]
           /\ \E j \in DOMAIN w : Head(w) = w[j]
<1>1. /\ Head(w) \in Frame /\ Tail(w) \in Seq(Frame)
      /\ 1 \in DOMAIN w /\ w[1] = Head(w)
      /\ \A i \in DOMAIN Tail(w) : i + 1 \in DOMAIN w /\ Tail(w)[i] = w[i + 1] /\ i \in Nat /\ i > 0
  BY TailIndex
<1> DEFINE t == Tail(w)
<1> HIDE DEF t
<1>2. /\ 1 \in DOMAIN w /\ w[1] = Head(w)
      /\ \A i \in DOMAIN t : i + 1 \in DOMAIN w /\ t[i] = w[i + 1] /\ i \in Nat /\ i > 0
  BY <1>1 DEF t
<1>3. None(w, F) => None(t, F)
  BY <1>2 DEF None
<1>4. AtMostOne(w, F) => AtMostOne(t, F)
  <2> SUFFICES ASSUME AtMostOne(w, F), NEW i \in DOMAIN t, NEW j \in DOMAIN t,
                      t[i].func \in F, t[j].func \in F
               PROVE  i = j
    BY DEF AtMostOne
  <2>1. i + 1 = j + 1
    BY <1>2 DEF AtMostOne
  <2> QED
    BY <1>2, <2>1
<1>5. AtMostOne(w, F) /\ Head(w).func \in F => None(t, F) /\ ~None(w, F)
  <2> SUFFICES ASSUME AtMostOne(w, F), Head(w).func \in F
               PROVE  None(t, F) /\ ~None(w, F)
    OBVIOUS
  <2>1. ASSUME NEW i \in DOMAIN t, t[i].func \in F PROVE FALSE
    <3>1. i + 1 = 1
      BY <1>2, <2>1 DEF AtMostOne
    <3> QED
      BY <1>2, <3>1
  <2> QED
    BY <1>2, <2>1 DEF None
<1>6. \A i \in DOMAIN t : \E j \in DOMAIN w : t[i] = w[j]
  BY <1>2
<1> QED
  BY <1>1, <1>2, <1>3, <1>4, <1>5, <1>6 DEF t

\* A frame is put on the wire.
LEMMA AppendWire ==
    ASSUME NEW w \in Seq(Frame), NEW f \in Frame, NEW F
    PROVE  /\ Append(w, f) \in Seq(Frame)
           /\ f.func \notin F => /\ None(Append(w, f), F) <=> None(w, F)
                                 /\ AtMostOne(w, F) => AtMostOne(Append(w, f), F)
           /\ None(w, F) => AtMostOne(Append(w, f), F)
           /\ \A i \in DOMAIN Append(w, f) :
                 Append(w, f)[i] = f \/ \E j \in DOMAIN w : Append(w, f)[i] = w[j]
<1> DEFINE t == Append(w, f)
<1>1. /\ t \in Seq(Frame)
      /\ \A i \in DOMAIN t : \/ i \in DOMAIN w /\ t[i] = w[i] /\ i < Len(w) + 1
                             \/ i = Len(w) + 1 /\ t[i] = f
      /\ \A i \in DOMAIN w : i \in DOMAIN t /\ t[i] = w[i]
  BY AppendIndex
<1> HIDE DEF t
<1>2. f.func \notin F => /\ None(t, F) <=> None(w, F)
                         /\ AtMostOne(w, F) => AtMostOne(t, F)
  BY <1>1 DEF None, AtMostOne
<1>3. None(w, F) => AtMostOne(t, F)
  BY <1>1 DEF None, AtMostOne
<1>4. \A i \in DOMAIN t : t[i] = f \/ \E j \in DOMAIN w : t[i] = w[j]
  BY <1>1
<1> QED
  BY <1>1, <1>2, <1>3, <1>4 DEF t

-------------------------------------------------------------------------------
(* Directions.                                                              *)

\* A station that is idle has nothing under way.
LEMMA IdleQuiet ==
    ASSUME NEW P, NEW S, NEW req, NEW ans, NEW gave,
           Exchange(P, S, req, ans, gave), P.state = "Idle"
    PROVE  /\ P.out = <<>> /\ S.out = <<>>
           /\ None(req, PriFunction) /\ None(ans, SecFunction)
<1>1. /\ AtMost1(P.out) /\ AtMost1(S.out)
      /\ \A f : P.out # <<f>> /\ S.out # <<f>>
  BY DEF Exchange, OneUnderWay, Matching, RequestOf, AnswerTo, Resetting, Asking, Sending
<1>2. P.out = <<>> /\ S.out = <<>>
  BY <1>1 DEF AtMost1
<1>3. None(req, PriFunction)
  BY DEF Exchange, Matching, RequestOf, Resetting, Asking, Sending, None
<1>4. None(ans, SecFunction)
  BY DEF Exchange, Matching, AnswerTo, Resetting, Asking, Sending, None
<1> QED
  BY <1>2, <1>3, <1>4

\* The station that is idle queues a first request.
Starts(P, Q) ==
    /\ P.state = "Idle"
    /\ Q.segs = P.segs /\ Q.fcb = P.fcb /\ Q.reset = P.reset /\ Q.addr = P.addr
    /\ \/ Q.state = "RequestLinkStatusTransmitWait"
       \/ Q.state = "ConfUserDataTransmitWait" /\ P.reset /\ P.segs # <<>>
       \/ Q.state = "LinkResetTransmitWait" /\ ~P.reset /\ P.segs # <<>>
    /\ \E f : Q.out = <<f>> /\ RequestOf(Q, f)

\* A frame put out when nothing is under way.
LEMMA OutAlone ==
    ASSUME NEW Q, NEW S, NEW req, NEW ans, 
           req \in Seq(Frame), ans \in Seq(Frame),
           S.out = <<>>, None(req, PriFunction), None(ans, SecFunction),
           Q.out = <<>> \/ \E f : Q.out = <<f>> /\ RequestOf(Q, f)
    PROVE  OneUnderWay(Q, S, req, ans) /\ Matching(Q, S, req, ans)
<1>1. AtMostOne(req, PriFunction) /\ AtMostOne(ans, SecFunction)
  BY DEF None, AtMostOne
<1>2. AtMost1(Q.out) /\ AtMost1(S.out)
  BY DEF AtMost1
<1>3. \A f : Q.out = <<f>> => RequestOf(Q, f)
  OBVIOUS
<1>4. \A f : S.out # <<f>>
  OBVIOUS
<1>5. OneUnderWay(Q, S, req, ans)
  BY <1>1, <1>2 DEF OneUnderWay
<1>6. Matching(Q, S, req, ans)
  BY <1>3, <1>4 DEF Matching, None
<1> QED
  BY <1>5, <1>6

LEMMA StartsExchange ==
    ASSUME NEW P, NEW S, NEW req, NEW ans, NEW gave,
           Exchange(P, S, req, ans, gave), NEW Q, Starts(P, Q)
    PROVE  Exchange(Q, S, req, ans, gave)
<1>1. /\ P.out = <<>> /\ S.out = <<>> /\ P.state = "Idle"
      /\ None(req, PriFunction) /\ None(ans, SecFunction)
  BY IdleQuiet DEF Starts
<1>2. DirType(Q, S, req, ans, gave)
  BY DEF Exchange, DirType, Starts
<1>3. OneUnderWay(Q, S, req, ans) /\ Matching(Q, S, req, ans)
  BY <1>1, <1>2, OutAlone DEF Starts, DirType
<1>4. States(Q)
  BY DEF Exchange, States, Starts, Resetting, Sending
<1>6. InStep(Q, S, gave)
  <2>1. ~Sending(P) /\ Q.fcb = P.fcb /\ Q.reset = P.reset
    BY <1>1 DEF Sending, Starts
  <2> QED
    BY <2>1 DEF Exchange, InStep
<1> QED
  BY <1>2, <1>3, <1>4, <1>6 DEF Exchange

\* The station goes on waiting in another state of the same kind.
SameKind(P, Q) ==
    /\ Q.segs = P.segs /\ Q.fcb = P.fcb /\ Q.reset = P.reset /\ Q.out = P.out
    /\ Q.addr = P.addr
    /\ Resetting(Q) <=> Resetting(P)
    /\ Sending(Q) <=> Sending(P)
    /\ Asking(Q) <=> Asking(P)
    /\ Q.state # "SendUnconfirmedTransmitWait"

LEMMA SameKindExchange ==
    ASSUME NEW P, NEW S, NEW req, NEW ans, NEW gave,
           Exchange(P, S, req, ans, gave), NEW Q, SameKind(P, Q)
    PROVE  Exchange(Q, S, req, ans, gave)
<1>1. DirType(Q, S, req, ans, gave)
  BY DEF Exchange, DirType, SameKind
<1>2. OneUnderWay(Q, S, req, ans)
  BY DEF Exchange, OneUnderWay, SameKind
<1>3. /\ \A f : RequestOf(P, f) => RequestOf(Q, f)
      /\ \A f : AnswerTo(P, S, f) => AnswerTo(Q, S, f)
  BY DEF RequestOf, AnswerTo, SameKind
<1>4. Matching(Q, S, req, ans)
  BY <1>3 DEF Exchange, Matching, SameKind
<1>5. States(Q)
  BY DEF Exchange, States, SameKind
<1>7. InStep(Q, S, gave)
  BY DEF Exchange, InStep, SameKind
<1> QED
  BY <1>1, <1>2, <1>4, <1>5, <1>7 DEF Exchange

\* What is on the wires shrinks, and no frame is there that was not.
LEMMA FewerFrames ==
    ASSUME NEW P, NEW S, NEW req, NEW ans, NEW gave,
           Exchange(P, S, req, ans, gave),
           NEW req2 \in Seq(Frame), NEW ans2 \in Seq(Frame),
           None(req, PriFunction) => None(req2, PriFunction),
           None(ans, SecFunction) => None(ans2, SecFunction),
           AtMostOne(req2, PriFunction), AtMostOne(ans2, SecFunction),
           \A i \in DOMAIN req2 : req2[i].func \in PriFunction =>
               \E j \in DOMAIN req : req2[i] = req[j],
           \A i \in DOMAIN ans2 : ans2[i].func \in SecFunction =>
               \E j \in DOMAIN ans : ans2[i] = ans[j]
    PROVE  Exchange(P, S, req2, ans2, gave)
<1>1. DirType(P, S, req2, ans2, gave)
  BY DEF Exchange, DirType
<1>2. OneUnderWay(P, S, req2, ans2)
  BY DEF Exchange, OneUnderWay
<1>3. Matching(P, S, req2, ans2)
  BY DEF Exchange, Matching
<1> QED
  BY <1>1, <1>2, <1>3 DEF Exchange

LEMMA FunctionsApart == \A x \in PriFunction : x \notin SecFunction
  BY DEF PriFunction, SecFunction

\* A frame leaves the head of one of the wires and is lost or ignored.
LEMMA DropRequest ==
    ASSUME NEW P, NEW S, NEW req, NEW ans, NEW gave,
           Exchange(P, S, req, ans, gave), req # <<>>
    PROVE  Exchange(P, S, Tail(req), ans, gave)
<1>1. req \in Seq(Frame) /\ ans \in Seq(Frame) /\ AtMostOne(req, PriFunction)
      /\ AtMostOne(ans, SecFunction)
  BY DEF Exchange, DirType, OneUnderWay
<1> DEFINE t == Tail(req)
<1>2. /\ t \in Seq(Frame) /\ (None(req, PriFunction) => None(t, PriFunction))
      /\ AtMostOne(t, PriFunction)
      /\ \A i \in DOMAIN t : \E j \in DOMAIN req : t[i] = req[j]
  BY <1>1, TailWire
<1> HIDE DEF t
<1>3. Exchange(P, S, t, ans, gave)
  BY <1>1, <1>2, FewerFrames
<1> QED
  BY <1>3 DEF t

LEMMA DropAnswer ==
    ASSUME NEW P, NEW S, NEW req, NEW ans, NEW gave,
           Exchange(P, S, req, ans, gave), ans # <<>>
    PROVE  Exchange(P, S, req, Tail(ans), gave)
<1>1. req \in Seq(Frame) /\ ans \in Seq(Frame) /\ AtMostOne(req, PriFunction)
      /\ AtMostOne(ans, SecFunction)
  BY DEF Exchange, DirType, OneUnderWay
<1> DEFINE t == Tail(ans)
<1>2. /\ t \in Seq(Frame) /\ (None(ans, SecFunction) => None(t, SecFunction))
      /\ AtMostOne(t, SecFunction)
      /\ \A i \in DOMAIN t : \E j \in DOMAIN ans : t[i] = ans[j]
  BY <1>1, TailWire
<1> HIDE DEF t
<1>3. Exchange(P, S, req, t, gave)
  BY <1>1, <1>2, FewerFrames
<1> QED
  BY <1>3 DEF t

\* A frame of the other direction is put on one of the wires.
LEMMA OtherRequest ==
    ASSUME NEW P, NEW S, NEW req, NEW ans, NEW gave,
           Exchange(P, S, req, ans, gave),
           NEW f \in Frame, f.func \notin PriFunction
    PROVE  Exchange(P, S, Append(req, f), ans, gave)
<1>1. req \in Seq(Frame) /\ ans \in Seq(Frame) /\ AtMostOne(req, PriFunction)
      /\ AtMostOne(ans, SecFunction)
  BY DEF Exchange, DirType, OneUnderWay
<1> DEFINE t == Append(req, f)
<1>2. /\ t \in Seq(Frame) /\ (None(t, PriFunction) <=> None(req, PriFunction))
      /\ AtMostOne(t, PriFunction)
      /\ \A i \in DOMAIN t : t[i] = f \/ \E j \in DOMAIN req : t[i] = req[j]
  BY <1>1, AppendWire
<1> HIDE DEF t
<1>3. Exchange(P, S, t, ans, gave)
  BY <1>1, <1>2, FewerFrames
<1> QED
  BY <1>3 DEF t

LEMMA OtherAnswer ==
    ASSUME NEW P, NEW S, NEW req, NEW ans, NEW gave,
           Exchange(P, S, req, ans, gave),
           NEW f \in Frame, f.func \notin SecFunction
    PROVE  Exchange(P, S, req, Append(ans, f), gave)
<1>1. req \in Seq(Frame) /\ ans \in Seq(Frame) /\ AtMostOne(req, PriFunction)
      /\ AtMostOne(ans, SecFunction)
  BY DEF Exchange, DirType, OneUnderWay
<1> DEFINE t == Append(ans, f)
<1>2. /\ t \in Seq(Frame) /\ (None(t, SecFunction) <=> None(ans, SecFunction))
      /\ AtMostOne(t, SecFunction)
      /\ \A i \in DOMAIN t : t[i] = f \/ \E j \in DOMAIN ans : t[i] = ans[j]
  BY <1>1, AppendWire
<1> HIDE DEF t
<1>3. Exchange(P, S, req, t, gave)
  BY <1>1, <1>2, FewerFrames
<1> QED
  BY <1>3 DEF t

\* The request is put on the wire.
LEMMA PutRequest ==
    ASSUME NEW P, NEW S, NEW req, NEW ans, NEW gave,
           Exchange(P, S, req, ans, gave),
           NEW f \in Frame, P.out = <<f>>, NEW Q,
           Q.state = P.state, Q.segs = P.segs, Q.fcb = P.fcb, Q.reset = P.reset,
           Q.addr = P.addr, Q.out = <<>>
    PROVE  Exchange(Q, S, Append(req, f), ans, gave)
<1>0. P.out # <<>>
  OBVIOUS
<1>1. /\ req \in Seq(Frame) /\ None(req, PriFunction) /\ S.out = <<>>
      /\ None(ans, SecFunction) /\ RequestOf(P, f)
      /\ AtMostOne(ans, SecFunction)
  BY <1>0 DEF Exchange, DirType, OneUnderWay, Matching
<1> DEFINE t == Append(req, f)
<1>2. /\ t \in Seq(Frame) /\ AtMostOne(t, PriFunction)
      /\ \A i \in DOMAIN t : t[i] = f \/ \E j \in DOMAIN req : t[i] = req[j]
  BY <1>1, AppendWire
<1> HIDE DEF t
<1>3. /\ \A g : RequestOf(P, g) => RequestOf(Q, g)
      /\ \A g : AnswerTo(P, S, g) => AnswerTo(Q, S, g)
      /\ Sending(Q) = Sending(P) /\ Resetting(Q) = Resetting(P)
  BY DEF RequestOf, AnswerTo, Resetting, Sending, Asking
<1>4. DirType(Q, S, t, ans, gave)
  BY <1>2 DEF Exchange, DirType
<1>5. OneUnderWay(Q, S, t, ans)
  BY <1>1, <1>2 DEF OneUnderWay, AtMost1
<1>6. Matching(Q, S, t, ans)
  <2>1. \A i \in DOMAIN t : t[i].func \in PriFunction => RequestOf(Q, t[i])
    BY <1>1, <1>2, <1>3 DEF None
  <2>2. \A g : Q.out # <<g>> /\ S.out # <<g>>
    BY <1>1
  <2> QED
    BY <1>1, <2>1, <2>2 DEF Matching, None
<1>7. States(Q) /\ InStep(Q, S, gave)
  BY <1>3 DEF Exchange, States, InStep
<1> QED
  BY <1>4, <1>5, <1>6, <1>7 DEF Exchange, t

\* The answer is put on the wire.
LEMMA PutAnswer ==
    ASSUME NEW P, NEW S, NEW req, NEW ans, NEW gave,
           Exchange(P, S, req, ans, gave),
           NEW f \in Frame, S.out = <<f>>, NEW R,
           R.state = S.state, R.fcb = S.fcb, R.out = <<>>
    PROVE  Exchange(P, R, req, Append(ans, f), gave)
<1>0. S.out # <<>>
  OBVIOUS
<1>1. /\ ans \in Seq(Frame) /\ None(req, PriFunction) /\ P.out = <<>>
      /\ None(ans, SecFunction) /\ AnswerTo(P, S, f)
      /\ AtMostOne(req, PriFunction)
  BY <1>0 DEF Exchange, DirType, OneUnderWay, Matching
<1> DEFINE t == Append(ans, f)
<1>2. /\ t \in Seq(Frame) /\ AtMostOne(t, SecFunction)
      /\ \A i \in DOMAIN t : t[i] = f \/ \E j \in DOMAIN ans : t[i] = ans[j]
  BY <1>1, AppendWire
<1> HIDE DEF t
<1>3. /\ \A g : AnswerTo(P, S, g) => AnswerTo(P, R, g)
      /\ Listening(R) = Listening(S)
  BY DEF AnswerTo, Listening
<1>4. DirType(P, R, req, t, gave)
  BY <1>2 DEF Exchange, DirType
<1>5. OneUnderWay(P, R, req, t)
  BY <1>1, <1>2 DEF OneUnderWay, AtMost1
<1>6. Matching(P, R, req, t)
  <2>1. \A i \in DOMAIN t : t[i].func \in SecFunction => AnswerTo(P, R, t[i])
    BY <1>1, <1>2, <1>3 DEF None
  <2>2. \A g : P.out # <<g>> /\ R.out # <<g>>
    BY <1>1
  <2> QED
    BY <1>1, <2>1, <2>2 DEF Matching, None
<1>7. States(P) /\ InStep(P, R, gave)
  BY <1>3 DEF Exchange, States, InStep
<1> QED
  BY <1>4, <1>5, <1>6, <1>7 DEF Exchange, t

\* The head of the answers is the one frame under way.
LEMMA AnswerAlone ==
    ASSUME NEW P, NEW S, NEW req, NEW ans, NEW gave,
           Exchange(P, S, req, ans, gave),
           ans # <<>>, Head(ans).func \in SecFunction
    PROVE  /\ P.out = <<>> /\ S.out = <<>> /\ None(req, PriFunction)
           /\ Tail(ans) \in Seq(Frame) /\ None(Tail(ans), SecFunction)
           /\ AnswerTo(P, S, Head(ans))
<1>1. ans \in Seq(Frame) /\ AtMostOne(ans, SecFunction)
  BY DEF Exchange, DirType, OneUnderWay
<1>2. /\ Tail(ans) \in Seq(Frame) /\ None(Tail(ans), SecFunction) /\ ~None(ans, SecFunction)
      /\ \E j \in DOMAIN ans : Head(ans) = ans[j]
  BY <1>1, TailWire
<1>3. P.out = <<>> /\ S.out = <<>> /\ None(req, PriFunction)
  BY <1>2 DEF Exchange, OneUnderWay
<1>4. AnswerTo(P, S, Head(ans))
  BY <1>2 DEF Exchange, Matching
<1> QED
  BY <1>2, <1>3, <1>4

\* What an acknowledgement does to the station that waits for it.
AckStep(P, Q) ==
    /\ Q.addr = P.addr
    /\ \/ /\ P.state = "ResetLinkWait" /\ Q.state = "ConfUserDataTransmitWait"
          /\ Q.segs = P.segs /\ Q.fcb = TRUE /\ Q.reset = TRUE
          /\ \E f : Q.out = <<f>> /\ RequestOf(Q, f)
       \/ /\ P.state = "ConfDataWait" /\ Len(P.segs) > 1
          /\ Q.state = "ConfUserDataTransmitWait"
          /\ Q.segs = Tail(P.segs) /\ Q.fcb = ~P.fcb /\ Q.reset = P.reset
          /\ \E f : Q.out = <<f>> /\ RequestOf(Q, f)
       \/ /\ P.state = "ConfDataWait" /\ ~(Len(P.segs) > 1)
          /\ Q.state = "Idle"
          /\ Q.segs = <<>> /\ Q.fcb = ~P.fcb /\ Q.reset = P.reset /\ Q.out = <<>>
       \/ P.state \notin {"ResetLinkWait", "ConfDataWait"} /\ Q = P

LEMMA ReceiveAck ==
    ASSUME NEW P, NEW S, NEW req, NEW ans, NEW gave,
           Exchange(P, S, req, ans, gave),
           ans # <<>>, Head(ans).func = "SEC_ACK", NEW Q, AckStep(P, Q)
    PROVE  /\ Exchange(Q, S, req, Tail(ans), gave)
           /\ P.state = "ConfDataWait" => P.reset /\ Listening(S) /\ S.fcb # P.fcb
           /\ P.state = "ResetLinkWait" => Listening(S) /\ S.fcb
<1>0. DirType(P, S, req, ans, gave) /\ States(P) /\ InStep(P, S, gave)
  BY DEF Exchange
<1>1. /\ P.out = <<>> /\ S.out = <<>> /\ None(req, PriFunction)
      /\ Tail(ans) \in Seq(Frame) /\ None(Tail(ans), SecFunction)
      /\ AnswerTo(P, S, Head(ans))
  BY AnswerAlone DEF SecFunction
<1>2. ASSUME DirType(Q, S, req, ans, gave), States(Q), InStep(Q, S, gave),
             Q.out = <<>> \/ \E f : Q.out = <<f>> /\ RequestOf(Q, f)
      PROVE  Exchange(Q, S, req, Tail(ans), gave)
  <2>1. DirType(Q, S, req, Tail(ans), gave)
    BY <1>1, <1>2 DEF DirType
  <2>2. /\ OneUnderWay(Q, S, req, Tail(ans))
        /\ Matching(Q, S, req, Tail(ans))
    BY <1>1, <1>2, <2>1, OutAlone DEF DirType
  <2> QED
    BY <1>2, <2>1, <2>2 DEF Exchange
<1>3. CASE P.state = "ResetLinkWait"
  <2>1. /\ Q.state = "ConfUserDataTransmitWait" /\ Q.segs = P.segs /\ Q.fcb = TRUE
        /\ Q.reset = TRUE /\ \E f : Q.out = <<f>> /\ RequestOf(Q, f)
    BY <1>3 DEF AckStep
  <2>2. Listening(S) /\ S.fcb /\ ~Sending(P) /\ P.segs # <<>>
    BY <1>0, <1>1, <1>3 DEF AnswerTo, Resetting, Asking, Sending, States
  <2>3. DirType(Q, S, req, ans, gave)
    BY <1>0, <2>1 DEF DirType
  <2>4. States(Q) /\ InStep(Q, S, gave)
    BY <1>0, <2>1, <2>2 DEF States, InStep, Resetting, Sending, DirType
  <2> QED
    BY <1>2, <1>3, <2>1, <2>2, <2>3, <2>4
<1>4. CASE P.state = "ConfDataWait"
  <2>1. /\ Q.fcb = ~P.fcb /\ Q.reset = P.reset
        /\ Q.segs = Tail(P.segs) \/ Q.segs = <<>>
        /\ \/ Q.state = "ConfUserDataTransmitWait" /\ Q.segs = Tail(P.segs) /\ Len(P.segs) > 1
           \/ Q.state = "Idle"
        /\ Q.out = <<>> \/ \E f : Q.out = <<f>> /\ RequestOf(Q, f)
    BY <1>4 DEF AckStep
  <2>2. /\ Sending(P) /\ P.segs # <<>> /\ P.reset /\ ~Resetting(P)
        /\ Listening(S) /\ S.fcb # P.fcb
    BY <1>0, <1>1, <1>4 DEF AnswerTo, Resetting, Asking, Sending, States
  <2>3. Q.segs \in Seq(Segment)
    BY <1>0, <2>1, <2>2, TailIndex, EmptyTyped DEF DirType
  <2>4. DirType(Q, S, req, ans, gave)
    BY <1>0, <2>1, <2>3 DEF DirType
  <2>5. States(Q)
    <3>1. Q.state = "ConfUserDataTransmitWait" => Q.segs # <<>>
      BY <1>0, <2>1, TailFacts DEF DirType
    <3> QED
      BY <2>1, <2>2, <3>1 DEF States, Resetting, Sending
  <2>6. InStep(Q, S, gave)
    BY <1>0, <2>1, <2>2 DEF InStep, DirType
  <2> QED
    BY <1>2, <1>4, <2>1, <2>2, <2>4, <2>5, <2>6
<1>5. CASE P.state \notin {"ResetLinkWait", "ConfDataWait"}
  BY <1>5, DropAnswer DEF AckStep
<1> QED
  BY <1>3, <1>4, <1>5

\* A link status ends a keep-alive.
StatusStep(P, Q) ==
    \/ /\ P.state = "RequestLinkStatusWait" /\ Q.state = "Idle"
       /\ Q.segs = P.segs /\ Q.fcb = P.fcb /\ Q.reset = P.reset /\ Q.out = P.out
       /\ Q.addr = P.addr
    \/ P.state \notin PriResponseWait /\ Q = P

LEMMA ReceiveStatus ==
    ASSUME NEW P, NEW S, NEW req, NEW ans, NEW gave,
           Exchange(P, S, req, ans, gave),
           ans # <<>>, Head(ans).func = "SEC_LINK_STATUS", NEW Q,
           P.state \in {"ResetLinkWait", "ConfDataWait"} \/ StatusStep(P, Q)
    PROVE  Exchange(Q, S, req, Tail(ans), gave)
<1>0. DirType(P, S, req, ans, gave) /\ States(P) /\ InStep(P, S, gave)
  BY DEF Exchange
<1>1. /\ P.out = <<>> /\ S.out = <<>> /\ None(req, PriFunction)
      /\ Tail(ans) \in Seq(Frame) /\ None(Tail(ans), SecFunction)
      /\ AnswerTo(P, S, Head(ans))
  BY AnswerAlone DEF SecFunction
<1>2. Asking(P)
  BY <1>1 DEF AnswerTo
<1>3. CASE Q = P
  BY <1>3, DropAnswer
<1>4. CASE /\ P.state = "RequestLinkStatusWait" /\ Q.state = "Idle"
           /\ Q.segs = P.segs /\ Q.fcb = P.fcb /\ Q.reset = P.reset /\ Q.out = P.out
  <2>1. ~Sending(P) /\ ~Sending(Q) /\ ~Resetting(Q)
    BY <1>4 DEF Sending, Resetting
  <2>2. DirType(Q, S, req, Tail(ans), gave)
    BY <1>0, <1>1, <1>4 DEF DirType
  <2>3. /\ OneUnderWay(Q, S, req, Tail(ans))
        /\ Matching(Q, S, req, Tail(ans))
    BY <1>1, <1>4, <2>2, OutAlone DEF DirType
  <2>4. States(Q) /\ InStep(Q, S, gave)
    BY <1>0, <1>4, <2>1 DEF States, InStep
  <2> QED
    BY <2>2, <2>3, <2>4 DEF Exchange
<1>5. P.state \notin {"ResetLinkWait", "ConfDataWait"}
  BY <1>2 DEF Asking
<1> QED
  BY <1>3, <1>4, <1>5 DEF StatusStep

-------------------------------------------------------------------------------
\* The head of the requests is the one frame under way.
LEMMA RequestAlone ==
    ASSUME NEW P, NEW S, NEW req, NEW ans, NEW gave,
           Exchange(P, S, req, ans, gave),
           req # <<>>, Head(req).func \in PriFunction
    PROVE  /\ P.out = <<>> /\ S.out = <<>> /\ None(ans, SecFunction)
           /\ Tail(req) \in Seq(Frame) /\ None(Tail(req), PriFunction)
           /\ RequestOf(P, Head(req))
<1>1. req \in Seq(Frame) /\ AtMostOne(req, PriFunction)
  BY DEF Exchange, DirType, OneUnderWay
<1>2. /\ Tail(req) \in Seq(Frame) /\ None(Tail(req), PriFunction) /\ ~None(req, PriFunction)
      /\ \E j \in DOMAIN req : Head(req) = req[j]
  BY <1>1, TailWire
<1>3. P.out = <<>> /\ S.out = <<>> /\ None(ans, SecFunction)
  BY <1>2 DEF Exchange, OneUnderWay
<1>4. RequestOf(P, Head(req))
  BY <1>2 DEF Exchange, Matching
<1> QED
  BY <1>2, <1>3, <1>4

\* An answer put out when nothing is under way.
LEMMA AnswerOut ==
    ASSUME NEW P, NEW R, NEW req, NEW ans, 
           P.out = <<>>, None(req, PriFunction), None(ans, SecFunction),
           NEW g, R.out = <<g>>, AnswerTo(P, R, g)
    PROVE  OneUnderWay(P, R, req, ans) /\ Matching(P, R, req, ans)
<1>1. AtMostOne(req, PriFunction) /\ AtMostOne(ans, SecFunction)
  BY DEF None, AtMostOne
<1>2. AtMost1(P.out) /\ AtMost1(R.out)
  BY DEF AtMost1
<1>3. \A f : R.out = <<f>> => AnswerTo(P, R, f)
  OBVIOUS
<1>4. \A f : P.out # <<f>>
  OBVIOUS
<1>5. OneUnderWay(P, R, req, ans)
  BY <1>1, <1>2 DEF OneUnderWay
<1>6. Matching(P, R, req, ans)
  BY <1>3, <1>4 DEF Matching, None
<1> QED
  BY <1>5, <1>6

\* The answers a secondary station gives.
Answers(R, func) == \E g \in Frame : R.out = <<g>> /\ g.func = func

LEMMA ReceiveReset ==
    ASSUME NEW P, NEW S, NEW req, NEW ans, NEW gave,
           Exchange(P, S, req, ans, gave),
           req # <<>>, Head(req).func = "PRI_RESET_LINK_STATES",
           NEW R, R.state = "TransmitWaitReset", R.fcb = TRUE, Answers(R, "SEC_ACK")
    PROVE  Exchange(P, R, Tail(req), ans, gave)
<1>0. DirType(P, S, req, ans, gave) /\ States(P) /\ InStep(P, S, gave)
  BY DEF Exchange
<1>1. /\ P.out = <<>> /\ S.out = <<>> /\ None(ans, SecFunction)
      /\ Tail(req) \in Seq(Frame) /\ None(Tail(req), PriFunction)
      /\ RequestOf(P, Head(req))
  BY RequestAlone DEF PriFunction
<1>2. Resetting(P) /\ ~Sending(P) /\ ~P.reset
  BY <1>0, <1>1 DEF RequestOf, Resetting, Sending, States
<1>3. PICK g \in Frame : R.out = <<g>> /\ g.func = "SEC_ACK"
  BY DEF Answers
<1>4. AnswerTo(P, R, g)
  BY <1>2, <1>3 DEF AnswerTo, Listening
<1>5. OneUnderWay(P, R, Tail(req), ans) /\ Matching(P, R, Tail(req), ans)
  BY <1>1, <1>3, <1>4, AnswerOut
<1>6. DirType(P, R, Tail(req), ans, gave)
  BY <1>0, <1>1 DEF DirType
<1>7. InStep(P, R, gave)
  BY <1>2 DEF InStep
<1> QED
  BY <1>0, <1>5, <1>6, <1>7 DEF Exchange

LEMMA ReceiveStatusRequest ==
    ASSUME NEW P, NEW S, NEW req, NEW ans, NEW gave,
           Exchange(P, S, req, ans, gave),
           req # <<>>, Head(req).func = "PRI_REQUEST_LINK_STATUS",
           NEW R, Listening(R) <=> Listening(S), R.fcb = S.fcb,
           Answers(R, "SEC_LINK_STATUS")
    PROVE  Exchange(P, R, Tail(req), ans, gave)
<1>0. DirType(P, S, req, ans, gave) /\ States(P) /\ InStep(P, S, gave)
  BY DEF Exchange
<1>1. /\ P.out = <<>> /\ S.out = <<>> /\ None(ans, SecFunction)
      /\ Tail(req) \in Seq(Frame) /\ None(Tail(req), PriFunction)
      /\ RequestOf(P, Head(req))
  BY RequestAlone DEF PriFunction
<1>2. Asking(P)
  BY <1>1 DEF RequestOf
<1>3. PICK g \in Frame : R.out = <<g>> /\ g.func = "SEC_LINK_STATUS"
  BY DEF Answers
<1>4. AnswerTo(P, R, g)
  BY <1>2, <1>3 DEF AnswerTo
<1>5. OneUnderWay(P, R, Tail(req), ans) /\ Matching(P, R, Tail(req), ans)
  BY <1>1, <1>3, <1>4, AnswerOut
<1>6. DirType(P, R, Tail(req), ans, gave)
  BY <1>0, <1>1 DEF DirType
<1>7. InStep(P, R, gave)
  BY <1>0 DEF InStep
<1> QED
  BY <1>0, <1>5, <1>6, <1>7 DEF Exchange

\* User data is acknowledged; with the bit the station expects it is passed up.
LEMMA ReceiveData ==
    ASSUME NEW P, NEW S, NEW req, NEW ans, NEW gave,
           Exchange(P, S, req, ans, gave),
           req # <<>>, Head(req).func = "PRI_CONFIRMED_USER_DATA", S.state = "Reset",
           NEW R, R.state = "TransmitWaitReset", Answers(R, "SEC_ACK"),
           R.fcb = IF Head(req).fcb = S.fcb THEN ~S.fcb ELSE S.fcb
    PROVE  /\ Exchange(P, R, Tail(req), ans, gave)
           /\ Sending(P) /\ P.reset /\ P.segs # <<>>
           /\ Head(req).data = Head(P.segs) /\ Head(req).fcb = P.fcb /\ Head(req).src = P.addr
           /\ R.fcb # P.fcb
<1>0. DirType(P, S, req, ans, gave) /\ States(P) /\ InStep(P, S, gave)
  BY DEF Exchange
<1>1. /\ P.out = <<>> /\ S.out = <<>> /\ None(ans, SecFunction)
      /\ Tail(req) \in Seq(Frame) /\ None(Tail(req), PriFunction)
      /\ RequestOf(P, Head(req))
  BY RequestAlone DEF PriFunction
<1>2. /\ Sending(P) /\ P.reset /\ P.segs # <<>> /\ Head(req).data = Head(P.segs)
      /\ Head(req).fcb = P.fcb /\ Head(req).src = P.addr
  BY <1>0, <1>1 DEF RequestOf, Resetting, Sending, States
<1>3. PICK g \in Frame : R.out = <<g>> /\ g.func = "SEC_ACK"
  BY DEF Answers
<1>4. Listening(R) /\ R.fcb # P.fcb /\ R.fcb \in BOOLEAN
  BY <1>0, <1>2 DEF Listening, DirType
<1>5. AnswerTo(P, R, g)
  BY <1>2, <1>3, <1>4 DEF AnswerTo
<1>6. OneUnderWay(P, R, Tail(req), ans) /\ Matching(P, R, Tail(req), ans)
  BY <1>1, <1>3, <1>5, AnswerOut
<1>7. DirType(P, R, Tail(req), ans, gave)
  BY <1>0, <1>1, <1>4 DEF DirType
<1>8. InStep(P, R, gave)
  BY <1>2 DEF InStep
<1> QED
  BY <1>0, <1>2, <1>4, <1>6, <1>7, <1>8 DEF Exchange

-------------------------------------------------------------------------------
\* The station moves on when nothing is under way.
LEMMA FreshExchange ==
    ASSUME NEW Q, NEW S, NEW req, NEW ans, NEW gave,
           S.out = <<>>, None(req, PriFunction), None(ans, SecFunction),
           DirType(Q, S, req, ans, gave), States(Q), InStep(Q, S, gave),
           Q.out = <<>> \/ \E f : Q.out = <<f>> /\ RequestOf(Q, f)
    PROVE  Exchange(Q, S, req, ans, gave)
<1>1. OneUnderWay(Q, S, req, ans) /\ Matching(Q, S, req, ans)
  BY OutAlone DEF DirType
<1> QED
  BY <1>1 DEF Exchange

\* What an expired response timer does: the request is repeated or given up.
TimeoutStep(P, Q) ==
    /\ Q.fcb = P.fcb /\ Q.reset = P.reset /\ Q.addr = P.addr
    /\ \/ /\ \/ P.state = "ResetLinkWait" /\ Q.state = "LinkResetTransmitWait"
             \/ P.state = "ConfDataWait" /\ Q.state = "ConfUserDataTransmitWait"
          /\ Q.segs = P.segs /\ \E f : Q.out = <<f>> /\ RequestOf(Q, f)
       \/ /\ P.state \in {"ResetLinkWait", "ConfDataWait"} /\ Q.state = "Idle"
          /\ Q.segs = <<>> /\ Q.out = <<>>
       \/ /\ P.state = "RequestLinkStatusWait" /\ Q.state = "Idle"
          /\ Q.segs = P.segs /\ Q.out = <<>>

LEMMA TimeoutExchange ==
    ASSUME NEW P, NEW S, NEW req, NEW ans, NEW gave,
           Exchange(P, S, req, ans, gave),
           S.out = <<>>, None(req, PriFunction), None(ans, SecFunction),
           NEW Q, TimeoutStep(P, Q), NEW gave2 \in BOOLEAN, gave => gave2,
           P.state = "ConfDataWait" /\ Q.state = "Idle" => gave2
    PROVE  Exchange(Q, S, req, ans, gave2)
<1>0. DirType(P, S, req, ans, gave) /\ States(P) /\ InStep(P, S, gave)
  BY DEF Exchange
<1>1. DirType(Q, S, req, ans, gave2)
  <2>1. Q.segs = <<>> \/ Q.segs = P.segs
    BY DEF TimeoutStep
  <2>2. Q.segs \in Seq(Segment)
    BY <1>0, <2>1, EmptyTyped DEF DirType
  <2> QED
    BY <1>0, <2>2 DEF DirType, TimeoutStep
<1>2. Q.out = <<>> \/ \E f : Q.out = <<f>> /\ RequestOf(Q, f)
  BY DEF TimeoutStep
<1>3. States(Q)
  BY <1>0 DEF States, TimeoutStep, Resetting, Sending
<1>5. InStep(Q, S, gave2)
  BY <1>0 DEF InStep, TimeoutStep, Sending, States, Resetting
<1> QED
  BY <1>1, <1>2, <1>3, <1>5, FreshExchange

\* The primary station's endpoint is restarted.
LEMMA PriRestart ==
    ASSUME NEW P, NEW S, NEW req, NEW ans, NEW gave,
           Exchange(P, S, req, ans, gave),
           S.out = <<>>, None(req, PriFunction), None(ans, SecFunction),
           NEW Q, Q.state = "Idle", Q.segs = <<>>, Q.fcb = P.fcb, Q.reset = FALSE,
           Q.out = <<>>, NEW gave2 \in BOOLEAN
    PROVE  Exchange(Q, S, req, ans, gave2)
<1>0. DirType(P, S, req, ans, gave)
  BY DEF Exchange
<1>1. DirType(Q, S, req, ans, gave2)
  <2>1. Q.segs \in Seq(Segment)
    BY EmptyTyped
  <2> QED
    BY <1>0, <2>1 DEF DirType
<1>2. States(Q) /\ InStep(Q, S, gave2)
  BY DEF States, InStep, Resetting, Sending
<1> QED
  BY <1>1, <1>2, FreshExchange

\* The secondary station's endpoint is restarted; its answer is gone.
LEMMA SecRestart ==
    ASSUME NEW P, NEW S, NEW req, NEW ans, NEW gave,
           Exchange(P, S, req, ans, gave),
           P.out = <<>>, None(req, PriFunction), None(ans, SecFunction),
           NEW R, R.state = "NotReset", R.fcb = S.fcb, R.out = <<>>
    PROVE  Exchange(P, R, req, ans, gave)
<1>0. DirType(P, S, req, ans, gave) /\ States(P)
  BY DEF Exchange
<1>1. DirType(P, R, req, ans, gave)
  BY <1>0 DEF DirType
<1>2. ~Listening(R)
  BY DEF Listening
<1>3. InStep(P, R, gave)
  BY <1>0, <1>2 DEF InStep
<1> QED
  BY <1>0, <1>1, <1>3, FreshExchange

\* A new connection: both stations start afresh.
LEMMA BothRestart ==
    ASSUME NEW P, NEW S, NEW req, NEW ans, NEW gave,
           Exchange(P, S, req, ans, gave),
           NEW Q, Q.state = "Idle", Q.segs = <<>>, Q.fcb = P.fcb, Q.reset = FALSE,
           Q.out = <<>>, NEW R, R.state = "NotReset", R.fcb = S.fcb, R.out = <<>>
    PROVE  Exchange(Q, R, <<>>, <<>>, FALSE)
<1>0. DirType(P, S, req, ans, gave)
  BY DEF Exchange
<1>1. DirType(Q, R, <<>>, <<>>, FALSE)
  <2>1. Q.segs \in Seq(Segment) /\ <<>> \in Seq(Frame)
    BY EmptyTyped
  <2> QED
    BY <1>0, <2>1 DEF DirType
<1>2. None(<<>>, PriFunction) /\ None(<<>>, SecFunction)
  BY DEF None
<1>3. States(Q) /\ InStep(Q, R, FALSE)
  BY DEF States, InStep, Resetting, Sending
<1> QED
  BY <1>1, <1>2, <1>3, FreshExchange

\* The upper layer sends what comes next.
LEMMA SendExchange ==
    ASSUME NEW P, NEW S, NEW req, NEW ans, NEW gave,
           Exchange(P, S, req, ans, gave), P.segs = <<>>,
           NEW Q, Q.state = P.state, Q.fcb = P.fcb, Q.reset = P.reset, Q.out = P.out,
           Q.addr = P.addr, Q.segs \in Seq(Segment)
    PROVE  Exchange(Q, S, req, ans, gave)
<1>0. DirType(P, S, req, ans, gave) /\ States(P) /\ InStep(P, S, gave)
  BY DEF Exchange
<1>1. DirType(Q, S, req, ans, gave)
  BY <1>0 DEF DirType
<1>2. ~Sending(P) /\ ~Resetting(P) /\ ~Sending(Q) /\ ~Resetting(Q) /\ (Asking(Q) <=> Asking(P))
  BY <1>0 DEF States, Sending, Resetting, Asking
<1>3. States(Q) /\ InStep(Q, S, gave)
  BY <1>0, <1>2 DEF States, InStep
<1>5. OneUnderWay(Q, S, req, ans)
  BY DEF Exchange, OneUnderWay
<1>6. /\ \A f : RequestOf(P, f) => RequestOf(Q, f)
      /\ \A f : AnswerTo(P, S, f) => AnswerTo(Q, S, f)
  BY <1>2 DEF RequestOf, AnswerTo
<1>7. Matching(Q, S, req, ans)
  BY <1>6 DEF Exchange, Matching
<1> QED
  BY <1>1, <1>3, <1>5, <1>7 DEF Exchange

\* The secondary station's answer has been written.
SameEar(S, R) ==
    (Listening(R) <=> Listening(S)) /\ R.fcb = S.fcb /\ R.out = S.out

LEMMA SameEarExchange ==
    ASSUME NEW P, NEW S, NEW req, NEW ans, NEW gave,
           Exchange(P, S, req, ans, gave), NEW R, SameEar(S, R)
    PROVE  Exchange(P, R, req, ans, gave)
<1>1. DirType(P, R, req, ans, gave)
  BY DEF Exchange, DirType, SameEar
<1>2. OneUnderWay(P, R, req, ans)
  BY DEF Exchange, OneUnderWay, SameEar
<1>3. \A f : AnswerTo(P, S, f) => AnswerTo(P, R, f)
  BY DEF AnswerTo, SameEar
<1>4. Matching(P, R, req, ans)
  BY <1>3 DEF Exchange, Matching, SameEar
<1>5. InStep(P, R, gave)
  BY DEF Exchange, InStep, SameEar
<1> QED
  BY <1>1, <1>2, <1>4, <1>5 DEF Exchange

-------------------------------------------------------------------------------
(* What the handlers of LinkContext do to the two stations.                 *)

\* A context whose channel is open; w: the frame in the channel is on the wire.
Open(c, w) == c.isOnline /\ Live(c) /\ (w => c.tx # <<>>)

\* What is neither station's own.
Steady(c, d, w) == d.config = c.config /\ d.up = c.up /\ Open(d, w)

\* The fields a station or the channel is made of, the primary state apart.
Alike(c, d) ==
    /\ d.config = c.config /\ d.up = c.up /\ d.isOnline = c.isOnline
    /\ d.pSegments = c.pSegments /\ d.nextWriteFCB = c.nextWriteFCB
    /\ d.isRemoteReset = c.isRemoteReset
    /\ d.pSecState = c.pSecState /\ d.nextReadFCB = c.nextReadFCB
    /\ d.txMode = c.txMode /\ d.tx = c.tx
    /\ d.pendingPriTx = c.pendingPriTx /\ d.pendingSecTx = c.pendingSecTx

LEMMA AlikeFacts ==
    ASSUME NEW c, NEW d, NEW w, Alike(c, d)
    PROVE  /\ PriOut(d, w) = PriOut(c, w) /\ Sec(d, w) = Sec(c, w)
           /\ Open(c, w) => Steady(c, d, w)
           /\ d.pPriState = c.pPriState => Pri(d, w) = Pri(c, w)
<1>1. PriOut(d, w) = PriOut(c, w) /\ SecOut(d, w) = SecOut(c, w)
  BY DEF Alike, PriOut, SecOut
<1>2. Open(c, w) => Steady(c, d, w)
  BY DEF Alike, Open, Steady, Live
<1> QED
  BY <1>1, <1>2 DEF Alike, Pri, Sec

LEMMA SteadyTransitive ==
    ASSUME NEW c, NEW d, NEW e, NEW w, Steady(c, d, w), Steady(d, e, w)
    PROVE  Steady(c, e, w)
  BY DEF Steady

LEMMA OneFrame ==
    ASSUME NEW f
    PROVE  <<f>> # <<>> /\ Head(<<f>>) = f /\ Append(<<>>, f) = <<f>> /\ (<<f>>)[1] = f
  OBVIOUS

\* The primary station queues a frame.
LEMMA QueuePri ==
    ASSUME NEW c, PriReady(c), NEW w, Open(c, w), NEW f \in Frame,
           NEW d, d = QueueTransmit(c, f, "Primary")
    PROVE  /\ SameRest(c, d) /\ Steady(c, d, w)
           /\ PriOut(d, w) = <<f>> /\ Sec(d, w) = Sec(c, w)
<1>1. c \in LinkContextType /\ Chan(c) /\ ~PriFrameOut(c)
  BY DEF PriReady
<1>2. SameRest(c, d) /\ Kept(c, d)
  BY QueuePrimary
<1>3. ASSUME c.txMode = "Idle"
      PROVE  Open(d, w) /\ PriOut(d, w) = <<f>> /\ SecOut(d, w) = SecOut(c, w)
  <2> DEFINE x == [station |-> "Primary", frame |-> f]
  <2>1. /\ c.tx = <<>> /\ c.pendingSecTx = <<>> /\ c.pendingPriTx = <<>> /\ ~w
    BY <1>1, <1>3 DEF Chan, Open
  <2>2. /\ d.txMode = "Primary" /\ d.pendingPriTx = c.pendingPriTx
        /\ d.pendingSecTx = c.pendingSecTx /\ d.tx = Append(c.tx, x)
    BY <1>1, <1>3 DEF QueueTransmit, BeginTransmit, LinkContextType, Open
  <2>3. x.frame = f
    OBVIOUS
  <2> HIDE DEF x
  <2>4. d.tx = <<x>> /\ <<x>> # <<>> /\ (<<x>>)[1] = x
    BY <2>1, <2>2, OneFrame
  <2>5. d.tx # <<>> /\ d.tx[1].frame = f
    BY <2>3, <2>4
  <2>6. PriOut(d, w) = <<f>>
    BY <2>1, <2>2, <2>5 DEF PriOut
  <2>7. SecOut(d, w) = <<>> /\ SecOut(c, w) = <<>>
    BY <1>3, <2>1, <2>2 DEF SecOut
  <2> QED
    BY <1>2, <2>5, <2>6, <2>7 DEF Open, Live, SameRest
<1>4. ASSUME c.txMode # "Idle"
      PROVE  Open(d, w) /\ PriOut(d, w) = <<f>> /\ SecOut(d, w) = SecOut(c, w)
  <2>1. /\ d.txMode = c.txMode /\ d.tx = c.tx /\ d.pendingPriTx = <<f>>
        /\ d.pendingSecTx = c.pendingSecTx
    BY <1>1, <1>4 DEF QueueTransmit, LinkContextType
  <2>2. PriOut(d, w) = <<f>>
    BY <2>1, OneFrame DEF PriOut
  <2>3. SecOut(d, w) = SecOut(c, w)
    BY <2>1 DEF SecOut
  <2> QED
    BY <1>2, <2>1, <2>2, <2>3 DEF Open, Live, SameRest
<1> QED
  BY <1>2, <1>3, <1>4 DEF Steady, SameRest, Sec

\* The secondary station queues an answer.
LEMMA QueueSec ==
    ASSUME NEW c \in LinkContextType, Chan(c), ~c.clobbered, ~SecFrameOut(c),
           NEW w, Open(c, w), NEW f \in Frame,
           NEW d, d = QueueTransmit(c, f, "Secondary")
    PROVE  /\ SameRest(c, d) /\ Steady(c, d, w)
           /\ SecOut(d, w) = <<f>> /\ Pri(d, w) = Pri(c, w)
<1>2. SameRest(c, d) /\ SameSession(c, d)
  BY QueueSecondary
<1>3. ASSUME c.txMode = "Idle"
      PROVE  Open(d, w) /\ SecOut(d, w) = <<f>> /\ PriOut(d, w) = PriOut(c, w)
  <2> DEFINE x == [station |-> "Secondary", frame |-> f]
  <2>1. /\ c.tx = <<>> /\ c.pendingSecTx = <<>> /\ c.pendingPriTx = <<>> /\ ~w
    BY <1>3 DEF Chan, Open
  <2>2. /\ d.txMode = "Secondary" /\ d.pendingPriTx = c.pendingPriTx
        /\ d.pendingSecTx = c.pendingSecTx /\ d.tx = Append(c.tx, x)
    BY <1>3 DEF QueueTransmit, BeginTransmit, LinkContextType, Open
  <2>3. x.frame = f
    OBVIOUS
  <2> HIDE DEF x
  <2>4. d.tx = <<x>> /\ <<x>> # <<>> /\ (<<x>>)[1] = x
    BY <2>1, <2>2, OneFrame
  <2>5. d.tx # <<>> /\ d.tx[1].frame = f
    BY <2>3, <2>4
  <2>6. SecOut(d, w) = <<f>>
    BY <2>1, <2>2, <2>5 DEF SecOut
  <2>7. PriOut(d, w) = <<>> /\ PriOut(c, w) = <<>>
    BY <1>3, <2>1, <2>2 DEF PriOut
  <2> QED
    BY <1>2, <2>5, <2>6, <2>7 DEF Open, Live, SameRest
<1>4. ASSUME c.txMode # "Idle"
      PROVE  Open(d, w) /\ SecOut(d, w) = <<f>> /\ PriOut(d, w) = PriOut(c, w)
  <2>1. /\ d.txMode = c.txMode /\ d.tx = c.tx /\ d.pendingSecTx = <<f>>
        /\ d.pendingPriTx = c.pendingPriTx
    BY <1>4 DEF QueueTransmit, LinkContextType
  <2>2. SecOut(d, w) = <<f>>
    BY <2>1, OneFrame DEF SecOut
  <2>3. PriOut(d, w) = PriOut(c, w)
    BY <2>1 DEF PriOut
  <2> QED
    BY <1>2, <2>1, <2>2, <2>3 DEF Open, Live, SameRest
<1> QED
  BY <1>2, <1>3, <1>4 DEF Steady, SameRest, Pri

\* The frame a primary station formats for the current segment.
LEMMA DataFrame ==
    ASSUME NEW c \in LinkContextType, HasSegments(c),
           NEW f, f = FormatHeader(c, "PRI_CONFIRMED_USER_DATA", c.nextWriteFCB, TRUE,
                                   c.pSegments.destination, Head(c.pSegments.segs))
    PROVE  /\ f \in Frame /\ f.func = "PRI_CONFIRMED_USER_DATA"
           /\ f.fcb = c.nextWriteFCB /\ f.data = Head(c.pSegments.segs)
           /\ f.src = c.config.LocalAddr
<1>1. c.pSegments.destination \in Address /\ Head(c.pSegments.segs) \in Segment
  BY SegmentFacts
<1>2. c.nextWriteFCB \in BOOLEAN
  BY DEF LinkContextType
<1>3. f \in Frame
  BY <1>1, <1>2, ConfirmedFrame
<1> QED
  BY <1>3 DEF FormatHeader

\* What the primary station's fields become when it queues its next request.
Requests(c, e, w, state) ==
    /\ e.pPriState = state /\ e.pSegments = c.pSegments
    /\ e.nextWriteFCB = c.nextWriteFCB /\ e.isRemoteReset = c.isRemoteReset
    /\ e.keepAliveTimeout = c.keepAliveTimeout
    /\ Sec(e, w) = Sec(c, w) /\ Steady(c, e, w)
    /\ \E f : Pri(e, w).out = <<f>> /\ RequestOf(Pri(e, w), f)

LEMMA RequestsData ==
    ASSUME NEW c, PriReady(c), HasSegments(c), NEW w, Open(c, w),
           NEW e, e = EnterPri(QueueConfirmed(c), "ConfUserDataTransmitWait")
    PROVE  Requests(c, e, w, "ConfUserDataTransmitWait")
<1> DEFINE f == FormatHeader(c, "PRI_CONFIRMED_USER_DATA", c.nextWriteFCB, TRUE,
                             c.pSegments.destination, Head(c.pSegments.segs))
           d == QueueTransmit(c, f, "Primary")
<1>1. c \in LinkContextType
  BY DEF PriReady
<1>4. /\ f \in Frame /\ f.func = "PRI_CONFIRMED_USER_DATA"
      /\ f.fcb = c.nextWriteFCB /\ f.data = Head(c.pSegments.segs)
      /\ f.src = c.config.LocalAddr
  BY <1>1, DataFrame
<1>5. e = EnterPri(d, "ConfUserDataTransmitWait")
  BY DEF QueueConfirmed
<1> HIDE DEF f
<1>6. /\ SameRest(c, d) /\ Steady(c, d, w)
      /\ PriOut(d, w) = <<f>> /\ Sec(d, w) = Sec(c, w)
  BY <1>4, QueuePri
<1>7. d \in LinkContextType
  BY <1>4, QueuePrimary
<1> HIDE DEF d
<1>8. /\ Alike(d, e) /\ e.pPriState = "ConfUserDataTransmitWait"
      /\ e.keepAliveTimeout = d.keepAliveTimeout
  BY <1>5, <1>7 DEF EnterPri, Alike, LinkContextType
<1>9. PriOut(e, w) = <<f>> /\ Sec(e, w) = Sec(c, w) /\ Steady(c, e, w)
  BY <1>6, <1>8, AlikeFacts, SteadyTransitive DEF Steady
<1>10. /\ e.pSegments = c.pSegments /\ e.nextWriteFCB = c.nextWriteFCB
       /\ e.isRemoteReset = c.isRemoteReset /\ e.keepAliveTimeout = c.keepAliveTimeout
  BY <1>6, <1>8 DEF Alike, SameRest
<1>11. RequestOf(Pri(e, w), f) /\ Pri(e, w).out = <<f>>
  BY <1>4, <1>8, <1>9, <1>10 DEF RequestOf, Pri, Sending, Steady
<1> QED
  BY <1>8, <1>9, <1>10, <1>11 DEF Requests

LEMMA RequestsReset ==
    ASSUME NEW c, PriReady(c), NEW dest \in Address, NEW w, Open(c, w),
           NEW e, e = EnterPri(QueueResetLinks(c, dest), "LinkResetTransmitWait")
    PROVE  Requests(c, e, w, "LinkResetTransmitWait")
<1> DEFINE f == FormatHeader(c, "PRI_RESET_LINK_STATES", FALSE, FALSE, dest, NoData)
           d == QueueTransmit(c, f, "Primary")
<1>1. c \in LinkContextType
  BY DEF PriReady
<1>3. f.src = c.config.LocalAddr
  BY DEF FormatHeader
<1>4. f \in Frame /\ f.func = "PRI_RESET_LINK_STATES"
  BY <1>1, PlainFrame
<1>5. e = EnterPri(d, "LinkResetTransmitWait")
  BY DEF QueueResetLinks
<1> HIDE DEF f
<1>6. /\ SameRest(c, d) /\ Steady(c, d, w)
      /\ PriOut(d, w) = <<f>> /\ Sec(d, w) = Sec(c, w)
  BY <1>4, QueuePri
<1>7. d \in LinkContextType
  BY <1>4, QueuePrimary
<1> HIDE DEF d
<1>8. /\ Alike(d, e) /\ e.pPriState = "LinkResetTransmitWait"
      /\ e.keepAliveTimeout = d.keepAliveTimeout
  BY <1>5, <1>7 DEF EnterPri, Alike, LinkContextType
<1>9. PriOut(e, w) = <<f>> /\ Sec(e, w) = Sec(c, w) /\ Steady(c, e, w)
  BY <1>6, <1>8, AlikeFacts, SteadyTransitive DEF Steady
<1>10. /\ e.pSegments = c.pSegments /\ e.nextWriteFCB = c.nextWriteFCB
       /\ e.isRemoteReset = c.isRemoteReset /\ e.keepAliveTimeout = c.keepAliveTimeout
  BY <1>6, <1>8 DEF Alike, SameRest
<1>11. RequestOf(Pri(e, w), f) /\ Pri(e, w).out = <<f>>
  BY <1>3, <1>4, <1>8, <1>9 DEF RequestOf, Pri, Resetting, Steady
<1> QED
  BY <1>8, <1>9, <1>10, <1>11 DEF Requests

LEMMA RequestsStatus ==
    ASSUME NEW c, PriReady(c), NEW dest \in Address, NEW w, Open(c, w),
           NEW e, e = EnterPri(QueueRequestLinkStatus(c, dest), "RequestLinkStatusTransmitWait")
    PROVE  Requests(c, e, w, "RequestLinkStatusTransmitWait")
<1> DEFINE f == FormatHeader(c, "PRI_REQUEST_LINK_STATUS", FALSE, FALSE, dest, NoData)
           d == QueueTransmit(c, f, "Primary")
<1>1. c \in LinkContextType
  BY DEF PriReady
<1>3. f.src = c.config.LocalAddr
  BY DEF FormatHeader
<1>4. f \in Frame /\ f.func = "PRI_REQUEST_LINK_STATUS"
  BY <1>1, PlainFrame
<1>5. e = EnterPri(d, "RequestLinkStatusTransmitWait")
  BY DEF QueueRequestLinkStatus
<1> HIDE DEF f
<1>6. /\ SameRest(c, d) /\ Steady(c, d, w)
      /\ PriOut(d, w) = <<f>> /\ Sec(d, w) = Sec(c, w)
  BY <1>4, QueuePri
<1>7. d \in LinkContextType
  BY <1>4, QueuePrimary
<1> HIDE DEF d
<1>8. /\ Alike(d, e) /\ e.pPriState = "RequestLinkStatusTransmitWait"
      /\ e.keepAliveTimeout = d.keepAliveTimeout
  BY <1>5, <1>7 DEF EnterPri, Alike, LinkContextType
<1>9. PriOut(e, w) = <<f>> /\ Sec(e, w) = Sec(c, w) /\ Steady(c, e, w)
  BY <1>6, <1>8, AlikeFacts, SteadyTransitive DEF Steady
<1>10. /\ e.pSegments = c.pSegments /\ e.nextWriteFCB = c.nextWriteFCB
       /\ e.isRemoteReset = c.isRemoteReset /\ e.keepAliveTimeout = c.keepAliveTimeout
  BY <1>6, <1>8 DEF Alike, SameRest
<1>11. RequestOf(Pri(e, w), f) /\ Pri(e, w).out = <<f>>
  BY <1>3, <1>4, <1>8, <1>9 DEF RequestOf, Pri, Asking, Steady
<1> QED
  BY <1>8, <1>9, <1>10, <1>11 DEF Requests

\* Pri of a context that queued a request.
LEMMA RequestsPri ==
    ASSUME NEW c, NEW e, NEW w, NEW state, Requests(c, e, w, state)
    PROVE  /\ Pri(e, w).state = state /\ Pri(e, w).segs = c.pSegments.segs
           /\ Pri(e, w).fcb = c.nextWriteFCB /\ Pri(e, w).reset = c.isRemoteReset
           /\ Pri(e, w).addr = c.config.LocalAddr
           /\ \E f : Pri(e, w).out = <<f>> /\ RequestOf(Pri(e, w), f)
  BY DEF Requests, Pri, Steady

\* The segments a context holds.
LEMMA SegmentsHeld ==
    ASSUME NEW c \in LinkContextType
    PROVE  c.pSegments.segs \in Seq(Segment) /\ (HasSegments(c) <=> c.pSegments.segs # <<>>)
<1>1. c.pSegments \in Segments \/ c.pSegments = NoSegments
  BY DEF LinkContextType
<1>2. NoSegments.segs = <<>>
  BY DEF NoSegments
<1>3. c.pSegments \in Segments => c.pSegments.segs \in Seq(Segment) /\ c.pSegments.segs # <<>>
  BY DEF Segments
<1> QED
  BY <1>1, <1>2, <1>3, EmptyTyped DEF HasSegments

\* Idle stations start what there is to do.
LEMMA StartStep ==
    ASSUME NEW c, Base(c), NEW w, Open(c, w), c.config.UseConfirms,
           NEW r, r = TryStartTransmission(c)
    PROVE  /\ Pri(r, w) = Pri(c, w) \/ Starts(Pri(c, w), Pri(r, w))
           /\ Sec(r, w) = Sec(c, w) /\ Steady(c, r, w)
<1>1. c \in LinkContextType
  BY DEF Base
<1>2. CASE c.pPriState # "Idle"
  <2>1. r = c
    BY <1>2 DEF TryStartTransmission, TrySendRequestLinkStatus, TrySendConfirmed
  <2> QED
    BY <2>1 DEF Steady
<1>3. CASE c.pPriState = "Idle" /\ c.keepAliveTimeout
  <2> DEFINE a == [c EXCEPT !.keepAliveTimeout = FALSE]
             e == EnterPri(QueueRequestLinkStatus(a, c.config.RemoteAddr),
                           "RequestLinkStatusTransmitWait")
  <2>1. PriReady(c)
    BY <1>3, IdleReady
  <2>2. a \in LinkContextType /\ Alike(c, a) /\ SameTx(c, a)
        /\ a.rspTimeoutTimer = c.rspTimeoutTimer
    BY <1>1 DEF LinkContextType, Alike, SameTx
  <2> HIDE DEF a
  <2>3. PriReady(a) /\ Open(a, w) /\ Sec(a, w) = Sec(c, w) /\ Steady(c, a, w)
    BY <2>1, <2>2, ReadyAfter, AlikeFacts DEF PriReady, Steady
  <2>4. Requests(a, e, w, "RequestLinkStatusTransmitWait")
    BY <1>1, <2>3, RemoteAddrType, RequestsStatus
  <2>5. r = e
    <3>1. e = TrySendRequestLinkStatus(c)
      BY <1>3 DEF TrySendRequestLinkStatus, a
    <3>2. e.pPriState = "RequestLinkStatusTransmitWait" /\ e.config.UseConfirms
      BY <2>2, <2>4 DEF Requests, Steady, Alike
    <3> HIDE DEF e
    <3> QED
      BY <1>3, <3>1, <3>2 DEF TryStartTransmission, TrySendConfirmed
  <2> HIDE DEF e
  <2>6. Starts(Pri(c, w), Pri(r, w))
    <3>1. /\ Pri(e, w).state = "RequestLinkStatusTransmitWait"
          /\ Pri(e, w).segs = a.pSegments.segs
          /\ Pri(e, w).fcb = a.nextWriteFCB /\ Pri(e, w).reset = a.isRemoteReset
          /\ Pri(e, w).addr = a.config.LocalAddr
          /\ \E f : Pri(e, w).out = <<f>> /\ RequestOf(Pri(e, w), f)
      BY <2>4, RequestsPri
    <3>2. /\ Pri(c, w).state = "Idle" /\ Pri(c, w).segs = a.pSegments.segs
          /\ Pri(c, w).fcb = a.nextWriteFCB /\ Pri(c, w).reset = a.isRemoteReset
          /\ Pri(c, w).addr = a.config.LocalAddr
      BY <1>3, <2>2 DEF Pri, Alike
    <3> QED
      BY <2>5, <3>1, <3>2 DEF Starts
  <2> QED
    BY <2>3, <2>4, <2>5, <2>6, SteadyTransitive DEF Requests
<1>4. CASE c.pPriState = "Idle" /\ ~c.keepAliveTimeout /\ ~HasSegments(c)
  <2>1. r = c
    BY <1>4 DEF TryStartTransmission
  <2> QED
    BY <2>1 DEF Steady
<1>5. CASE c.pPriState = "Idle" /\ ~c.keepAliveTimeout /\ HasSegments(c)
  <2> DEFINE a == ResetRetry(c)
  <2>1. PriReady(c)
    BY <1>5, IdleReady
  <2>2. a \in LinkContextType /\ Alike(c, a) /\ SameTx(c, a)
        /\ a.rspTimeoutTimer = c.rspTimeoutTimer
    BY <1>1, ResetRetryFacts DEF ResetRetry, LinkContextType, Alike
  <2>3. r = TrySendConfirmed(c)
    BY <1>5 DEF TryStartTransmission
  <2> HIDE DEF a
  <2>4. PriReady(a) /\ Open(a, w) /\ Sec(a, w) = Sec(c, w) /\ Steady(c, a, w)
    BY <2>1, <2>2, ReadyAfter, AlikeFacts DEF PriReady, Steady
  <2>5. HasSegments(a) /\ c.pSegments.destination \in Address /\ c.pSegments.segs # <<>>
    BY <1>1, <1>5, <2>2, SegmentFacts, SegmentsHeld DEF Alike, HasSegments
  <2>6. \/ c.isRemoteReset /\ Requests(a, r, w, "ConfUserDataTransmitWait")
        \/ ~c.isRemoteReset /\ Requests(a, r, w, "LinkResetTransmitWait")
    <3>1. CASE c.isRemoteReset
      <4>1. r = EnterPri(QueueConfirmed(a), "ConfUserDataTransmitWait")
        BY <1>5, <2>3, <3>1 DEF TrySendConfirmed, a
      <4> QED
        BY <2>4, <2>5, <3>1, <4>1, RequestsData
    <3>2. CASE ~c.isRemoteReset
      <4>1. r = EnterPri(QueueResetLinks(a, c.pSegments.destination), "LinkResetTransmitWait")
        BY <1>5, <2>3, <3>2 DEF TrySendConfirmed, a
      <4> QED
        BY <2>4, <2>5, <3>2, <4>1, RequestsReset
    <3> QED
      BY <3>1, <3>2
  <2>7. /\ Pri(c, w).state = "Idle" /\ Pri(c, w).segs = a.pSegments.segs
        /\ Pri(c, w).fcb = a.nextWriteFCB /\ Pri(c, w).reset = a.isRemoteReset
        /\ Pri(c, w).reset = c.isRemoteReset /\ Pri(c, w).segs = c.pSegments.segs
        /\ Pri(c, w).addr = a.config.LocalAddr
    BY <1>5, <2>2 DEF Pri, Alike
  <2>8. Starts(Pri(c, w), Pri(r, w))
    <3>1. CASE c.isRemoteReset /\ Requests(a, r, w, "ConfUserDataTransmitWait")
      <4>1. /\ Pri(r, w).state = "ConfUserDataTransmitWait" /\ Pri(r, w).segs = a.pSegments.segs
            /\ Pri(r, w).fcb = a.nextWriteFCB /\ Pri(r, w).reset = a.isRemoteReset
            /\ Pri(r, w).addr = a.config.LocalAddr
            /\ \E f : Pri(r, w).out = <<f>> /\ RequestOf(Pri(r, w), f)
        BY <3>1, RequestsPri
      <4> QED
        BY <2>5, <2>7, <3>1, <4>1 DEF Starts
    <3>2. CASE ~c.isRemoteReset /\ Requests(a, r, w, "LinkResetTransmitWait")
      <4>1. /\ Pri(r, w).state = "LinkResetTransmitWait" /\ Pri(r, w).segs = a.pSegments.segs
            /\ Pri(r, w).fcb = a.nextWriteFCB /\ Pri(r, w).reset = a.isRemoteReset
            /\ Pri(r, w).addr = a.config.LocalAddr
            /\ \E f : Pri(r, w).out = <<f>> /\ RequestOf(Pri(r, w), f)
        BY <3>2, RequestsPri
      <4> QED
        BY <2>5, <2>7, <3>2, <4>1 DEF Starts
    <3> QED
      BY <2>6, <3>1, <3>2
  <2>9. Sec(r, w) = Sec(a, w) /\ Steady(a, r, w)
    BY <2>6 DEF Requests
  <2> QED
    BY <2>4, <2>8, <2>9, SteadyTransitive
<1> QED
  BY <1>2, <1>3, <1>4, <1>5

\* The same frames, parked and in the channel.
SameChannel(c, d) ==
    /\ d.txMode = c.txMode /\ d.tx = c.tx /\ d.isOnline = c.isOnline
    /\ d.pendingPriTx = c.pendingPriTx /\ d.pendingSecTx = c.pendingSecTx

LEMMA SameChannelFacts ==
    ASSUME NEW c, NEW d, NEW w, SameChannel(c, d)
    PROVE  /\ PriOut(d, w) = PriOut(c, w) /\ SecOut(d, w) = SecOut(c, w)
           /\ Open(c, w) => Open(d, w)
  BY DEF SameChannel, PriOut, SecOut, Open, Live

LEMMA NothingOut ==
    ASSUME NEW c, NEW w
    PROVE  /\ ~PriFrameOut(c) => PriOut(c, w) = <<>>
           /\ ~SecFrameOut(c) => SecOut(c, w) = <<>>
  BY DEF PriFrameOut, SecFrameOut, PriOut, SecOut

\* PriOnAck: the reset is done or the segment is, and the next one goes out.
LEMMA AckEffect ==
    ASSUME NEW c, Base(c), NEW w, Open(c, w), NEW r, r = PriOnAck(c)
    PROVE  AckStep(Pri(c, w), Pri(r, w)) /\ Sec(r, w) = Sec(c, w) /\ Steady(c, r, w)
<1>0. c \in LinkContextType
  BY DEF Base
<1>1. CASE c.pPriState = "ResetLinkWait"
  <2> DEFINE a == [c EXCEPT !.isRemoteReset = TRUE, !.nextWriteFCB = TRUE]
             d == CancelTimer(a)
             q == QueueConfirmed(d)
             e == EnterPri(q, "ConfUserDataTransmitWait")
  <2>1. Chan(c) /\ ~c.clobbered /\ ~PriFrameOut(c) /\ HasSegments(c)
    BY <1>1, WaitingFacts DEF PriResponseWait
  <2>2. /\ a \in LinkContextType /\ SameTx(c, a) /\ a.pSegments = c.pSegments
        /\ a.isRemoteReset = TRUE /\ a.nextWriteFCB = TRUE
        /\ a.config = c.config /\ a.up = c.up /\ a.nextReadFCB = c.nextReadFCB
    BY <1>0 DEF LinkContextType, SameTx
  <2> HIDE DEF a
  <2>3. Chan(a) /\ ~a.clobbered /\ ~PriFrameOut(a)
    BY <2>1, <2>2, SameTxKept DEF SameTx
  <2>4. PriReady(d) /\ d \in LinkContextType /\ SameTx(a, d) /\ Alike(a, d)
    BY <2>2, <2>3, AfterCancel, CancelTimerFacts DEF CancelTimer, Alike, LinkContextType
  <2> HIDE DEF d
  <2>5. /\ d.pSegments = c.pSegments /\ d.isRemoteReset = TRUE /\ d.nextWriteFCB = TRUE
        /\ d.config = c.config /\ d.up = c.up /\ d.nextReadFCB = c.nextReadFCB
        /\ d.pSecState = c.pSecState /\ SameChannel(c, d)
    BY <2>2, <2>4 DEF Alike, SameTx, SameChannel
  <2>6. HasSegments(d) /\ Open(d, w) /\ Sec(d, w) = Sec(c, w)
    BY <2>1, <2>5, SameChannelFacts DEF HasSegments, Sec
  <2>7. Requests(d, e, w, "ConfUserDataTransmitWait")
    BY <2>4, <2>6, RequestsData
  <2>8. q \in LinkContextType
    <3> DEFINE f == FormatHeader(d, "PRI_CONFIRMED_USER_DATA", d.nextWriteFCB, TRUE,
                                 d.pSegments.destination, Head(d.pSegments.segs))
    <3>1. q = QueueTransmit(d, f, "Primary")
      BY DEF QueueConfirmed
    <3>2. f \in Frame
      BY <2>4, <2>6, DataFrame
    <3> HIDE DEF f, q
    <3> QED
      BY <2>4, <3>1, <3>2, QueuePrimary
  <2> HIDE DEF q
  <2>9. r = EnterPri(OnStateChange(q, "RESET"), "ConfUserDataTransmitWait")
    BY <1>1 DEF PriOnAck, ResetLinkWaitOnAck, q, d, a
  <2>10. Alike(e, r) /\ r.pPriState = e.pPriState
    BY <2>8, <2>9 DEF EnterPri, OnStateChange, Alike, LinkContextType
  <2> HIDE DEF e
  <2>11. /\ Pri(r, w) = Pri(e, w) /\ Sec(r, w) = Sec(e, w)
         /\ Open(e, w) => Steady(e, r, w)
    BY <2>10, AlikeFacts
  <2>12. AckStep(Pri(c, w), Pri(r, w))
    <3>1. /\ Pri(e, w).state = "ConfUserDataTransmitWait"
          /\ Pri(e, w).segs = d.pSegments.segs
          /\ Pri(e, w).fcb = d.nextWriteFCB /\ Pri(e, w).reset = d.isRemoteReset
          /\ Pri(e, w).addr = d.config.LocalAddr
          /\ \E f : Pri(e, w).out = <<f>> /\ RequestOf(Pri(e, w), f)
      BY <2>7, RequestsPri
    <3>2. Pri(c, w).state = "ResetLinkWait" /\ Pri(c, w).segs = c.pSegments.segs
          /\ Pri(c, w).addr = d.config.LocalAddr
      BY <1>1, <2>5 DEF Pri
    <3> QED
      BY <2>5, <2>11, <3>1, <3>2 DEF AckStep
  <2>13. Sec(e, w) = Sec(d, w) /\ Steady(d, e, w)
    BY <2>7 DEF Requests
  <2> QED
    BY <2>5, <2>6, <2>11, <2>12, <2>13 DEF Steady
<1>2. CASE c.pPriState = "ConfDataWait"
  <2> DEFINE a == [c EXCEPT !.nextWriteFCB = ~@]
             d == CancelTimer(a)
  <2>1. Chan(c) /\ ~c.clobbered /\ ~PriFrameOut(c) /\ HasSegments(c)
    BY <1>2, WaitingFacts DEF PriResponseWait
  <2>2. /\ a \in LinkContextType /\ SameTx(c, a) /\ a.pSegments = c.pSegments
        /\ a.isRemoteReset = c.isRemoteReset /\ a.nextWriteFCB = ~c.nextWriteFCB
        /\ a.config = c.config /\ a.up = c.up /\ a.nextReadFCB = c.nextReadFCB
    BY <1>0 DEF LinkContextType, SameTx
  <2>3. r = IF MoreSegments(d)
            THEN EnterPri(QueueConfirmed(Advance(d)), "ConfUserDataTransmitWait")
            ELSE EnterPri(CompleteSendOperation(d), "Idle")
    BY <1>2 DEF PriOnAck, ConfDataWaitOnAck
  <2> HIDE DEF a
  <2>4. Chan(a) /\ ~a.clobbered /\ ~PriFrameOut(a)
    BY <2>1, <2>2, SameTxKept DEF SameTx
  <2>5. PriReady(d) /\ d \in LinkContextType /\ SameTx(a, d) /\ Alike(a, d)
    BY <2>2, <2>4, AfterCancel, CancelTimerFacts DEF CancelTimer, Alike, LinkContextType
  <2> HIDE DEF d
  <2>6. /\ d.pSegments = c.pSegments /\ d.isRemoteReset = c.isRemoteReset
        /\ d.nextWriteFCB = ~c.nextWriteFCB
        /\ d.config = c.config /\ d.up = c.up /\ d.nextReadFCB = c.nextReadFCB
        /\ d.pSecState = c.pSecState /\ SameChannel(c, d)
    BY <2>2, <2>5 DEF Alike, SameTx, SameChannel
  <2>7. HasSegments(d) /\ Open(d, w) /\ Sec(d, w) = Sec(c, w) /\ PriOut(d, w) = <<>>
    BY <2>1, <2>6, SameChannelFacts, NothingOut DEF HasSegments, Sec
  <2>8. /\ Pri(c, w).state = "ConfDataWait" /\ Pri(c, w).segs = c.pSegments.segs
        /\ Pri(c, w).fcb = c.nextWriteFCB /\ Pri(c, w).reset = c.isRemoteReset
        /\ Pri(c, w).addr = c.config.LocalAddr
    BY <1>2 DEF Pri
  <2>9. CASE Len(c.pSegments.segs) > 1
    <3> DEFINE b == Advance(d)
    <3>1. MoreSegments(d)
      BY <2>6, <2>9 DEF MoreSegments
    <3>2. /\ b \in LinkContextType /\ HasSegments(b) /\ SameTx(d, b)
          /\ b.rspTimeoutTimer = d.rspTimeoutTimer
      BY <2>5, <2>7, <3>1, AdvanceFacts
    <3>3. /\ b.pSegments.segs = Tail(d.pSegments.segs)
          /\ b.isRemoteReset = d.isRemoteReset /\ b.nextWriteFCB = d.nextWriteFCB
          /\ b.config = d.config /\ b.up = d.up /\ b.nextReadFCB = d.nextReadFCB
      <4>1. d.pSegments \in Segments
        BY <2>5, <2>7, SegmentFacts
      <4> QED
        BY <2>5, <4>1 DEF Advance, LinkContextType, Segments
    <3>4. r = EnterPri(QueueConfirmed(b), "ConfUserDataTransmitWait")
      BY <2>3, <3>1
    <3> HIDE DEF b
    <3>5. PriReady(b) /\ Open(b, w) /\ Sec(b, w) = Sec(d, w)
      <4>1. SameChannel(d, b) /\ b.pSecState = d.pSecState
        BY <3>2 DEF SameChannel, SameTx
      <4>2. PriReady(b)
        BY <2>5, <3>2, ReadyAfter DEF PriReady
      <4> QED
        BY <2>7, <3>3, <4>1, <4>2, SameChannelFacts DEF Sec
    <3>6. Requests(b, r, w, "ConfUserDataTransmitWait")
      BY <3>2, <3>4, <3>5, RequestsData
    <3>7. /\ Pri(r, w).state = "ConfUserDataTransmitWait"
          /\ Pri(r, w).segs = b.pSegments.segs
          /\ Pri(r, w).fcb = b.nextWriteFCB /\ Pri(r, w).reset = b.isRemoteReset
          /\ Pri(r, w).addr = b.config.LocalAddr
          /\ \E f : Pri(r, w).out = <<f>> /\ RequestOf(Pri(r, w), f)
      BY <3>6, RequestsPri
    <3>8. AckStep(Pri(c, w), Pri(r, w))
      BY <2>6, <2>8, <2>9, <3>3, <3>7 DEF AckStep
    <3>9. Sec(r, w) = Sec(b, w) /\ Steady(b, r, w)
      BY <3>6 DEF Requests
    <3> QED
      BY <2>6, <2>7, <3>3, <3>5, <3>8, <3>9 DEF Steady
  <2>10. CASE ~(Len(c.pSegments.segs) > 1)
    <3>1. r = EnterPri(CompleteSendOperation(d), "Idle")
      BY <2>3, <2>6, <2>10 DEF MoreSegments
    <3>2. /\ r.pPriState = "Idle" /\ r.pSegments = NoSegments
          /\ r.nextWriteFCB = d.nextWriteFCB /\ r.isRemoteReset = d.isRemoteReset
          /\ r.config = d.config /\ r.up = d.up /\ r.nextReadFCB = d.nextReadFCB
          /\ r.pSecState = d.pSecState /\ SameChannel(d, r)
      BY <2>5, <3>1 DEF EnterPri, CompleteSendOperation, SameChannel, LinkContextType
    <3>3. PriOut(r, w) = <<>> /\ Sec(r, w) = Sec(c, w) /\ Open(r, w)
      BY <2>7, <3>2, SameChannelFacts DEF Sec
    <3>4. /\ Pri(r, w).state = "Idle" /\ Pri(r, w).segs = <<>>
          /\ Pri(r, w).fcb = ~c.nextWriteFCB /\ Pri(r, w).reset = c.isRemoteReset
          /\ Pri(r, w).out = <<>> /\ Pri(r, w).addr = c.config.LocalAddr
      BY <2>6, <3>2, <3>3 DEF Pri, NoSegments
    <3>5. AckStep(Pri(c, w), Pri(r, w))
      BY <2>8, <2>10, <3>4 DEF AckStep
    <3> QED
      BY <2>6, <3>2, <3>3, <3>5 DEF Steady
  <2> QED
    BY <2>9, <2>10
<1>3. CASE c.pPriState \notin {"ResetLinkWait", "ConfDataWait"}
  <2>1. r = c
    BY <1>3 DEF PriOnAck
  <2>2. Pri(c, w).state \notin {"ResetLinkWait", "ConfDataWait"}
    BY <1>3 DEF Pri
  <2> QED
    BY <2>1, <2>2 DEF AckStep, Steady
<1> QED
  BY <1>1, <1>2, <1>3

\* PriOnStatus: a keep-alive is answered.
LEMMA StatusEffect ==
    ASSUME NEW c, Base(c), NEW w, Open(c, w), NEW r, r = PriOnStatus(c)
    PROVE  /\ \/ Pri(c, w).state \in {"ResetLinkWait", "ConfDataWait"}
              \/ StatusStep(Pri(c, w), Pri(r, w))
           /\ Sec(r, w) = Sec(c, w) /\ Steady(c, r, w)
<1>0. c \in LinkContextType
  BY DEF Base
<1>1. CASE c.pPriState \in {"ResetLinkWait", "ConfDataWait"}
  <2>1. r = EnterPri(CompleteSendOperation(CancelTimer(c)), "Idle")
    BY <1>1 DEF PriOnStatus, Failure
  <2>2. /\ r.config = c.config /\ r.up = c.up /\ r.nextReadFCB = c.nextReadFCB
        /\ r.pSecState = c.pSecState /\ SameChannel(c, r)
    BY <1>0, <2>1
       DEF EnterPri, CompleteSendOperation, CancelTimer, SameChannel, LinkContextType
  <2>3. Pri(c, w).state = c.pPriState
    BY DEF Pri
  <2> QED
    BY <1>1, <2>2, <2>3, SameChannelFacts DEF Sec, Steady
<1>2. CASE c.pPriState = "RequestLinkStatusWait"
  <2>1. r = EnterPri(CancelTimer(c), "Idle")
    BY <1>2 DEF PriOnStatus, RequestLinkStatusWaitDone
  <2>2. Alike(c, r) /\ r.pPriState = "Idle"
    BY <1>0, <2>1 DEF EnterPri, CancelTimer, Alike, LinkContextType
  <2>3. PriOut(r, w) = PriOut(c, w) /\ Sec(r, w) = Sec(c, w) /\ Steady(c, r, w)
    BY <2>2, AlikeFacts
  <2>4. StatusStep(Pri(c, w), Pri(r, w))
    BY <1>2, <2>2, <2>3 DEF StatusStep, Pri, Alike
  <2> QED
    BY <2>3, <2>4
<1>3. CASE c.pPriState \notin {"ResetLinkWait", "ConfDataWait", "RequestLinkStatusWait"}
  <2>1. r = c
    BY <1>3 DEF PriOnStatus
  <2>2. Pri(c, w).state \notin PriResponseWait
    BY <1>3 DEF Pri, PriResponseWait
  <2> QED
    BY <2>1, <2>2 DEF StatusStep, Steady
<1> QED
  BY <1>1, <1>2, <1>3

\* The secondary station queues an answer.
Queues(c, d, dest, func) ==
    \/ func = "SEC_ACK" /\ d = QueueAck(c, dest)
    \/ func = "SEC_LINK_STATUS" /\ d = QueueLinkStatus(c, dest)

LEMMA AnswerEffect ==
    ASSUME NEW c, Base(c), SecAccounting(c), c.pSecState \notin SecTransmitWait,
           NEW w, Open(c, w), NEW dest \in Address, NEW func, NEW d, Queues(c, d, dest, func)
    PROVE  /\ d \in LinkContextType /\ SameRest(c, d) /\ Steady(c, d, w)
           /\ Pri(d, w) = Pri(c, w)
           /\ \E g \in Frame : SecOut(d, w) = <<g>> /\ g.func = func
<1> DEFINE g == FormatHeader(c, func, FALSE, FALSE, dest, NoData)
<1>1. c \in LinkContextType /\ Chan(c) /\ ~c.clobbered /\ ~SecFrameOut(c)
  BY DEF Base, SecAccounting
<1>2. g \in Frame /\ g.func = func
  BY <1>1, PlainFrame DEF Queues
<1> HIDE DEF g
<1>3. d = QueueTransmit(c, g, "Secondary")
  BY DEF g, Queues, QueueAck, QueueLinkStatus
<1>4. /\ SameRest(c, d) /\ Steady(c, d, w) /\ SecOut(d, w) = <<g>> /\ Pri(d, w) = Pri(c, w)
  BY <1>1, <1>2, <1>3, QueueSec
<1>5. d \in LinkContextType
  BY <1>1, <1>2, <1>3, QueueSecondary
<1> QED
  BY <1>2, <1>4, <1>5

\* What a request does to the secondary station; up: what it passes up.
RequestStep(S, R, f, up) ==
    \/ R = S /\ up = <<>>
    \/ /\ f.func = "PRI_RESET_LINK_STATES" /\ up = <<>>
       /\ R.state = "TransmitWaitReset" /\ R.fcb = TRUE /\ Answers(R, "SEC_ACK")
    \/ /\ f.func = "PRI_REQUEST_LINK_STATUS" /\ up = <<>>
       /\ (Listening(R) <=> Listening(S)) /\ R.fcb = S.fcb /\ Answers(R, "SEC_LINK_STATUS")
    \/ /\ f.func = "PRI_CONFIRMED_USER_DATA" /\ S.state = "Reset" /\ f.fcb = S.fcb
       /\ up = <<f.data>>
       /\ R.state = "TransmitWaitReset" /\ R.fcb = ~S.fcb /\ Answers(R, "SEC_ACK")
    \/ /\ f.func = "PRI_CONFIRMED_USER_DATA" /\ S.state = "Reset" /\ f.fcb # S.fcb
       /\ up = <<>>
       /\ R.state = "TransmitWaitReset" /\ R.fcb = S.fcb /\ Answers(R, "SEC_ACK")

LEMMA ResetEffect ==
    ASSUME NEW c, Base(c), SecAccounting(c), NEW w, Open(c, w), c.up = <<>>,
           NEW f \in Frame, f.func = "PRI_RESET_LINK_STATES",
           NEW r, r = OnResetLinkStates(c, f.src)
    PROVE  /\ RequestStep(Sec(c, w), Sec(r, w), f, r.up) /\ Pri(r, w) = Pri(c, w)
           /\ r.config = c.config /\ Open(r, w)
<1>1. CASE c.pSecState \in SecTransmitWait
  <2>1. r = c
    BY <1>1 DEF OnResetLinkStates
  <2> QED
    BY <2>1 DEF RequestStep
<1>2. CASE c.pSecState \notin SecTransmitWait
  <2> DEFINE d == QueueAck(c, f.src)
  <2>1. f.src \in Address
    BY DEF Frame, LinkHeader
  <2>2. /\ d \in LinkContextType /\ SameRest(c, d) /\ Steady(c, d, w)
        /\ Pri(d, w) = Pri(c, w)
        /\ \E g \in Frame : SecOut(d, w) = <<g>> /\ g.func = "SEC_ACK"
    <3> DEFINE src == f.src
    <3>1. Queues(c, d, src, "SEC_ACK") /\ src \in Address
      BY <2>1 DEF Queues
    <3> HIDE DEF d, src
    <3> QED
      BY <1>2, <3>1, AnswerEffect
  <2>3. r = EnterSec([d EXCEPT !.nextReadFCB = TRUE], "TransmitWaitReset")
    BY <1>2 DEF OnResetLinkStates
  <2> HIDE DEF d
  <2>4. /\ SameChannel(d, r) /\ r.config = d.config /\ r.up = d.up
        /\ r.nextReadFCB = TRUE /\ r.pSecState = "TransmitWaitReset"
        /\ r.pPriState = d.pPriState /\ r.pSegments = d.pSegments
        /\ r.nextWriteFCB = d.nextWriteFCB /\ r.isRemoteReset = d.isRemoteReset
    BY <2>2, <2>3 DEF EnterSec, SameChannel, LinkContextType
  <2>5. PriOut(r, w) = PriOut(d, w) /\ SecOut(r, w) = SecOut(d, w) /\ Open(r, w)
    BY <2>2, <2>4, SameChannelFacts DEF Steady
  <2>6. Pri(r, w) = Pri(d, w)
    BY <2>4, <2>5 DEF Pri
  <2>7. Answers(Sec(r, w), "SEC_ACK") /\ Sec(r, w).state = "TransmitWaitReset"
        /\ Sec(r, w).fcb = TRUE
    BY <2>2, <2>4, <2>5 DEF Answers, Sec
  <2>8. r.up = <<>> /\ r.config = c.config
    BY <2>2, <2>4 DEF Steady
  <2> QED
    BY <2>2, <2>5, <2>6, <2>7, <2>8 DEF RequestStep
<1> QED
  BY <1>1, <1>2

LEMMA StatusRequestEffect ==
    ASSUME NEW c, Base(c), SecAccounting(c), NEW w, Open(c, w), c.up = <<>>,
           NEW f \in Frame, f.func = "PRI_REQUEST_LINK_STATUS",
           NEW r, r = OnRequestLinkStatus(c, f.src)
    PROVE  /\ RequestStep(Sec(c, w), Sec(r, w), f, r.up) /\ Pri(r, w) = Pri(c, w)
           /\ r.config = c.config /\ Open(r, w)
<1>1. CASE c.pSecState \notin {"NotReset", "Reset"}
  <2>1. r = c
    BY <1>1 DEF OnRequestLinkStatus
  <2> QED
    BY <2>1 DEF RequestStep
<1>2. CASE c.pSecState \in {"NotReset", "Reset"}
  <2> DEFINE d == QueueLinkStatus(c, f.src)
             s == IF c.pSecState = "Reset" THEN "TransmitWaitReset" ELSE "TransmitWaitNotReset"
  <2>1. f.src \in Address /\ c.pSecState \notin SecTransmitWait
    BY <1>2 DEF Frame, LinkHeader, SecTransmitWait
  <2>2. /\ d \in LinkContextType /\ SameRest(c, d) /\ Steady(c, d, w)
        /\ Pri(d, w) = Pri(c, w)
        /\ \E g \in Frame : SecOut(d, w) = <<g>> /\ g.func = "SEC_LINK_STATUS"
    <3> DEFINE src == f.src
    <3>1. Queues(c, d, src, "SEC_LINK_STATUS") /\ src \in Address
      BY <2>1 DEF Queues
    <3> HIDE DEF d, src
    <3> QED
      BY <2>1, <3>1, AnswerEffect
  <2>3. r = EnterSec(d, s)
    BY <1>2 DEF OnRequestLinkStatus
  <2> HIDE DEF d
  <2>4. /\ SameChannel(d, r) /\ r.config = d.config /\ r.up = d.up
        /\ r.nextReadFCB = d.nextReadFCB /\ r.pSecState = s
        /\ r.pPriState = d.pPriState /\ r.pSegments = d.pSegments
        /\ r.nextWriteFCB = d.nextWriteFCB /\ r.isRemoteReset = d.isRemoteReset
    BY <2>2, <2>3 DEF EnterSec, SameChannel, LinkContextType
  <2>5. PriOut(r, w) = PriOut(d, w) /\ SecOut(r, w) = SecOut(d, w) /\ Open(r, w)
    BY <2>2, <2>4, SameChannelFacts DEF Steady
  <2>6. Pri(r, w) = Pri(d, w)
    BY <2>4, <2>5 DEF Pri
  <2>7. Answers(Sec(r, w), "SEC_LINK_STATUS") /\ Sec(r, w).fcb = Sec(c, w).fcb
    BY <2>2, <2>4, <2>5 DEF Answers, Sec, SameRest
  <2>8. Listening(Sec(r, w)) <=> Listening(Sec(c, w))
    BY <1>2, <2>4 DEF Listening, Sec
  <2>9. r.up = <<>> /\ r.config = c.config
    BY <2>2, <2>4 DEF Steady
  <2> QED
    BY <2>2, <2>5, <2>6, <2>7, <2>8, <2>9 DEF RequestStep
<1> QED
  BY <1>1, <1>2

LEMMA DataEffect ==
    ASSUME NEW c, Base(c), SecAccounting(c), NEW w, Open(c, w), c.up = <<>>,
           NEW f \in Frame, f.func = "PRI_CONFIRMED_USER_DATA",
           NEW r, r = OnConfirmedUserData(c, f.src, f.fcb, f.data, NoSegments)
    PROVE  /\ RequestStep(Sec(c, w), Sec(r, w), f, r.up) /\ Pri(r, w) = Pri(c, w)
           /\ r.config = c.config /\ Open(r, w)
<1>1. CASE c.pSecState # "Reset"
  <2>1. r = c
    BY <1>1 DEF OnConfirmedUserData
  <2> QED
    BY <2>1 DEF RequestStep
<1>2. CASE c.pSecState = "Reset"
  <2> DEFINE d == QueueAck(c, f.src)
  <2>1. f.src \in Address /\ c.pSecState \notin SecTransmitWait
    BY <1>2 DEF Frame, LinkHeader, SecTransmitWait
  <2>2. /\ d \in LinkContextType /\ SameRest(c, d) /\ Steady(c, d, w)
        /\ Pri(d, w) = Pri(c, w)
        /\ \E g \in Frame : SecOut(d, w) = <<g>> /\ g.func = "SEC_ACK"
    <3> DEFINE src == f.src
    <3>1. Queues(c, d, src, "SEC_ACK") /\ src \in Address
      BY <2>1 DEF Queues
    <3> HIDE DEF d, src
    <3> QED
      BY <2>1, <3>1, AnswerEffect
  <2>3. r = IF d.nextReadFCB = f.fcb
            THEN EnterSec([[d EXCEPT !.nextReadFCB = ~@] EXCEPT !.up = Append(@, f.data)],
                          "TransmitWaitReset")
            ELSE EnterSec(d, "TransmitWaitReset")
    BY <1>2 DEF OnConfirmedUserData, PushDataUp, Reply
  <2> HIDE DEF d
  <2>4. /\ SameChannel(d, r) /\ r.config = d.config
        /\ r.pSecState = "TransmitWaitReset"
        /\ d.nextReadFCB = f.fcb => /\ r.nextReadFCB = ~d.nextReadFCB
                                    /\ r.up = Append(d.up, f.data)
        /\ d.nextReadFCB # f.fcb => r.nextReadFCB = d.nextReadFCB /\ r.up = d.up
        /\ r.pPriState = d.pPriState /\ r.pSegments = d.pSegments
        /\ r.nextWriteFCB = d.nextWriteFCB /\ r.isRemoteReset = d.isRemoteReset
    <3>1. CASE d.nextReadFCB = f.fcb
      BY <2>2, <2>3, <3>1 DEF EnterSec, SameChannel, LinkContextType
    <3>2. CASE d.nextReadFCB # f.fcb
      BY <2>2, <2>3, <3>2 DEF EnterSec, SameChannel, LinkContextType
    <3> QED
      BY <3>1, <3>2
  <2>5. PriOut(r, w) = PriOut(d, w) /\ SecOut(r, w) = SecOut(d, w) /\ Open(r, w)
    BY <2>2, <2>4, SameChannelFacts DEF Steady
  <2>6. Pri(r, w) = Pri(d, w)
    BY <2>4, <2>5 DEF Pri
  <2>7. Answers(Sec(r, w), "SEC_ACK") /\ Sec(r, w).state = "TransmitWaitReset"
    BY <2>2, <2>4, <2>5 DEF Answers, Sec
  <2>8. d.up = <<>> /\ r.config = c.config /\ d.nextReadFCB = c.nextReadFCB
    BY <2>2, <2>4 DEF Steady, SameRest
  <2>9. /\ Sec(c, w).state = "Reset" /\ Sec(c, w).fcb = c.nextReadFCB
        /\ Sec(r, w).fcb = r.nextReadFCB
    BY <1>2 DEF Sec
  <2>10. RequestStep(Sec(c, w), Sec(r, w), f, r.up)
    <3>1. CASE d.nextReadFCB = f.fcb
      <4>1. r.up = <<f.data>>
        BY <2>4, <2>8, <3>1, OneFrame
      <4> QED
        BY <2>4, <2>7, <2>8, <2>9, <3>1, <4>1 DEF RequestStep
    <3>2. CASE d.nextReadFCB # f.fcb
      BY <2>4, <2>7, <2>8, <2>9, <3>2 DEF RequestStep
    <3> QED
      BY <3>1, <3>2
  <2> QED
    BY <2>2, <2>5, <2>6, <2>8, <2>10
<1> QED
  BY <1>1, <1>2

\* A request reaches the secondary station.
LEMMA RequestExchange ==
    ASSUME NEW P, NEW S, NEW req, NEW ans, NEW gave,
           Exchange(P, S, req, ans, gave),
           req # <<>>, NEW R, NEW up, RequestStep(S, R, Head(req), up)
    PROVE  Exchange(P, R, Tail(req), ans, gave)
<1>3. CASE R = S /\ up = <<>>
  BY <1>3, DropRequest
<1>4. CASE /\ Head(req).func = "PRI_RESET_LINK_STATES" /\ up = <<>>
           /\ R.state = "TransmitWaitReset" /\ R.fcb = TRUE /\ Answers(R, "SEC_ACK")
  BY <1>4, ReceiveReset
<1>5. CASE /\ Head(req).func = "PRI_REQUEST_LINK_STATUS" /\ up = <<>>
           /\ (Listening(R) <=> Listening(S)) /\ R.fcb = S.fcb
           /\ Answers(R, "SEC_LINK_STATUS")
  BY <1>5, ReceiveStatusRequest
<1>6. CASE /\ Head(req).func = "PRI_CONFIRMED_USER_DATA" /\ S.state = "Reset"
           /\ R.state = "TransmitWaitReset" /\ Answers(R, "SEC_ACK")
           /\ R.fcb = IF Head(req).fcb = S.fcb THEN ~S.fcb ELSE S.fcb
  BY <1>6, ReceiveData
<1> QED
  BY <1>3, <1>4, <1>5, <1>6 DEF RequestStep

\* A station takes a step and then starts what there is to do.
Then(Q, R) == R = Q \/ Starts(Q, R)

\* OnFrame with a request.
LEMMA RequestFrameEffect ==
    ASSUME NEW c, Full(c), NEW w, Open(c, w), c.up = <<>>, c.config.UseConfirms,
           NEW f \in Frame,
           f.func \in {"PRI_RESET_LINK_STATES", "PRI_REQUEST_LINK_STATUS",
                       "PRI_CONFIRMED_USER_DATA"},
           NEW r, r = OnFrame(c, f, NoSegments)
    PROVE  /\ RequestStep(Sec(c, w), Sec(r, w), f, r.up) /\ Then(Pri(c, w), Pri(r, w))
           /\ r.config = c.config /\ Open(r, w)
<1>0. Base(c) /\ SecAccounting(c)
  BY DEF Full
<1>1. CASE ~Accepts(c, f)
  <2>1. r = c
    BY <1>1 DEF OnFrame
  <2> QED
    BY <2>1 DEF RequestStep, Then
<1>2. CASE Accepts(c, f)
  <2> DEFINE x == Dispatch(c, f, NoSegments)
             src == f.src
  <2>1. r = TryStartTransmission(x)
    BY <1>2 DEF OnFrame
  <2>2. src \in Address /\ f.data \in Segment \cup {NoData}
        /\ (f.func = "PRI_CONFIRMED_USER_DATA" => f.data \in Segment)
    BY DEF Frame, WellFormed, LinkHeader
  <2>3. /\ Base(x) /\ RequestStep(Sec(c, w), Sec(x, w), f, x.up)
        /\ Pri(x, w) = Pri(c, w) /\ x.config = c.config /\ Open(x, w)
    <3>1. CASE f.func = "PRI_RESET_LINK_STATES"
      <4>1. x = OnResetLinkStates(c, src)
        BY <3>1 DEF Dispatch
      <4>2. x = OnResetLinkStates(c, f.src)
        BY <4>1
      <4> HIDE DEF x, src
      <4>3. Base(x)
        BY <1>0, <2>2, <4>1, SecResetLink
      <4> QED
        BY <1>0, <3>1, <4>2, <4>3, ResetEffect
    <3>2. CASE f.func = "PRI_REQUEST_LINK_STATUS"
      <4>1. x = OnRequestLinkStatus(c, src)
        BY <3>2 DEF Dispatch
      <4>2. x = OnRequestLinkStatus(c, f.src)
        BY <4>1
      <4> HIDE DEF x, src
      <4>3. Base(x)
        BY <1>0, <2>2, <4>1, SecRequestLinkStatus
      <4> QED
        BY <1>0, <3>2, <4>2, <4>3, StatusRequestEffect
    <3>3. CASE f.func = "PRI_CONFIRMED_USER_DATA"
      <4> DEFINE fcb == f.fcb
                 data == f.data
      <4>1. x = OnConfirmedUserData(c, src, fcb, data, NoSegments) /\ data \in Segment
        BY <2>2, <3>3 DEF Dispatch
      <4>2. x = OnConfirmedUserData(c, f.src, f.fcb, f.data, NoSegments)
        BY <4>1
      <4> HIDE DEF x, src, fcb, data
      <4>3. Base(x)
        BY <1>0, <2>2, <4>1, SecConfirmedData
      <4> QED
        BY <1>0, <3>3, <4>2, <4>3, DataEffect
    <3> QED
      BY <3>1, <3>2, <3>3
  <2> HIDE DEF x
  <2>4. /\ Pri(r, w) = Pri(x, w) \/ Starts(Pri(x, w), Pri(r, w))
        /\ Sec(r, w) = Sec(x, w) /\ Steady(x, r, w)
    BY <2>1, <2>3, StartStep
  <2> QED
    BY <2>3, <2>4 DEF Then, Steady
<1> QED
  BY <1>1, <1>2

\* OnFrame with an answer.
AnswerStep(P, R, f) ==
    \/ R = P
    \/ f.func = "SEC_ACK" /\ \E Q : AckStep(P, Q) /\ Then(Q, R)
    \/ f.func = "SEC_LINK_STATUS"
       /\ \E Q : (P.state \in {"ResetLinkWait", "ConfDataWait"} \/ StatusStep(P, Q)) /\ Then(Q, R)

LEMMA AnswerFrameEffect ==
    ASSUME NEW c, Full(c), NEW w, Open(c, w), c.config.UseConfirms,
           NEW f \in Frame, f.func \in {"SEC_ACK", "SEC_LINK_STATUS"},
           NEW r, r = OnFrame(c, f, NoSegments)
    PROVE  /\ AnswerStep(Pri(c, w), Pri(r, w), f)
           /\ Sec(r, w) = Sec(c, w) /\ Steady(c, r, w)
           /\ ~Accepts(c, f) => r = c
           /\ Accepts(c, f) /\ f.func = "SEC_ACK" =>
                 \E Q : AckStep(Pri(c, w), Q) /\ Then(Q, Pri(r, w))
<1>0. Base(c)
  BY DEF Full
<1>1. CASE ~Accepts(c, f)
  <2>1. r = c
    BY <1>1 DEF OnFrame
  <2> QED
    BY <1>1, <2>1 DEF AnswerStep, Steady
<1>2. CASE Accepts(c, f)
  <2> DEFINE x == Dispatch(c, f, NoSegments)
             P == Pri(c, w)
             Q == Pri(x, w)
  <2>1. r = TryStartTransmission(x)
    BY <1>2 DEF OnFrame
  <2>2. /\ Base(x) /\ Sec(x, w) = Sec(c, w) /\ Steady(c, x, w)
        /\ \/ f.func = "SEC_ACK" /\ AckStep(P, Q)
           \/ /\ f.func = "SEC_LINK_STATUS"
              /\ P.state \in {"ResetLinkWait", "ConfDataWait"} \/ StatusStep(P, Q)
    <3>1. CASE f.func = "SEC_ACK"
      <4>1. x = PriOnAck(c)
        BY <3>1 DEF Dispatch
      <4> HIDE DEF x
      <4>2. Base(x)
        BY <1>0, <4>1, PriAnswer
      <4> QED
        BY <1>0, <3>1, <4>1, <4>2, AckEffect
    <3>2. CASE f.func = "SEC_LINK_STATUS"
      <4>1. x = PriOnStatus(c)
        BY <3>2 DEF Dispatch
      <4> HIDE DEF x
      <4>2. Base(x)
        BY <1>0, <4>1, PriAnswer
      <4> QED
        BY <1>0, <3>2, <4>1, <4>2, StatusEffect
    <3> QED
      BY <3>1, <3>2
  <2> HIDE DEF x
  <2>3. /\ Pri(r, w) = Pri(x, w) \/ Starts(Pri(x, w), Pri(r, w))
        /\ Sec(r, w) = Sec(x, w) /\ Steady(x, r, w)
    BY <2>1, <2>2, StartStep DEF Steady
  <2>4. Then(Q, Pri(r, w))
    BY <2>3 DEF Then
  <2> HIDE DEF P, Q
  <2>5. AnswerStep(P, Pri(r, w), f)
    BY <2>2, <2>4 DEF AnswerStep
  <2>6. f.func = "SEC_ACK" => \E A : AckStep(P, A) /\ Then(A, Pri(r, w))
    BY <2>2, <2>4
  <2> QED
    BY <1>2, <2>2, <2>3, <2>5, <2>6, SteadyTransitive DEF P
<1> QED
  BY <1>1, <1>2

LEMMA ThenExchange ==
    ASSUME NEW P, NEW S, NEW req, NEW ans, NEW gave,
           Exchange(P, S, req, ans, gave), NEW R, Then(P, R)
    PROVE  Exchange(R, S, req, ans, gave)
  BY StartsExchange DEF Then

\* An answer reaches the primary station.
LEMMA AnswerExchange ==
    ASSUME NEW P, NEW S, NEW req, NEW ans, NEW gave,
           Exchange(P, S, req, ans, gave),
           ans # <<>>, NEW R, AnswerStep(P, R, Head(ans))
    PROVE  Exchange(R, S, req, Tail(ans), gave)
<1>1. CASE R = P
  BY <1>1, DropAnswer
<1>2. ASSUME Head(ans).func = "SEC_ACK", NEW Q, AckStep(P, Q), Then(Q, R)
      PROVE  Exchange(R, S, req, Tail(ans), gave)
  <2>1. Exchange(Q, S, req, Tail(ans), gave)
    BY <1>2, ReceiveAck
  <2> QED
    BY <1>2, <2>1, ThenExchange
<1>3. ASSUME Head(ans).func = "SEC_LINK_STATUS", NEW Q,
             P.state \in {"ResetLinkWait", "ConfDataWait"} \/ StatusStep(P, Q), Then(Q, R)
      PROVE  Exchange(R, S, req, Tail(ans), gave)
  <2>1. Exchange(Q, S, req, Tail(ans), gave)
    BY <1>3, ReceiveStatus
  <2> QED
    BY <1>3, <2>1, ThenExchange
<1> QED
  BY <1>1, <1>2, <1>3 DEF AnswerStep

\* OnResponseTimeout.
LEMMA TimeoutEffect ==
    ASSUME NEW c, Full(c), NEW w, Open(c, w), c.config.UseConfirms,
           c.pPriState \in PriResponseWait,
           NEW t \in TimerRefType, ~IsActive(t), NEW d, d = [c EXCEPT !.rspTimeoutTimer = t],
           NEW r, r = OnResponseTimeout(d)
    PROVE  /\ \E Q : /\ TimeoutStep(Pri(c, w), Q) /\ Then(Q, Pri(r, w))
                     /\ c.pPriState = "ConfDataWait" /\ Q.state = "Idle" => c.numRetryRemaining = 0
           /\ Sec(r, w) = Sec(c, w) /\ Steady(c, r, w)
<1> DEFINE x == PriOnTimeout(d)
<1>0. /\ Base(c) /\ c \in LinkContextType /\ Chan(c) /\ ~c.clobbered /\ ~PriFrameOut(c)
      /\ c.pPriState # "RequestLinkStatusWait" => HasSegments(c)
  BY WaitingFacts DEF Full
<1>1. /\ d \in LinkContextType /\ Alike(c, d) /\ SameTx(c, d) /\ d.pPriState = c.pPriState
      /\ d.rspTimeoutTimer = t /\ d.numRetryRemaining = c.numRetryRemaining
  BY <1>0 DEF LinkContextType, Alike, SameTx
<1>2. PriReady(d) /\ Chan(d) /\ ~d.clobbered /\ ~PriFrameOut(d)
  BY <1>0, <1>1, ReadyAfter DEF PriReady
<1>3. /\ Open(d, w) /\ Sec(d, w) = Sec(c, w) /\ Steady(c, d, w) /\ Pri(d, w) = Pri(c, w)
      /\ PriOut(d, w) = <<>>
  <2>1. Steady(c, d, w) /\ Sec(d, w) = Sec(c, w) /\ Pri(d, w) = Pri(c, w)
    BY <1>1, AlikeFacts
  <2>2. PriOut(d, w) = <<>>
    BY <1>2, NothingOut
  <2> QED
    BY <2>1, <2>2 DEF Steady
<1>4. d.pPriState # "RequestLinkStatusWait" => HasSegments(d)
  BY <1>0, <1>1 DEF Alike, HasSegments
<1>5. r = TryStartTransmission(x)
  BY DEF OnResponseTimeout
<1>6. Base(x)
  <2>1. PriAccounting(d)
    BY <1>1, <1>2 DEF PriAccounting, PriTransmitWait, PriResponseWait
  <2>2. Segs(d)
    BY <1>1, <1>4 DEF Segs, DataState
  <2> QED
    BY <1>1, <1>2, <2>1, <2>2, PriTimeout
<1>7. /\ Pri(d, w).state = c.pPriState /\ Pri(d, w).segs = d.pSegments.segs
      /\ Pri(d, w).fcb = d.nextWriteFCB /\ Pri(d, w).reset = d.isRemoteReset
      /\ Pri(d, w).addr = d.config.LocalAddr
  BY <1>1 DEF Pri
<1>8. /\ TimeoutStep(Pri(d, w), Pri(x, w))
      /\ c.pPriState = "ConfDataWait" /\ Pri(x, w).state = "Idle" => c.numRetryRemaining = 0
      /\ Sec(x, w) = Sec(d, w) /\ Steady(d, x, w)
  <2>1. CASE c.pPriState \in {"ResetLinkWait", "ConfDataWait"} /\ d.numRetryRemaining > 0
    <3> DEFINE b == Retry(d)
    <3>1. b \in LinkContextType /\ SameTx(d, b) /\ Alike(d, b)
          /\ b.rspTimeoutTimer = d.rspTimeoutTimer
      BY <1>1, <2>1, RetryFacts DEF Retry, Alike, LinkContextType
    <3> HIDE DEF b
    <3>2. PriReady(b) /\ Open(b, w) /\ Sec(b, w) = Sec(d, w) /\ Steady(d, b, w) /\ HasSegments(b)
      <4>1. Steady(d, b, w) /\ Sec(b, w) = Sec(d, w)
        BY <1>3, <3>1, AlikeFacts
      <4>2. PriReady(b)
        BY <1>1, <1>2, <3>1, ReadyAfter DEF PriReady
      <4>3. HasSegments(b)
        BY <1>1, <1>4, <2>1, <3>1 DEF Alike, HasSegments
      <4> QED
        BY <4>1, <4>2, <4>3 DEF Steady
    <3>3. d.config.RemoteAddr \in Address
      BY <1>1, RemoteAddrType
    <3>4. \/ c.pPriState = "ResetLinkWait" /\ Requests(b, x, w, "LinkResetTransmitWait")
          \/ c.pPriState = "ConfDataWait" /\ Requests(b, x, w, "ConfUserDataTransmitWait")
      <4>1. CASE c.pPriState = "ResetLinkWait"
        <5> DEFINE dest == d.config.RemoteAddr
        <5>1. x = EnterPri(QueueResetLinks(b, dest), "LinkResetTransmitWait")
          BY <1>1, <2>1, <4>1 DEF PriOnTimeout, b
        <5> HIDE DEF x, dest
        <5> QED
          BY <3>2, <3>3, <4>1, <5>1, RequestsReset DEF dest
      <4>2. CASE c.pPriState = "ConfDataWait"
        <5>1. x = EnterPri(QueueConfirmed(b), "ConfUserDataTransmitWait")
          BY <1>1, <2>1, <4>2 DEF PriOnTimeout, b
        <5> HIDE DEF x
        <5> QED
          BY <3>2, <4>2, <5>1, RequestsData
      <4> QED
        BY <2>1, <4>1, <4>2
    <3> HIDE DEF x
    <3> DEFINE s == IF c.pPriState = "ResetLinkWait" THEN "LinkResetTransmitWait"
                                                     ELSE "ConfUserDataTransmitWait"
    <3>5. Requests(b, x, w, s)
      BY <2>1, <3>4
    <3>6. \/ c.pPriState = "ResetLinkWait" /\ s = "LinkResetTransmitWait"
          \/ c.pPriState = "ConfDataWait" /\ s = "ConfUserDataTransmitWait"
      BY <2>1
    <3> HIDE DEF s
    <3>7. /\ Pri(x, w).state = s /\ Pri(x, w).segs = b.pSegments.segs
          /\ Pri(x, w).fcb = b.nextWriteFCB /\ Pri(x, w).reset = b.isRemoteReset
          /\ Pri(x, w).addr = b.config.LocalAddr
          /\ \E f : Pri(x, w).out = <<f>> /\ RequestOf(Pri(x, w), f)
      BY <3>5, RequestsPri
    <3>8. TimeoutStep(Pri(d, w), Pri(x, w)) /\ Pri(x, w).state # "Idle"
      BY <1>7, <3>1, <3>6, <3>7 DEF TimeoutStep, Alike
    <3> QED
      BY <3>2, <3>5, <3>8, SteadyTransitive DEF Requests
  <2>2. CASE c.pPriState \in {"ResetLinkWait", "ConfDataWait"} /\ ~(d.numRetryRemaining > 0)
    <3>1. \/ x = EnterPri(CompleteSendOperation(d), "Idle")
          \/ x = EnterPri(CompleteSendOperation(OnStateChange(d, "UNRESET")), "Idle")
      BY <1>1, <2>2 DEF PriOnTimeout
    <3> HIDE DEF x
    <3>2. /\ x.pPriState = "Idle" /\ x.pSegments = NoSegments
          /\ x.nextWriteFCB = d.nextWriteFCB /\ x.isRemoteReset = d.isRemoteReset
          /\ x.config = d.config /\ x.up = d.up /\ x.nextReadFCB = d.nextReadFCB
          /\ x.pSecState = d.pSecState /\ SameChannel(d, x)
      <4>1. CASE x = EnterPri(CompleteSendOperation(d), "Idle")
        BY <1>1, <4>1 DEF EnterPri, CompleteSendOperation, SameChannel, LinkContextType
      <4>2. CASE x = EnterPri(CompleteSendOperation(OnStateChange(d, "UNRESET")), "Idle")
        BY <1>1, <4>2
           DEF EnterPri, CompleteSendOperation, OnStateChange, SameChannel, LinkContextType
      <4> QED
        BY <3>1, <4>1, <4>2
    <3>3. PriOut(x, w) = <<>> /\ SecOut(x, w) = SecOut(d, w) /\ Open(x, w)
      BY <1>3, <3>2, SameChannelFacts
    <3>4. Sec(x, w) = Sec(d, w) /\ Steady(d, x, w)
      BY <3>2, <3>3 DEF Sec, Steady
    <3>5. /\ Pri(x, w).state = "Idle" /\ Pri(x, w).segs = <<>>
          /\ Pri(x, w).fcb = d.nextWriteFCB /\ Pri(x, w).reset = d.isRemoteReset
          /\ Pri(x, w).out = <<>> /\ Pri(x, w).addr = d.config.LocalAddr
      BY <3>2, <3>3 DEF Pri, NoSegments
    <3>6. c.numRetryRemaining = 0
      BY <1>0, <1>1, <2>2 DEF LinkContextType
    <3>7. TimeoutStep(Pri(d, w), Pri(x, w))
      BY <1>7, <2>2, <3>5 DEF TimeoutStep
    <3> QED
      BY <3>4, <3>6, <3>7
  <2>3. CASE c.pPriState = "RequestLinkStatusWait"
    <3>1. x = EnterPri(d, "Idle")
      BY <1>1, <2>3 DEF PriOnTimeout
    <3> HIDE DEF x
    <3>2. Alike(d, x) /\ x.pPriState = "Idle"
      BY <1>1, <3>1 DEF EnterPri, Alike, LinkContextType
    <3>3. PriOut(x, w) = <<>> /\ Sec(x, w) = Sec(d, w) /\ Steady(d, x, w)
      BY <1>3, <3>2, AlikeFacts
    <3>4. /\ Pri(x, w).state = "Idle" /\ Pri(x, w).segs = d.pSegments.segs
          /\ Pri(x, w).fcb = d.nextWriteFCB /\ Pri(x, w).reset = d.isRemoteReset
          /\ Pri(x, w).out = <<>> /\ Pri(x, w).addr = d.config.LocalAddr
      BY <3>2, <3>3 DEF Pri, Alike
    <3>5. TimeoutStep(Pri(d, w), Pri(x, w))
      BY <1>7, <2>3, <3>4 DEF TimeoutStep
    <3> QED
      BY <2>3, <3>3, <3>5
  <2> QED
    BY <2>1, <2>2, <2>3 DEF PriResponseWait
<1> HIDE DEF x
<1>9. x.config.UseConfirms /\ Open(x, w)
  BY <1>3, <1>8 DEF Steady
<1>10. /\ Pri(r, w) = Pri(x, w) \/ Starts(Pri(x, w), Pri(r, w))
       /\ Sec(r, w) = Sec(x, w) /\ Steady(x, r, w)
  BY <1>5, <1>6, <1>9, StartStep
<1>11. Then(Pri(x, w), Pri(r, w)) /\ TimeoutStep(Pri(c, w), Pri(x, w))
  BY <1>3, <1>8, <1>10 DEF Then
<1> QED
  BY <1>3, <1>8, <1>10, <1>11, SteadyTransitive

\* OnKeepAliveTimeout.
LEMMA KeepAliveEffect ==
    ASSUME NEW c, Full(c), NEW w, Open(c, w), c.config.UseConfirms,
           NEW t \in TimerRefType, NEW d, d = [c EXCEPT !.keepAliveTimer = t],
           NEW r, r = OnKeepAliveTimeout(d, TRUE)
    PROVE  Then(Pri(c, w), Pri(r, w)) /\ Sec(r, w) = Sec(c, w) /\ Steady(c, r, w)
<1> DEFINE k == TimerStart(t)
           x == [d EXCEPT !.keepAliveTimeout = TRUE, !.keepAliveTimer = k]
<1>0. Base(c) /\ c \in LinkContextType
  BY DEF Full, Base
<1>1. k \in TimerRefType
  BY TimerFacts
<1>2. r = TryStartTransmission(x)
  BY <1>0 DEF OnKeepAliveTimeout, LinkContextType
<1> HIDE DEF k
<1>3. /\ x \in LinkContextType /\ Alike(c, x) /\ x.pPriState = c.pPriState
      /\ x.rspTimeoutTimer = c.rspTimeoutTimer /\ x.clobbered = c.clobbered
  BY <1>0, <1>1 DEF LinkContextType, Alike
<1> HIDE DEF x
<1>4. Base(x)
  BY <1>0, <1>3 DEF Base, Chan, PriAccounting, PriFrameOut, Waits, Segs, HasSegments, Alike
<1>5. Pri(x, w) = Pri(c, w) /\ Sec(x, w) = Sec(c, w) /\ Steady(c, x, w)
  BY <1>3, AlikeFacts
<1>6. /\ Pri(r, w) = Pri(x, w) \/ Starts(Pri(x, w), Pri(r, w))
      /\ Sec(r, w) = Sec(x, w) /\ Steady(x, r, w)
  BY <1>2, <1>4, <1>5, StartStep DEF Steady
<1> QED
  BY <1>5, <1>6, SteadyTransitive DEF Then

\* LinkLayer::Send, when it is accepted.
LEMMA SendEffect ==
    ASSUME NEW c, Full(c), NEW w, Open(c, w), c.config.UseConfirms, ~HasSegments(c),
           NEW s \in Segments, NEW r, r = Send(c, s)
    PROVE  /\ \E Q : /\ Q.state = Pri(c, w).state /\ Q.fcb = Pri(c, w).fcb
                     /\ Q.reset = Pri(c, w).reset /\ Q.out = Pri(c, w).out
                     /\ Q.addr = Pri(c, w).addr /\ Q.segs = s.segs /\ Then(Q, Pri(r, w))
           /\ Sec(r, w) = Sec(c, w) /\ Steady(c, r, w)
<1> DEFINE x == [c EXCEPT !.pSegments = s]
<1>0. Base(c) /\ c \in LinkContextType /\ c.isOnline
  BY DEF Full, Base, Open
<1>1. r = TryStartTransmission(x)
  BY <1>0 DEF Send
<1>2. s # NoSegments
  <2>1. s.segs # <<>> /\ NoSegments.segs = <<>>
    BY DEF Segments, NoSegments
  <2> QED
    BY <2>1
<1>3. /\ x \in LinkContextType /\ SameChannel(c, x) /\ x.pPriState = c.pPriState
      /\ x.rspTimeoutTimer = c.rspTimeoutTimer /\ x.clobbered = c.clobbered
      /\ x.config = c.config /\ x.up = c.up /\ x.pSegments = s
      /\ x.nextWriteFCB = c.nextWriteFCB /\ x.isRemoteReset = c.isRemoteReset
      /\ x.pSecState = c.pSecState /\ x.nextReadFCB = c.nextReadFCB
  BY <1>0 DEF LinkContextType, SameChannel
<1> HIDE DEF x
<1>4. Base(x)
  BY <1>0, <1>2, <1>3 DEF Base, Chan, PriAccounting, PriFrameOut, Waits, Segs, HasSegments, SameChannel
<1>5. PriOut(x, w) = PriOut(c, w) /\ SecOut(x, w) = SecOut(c, w) /\ Open(x, w)
  BY <1>3, SameChannelFacts
<1>6. Sec(x, w) = Sec(c, w) /\ Steady(c, x, w)
  BY <1>3, <1>5 DEF Sec, Steady
<1>7. /\ Pri(r, w) = Pri(x, w) \/ Starts(Pri(x, w), Pri(r, w))
      /\ Sec(r, w) = Sec(x, w) /\ Steady(x, r, w)
  BY <1>1, <1>3, <1>4, <1>5, StartStep
<1>8. /\ Pri(x, w).state = Pri(c, w).state /\ Pri(x, w).fcb = Pri(c, w).fcb
      /\ Pri(x, w).reset = Pri(c, w).reset /\ Pri(x, w).out = Pri(c, w).out
      /\ Pri(x, w).addr = Pri(c, w).addr /\ Pri(x, w).segs = s.segs /\ Then(Pri(x, w), Pri(r, w))
  BY <1>3, <1>5, <1>7 DEF Pri, Then
<1> QED
  BY <1>6, <1>7, <1>8, SteadyTransitive

\* OnLowerLayerDown and OnLowerLayerUp.
LEMMA DownUpEffect ==
    ASSUME NEW c, Full(c), c.isOnline, NEW r, 
           r = OnLowerLayerUp(OnLowerLayerDown(c), NoSegments)
    PROVE  /\ Full(r) /\ Open(r, FALSE) /\ r.config = c.config /\ r.up = c.up
           /\ Pri(r, FALSE).state = "Idle" /\ Pri(r, FALSE).segs = <<>>
           /\ Pri(r, FALSE).fcb = Pri(c, FALSE).fcb /\ Pri(r, FALSE).reset = FALSE
           /\ Pri(r, FALSE).out = <<>>
           /\ Sec(r, FALSE).state = "NotReset" /\ Sec(r, FALSE).fcb = Sec(c, FALSE).fcb
           /\ Sec(r, FALSE).out = <<>>
<1> DEFINE d == DownState(c)
<1>0. c \in LinkContextType
  BY DEF Full, Base
<1>1. r = OnLowerLayerUp(d, NoSegments)
  BY DEF OnLowerLayerDown
<1>2. /\ Full(d) /\ ~d.isOnline /\ d.txMode = "Idle" /\ d.tx = <<>>
      /\ d.pPriState = "Idle" /\ d.pSecState = "NotReset"
      /\ d.pendingPriTx = <<>> /\ d.pendingSecTx = <<>>
  BY DownHandler
<1>3. /\ d.config = c.config /\ d.up = c.up /\ d.nextWriteFCB = c.nextWriteFCB
      /\ d.nextReadFCB = c.nextReadFCB /\ d.isRemoteReset = FALSE
      /\ d.pSegments = NoSegments
  BY <1>0 DEF DownState, LinkContextType
<1> HIDE DEF d
<1>4. d \in LinkContextType
  BY <1>2 DEF Full, Base
<1>5. Full(r) /\ r.isOnline = TRUE
  BY <1>1, <1>2, UpHandler
<1>6. /\ r.config = d.config /\ r.up = d.up /\ r.nextWriteFCB = d.nextWriteFCB
      /\ r.nextReadFCB = d.nextReadFCB /\ r.isRemoteReset = d.isRemoteReset
      /\ r.pSegments = d.pSegments /\ r.txMode = d.txMode /\ r.tx = d.tx
      /\ r.pPriState = d.pPriState /\ r.pSecState = d.pSecState
      /\ r.pendingPriTx = d.pendingPriTx /\ r.pendingSecTx = d.pendingSecTx
  BY <1>1, <1>2, <1>4 DEF OnLowerLayerUp, Reply, LinkContextType
<1>7. PriOut(r, FALSE) = <<>> /\ SecOut(r, FALSE) = <<>>
  BY <1>2, <1>6 DEF PriOut, SecOut
<1>8. Open(r, FALSE)
  BY <1>2, <1>5, <1>6 DEF Open, Live
<1>9. /\ r.config = c.config /\ r.up = c.up /\ r.nextWriteFCB = c.nextWriteFCB
      /\ r.nextReadFCB = c.nextReadFCB /\ r.isRemoteReset = FALSE
      /\ r.pSegments.segs = <<>> /\ r.pPriState = "Idle" /\ r.pSecState = "NotReset"
  BY <1>2, <1>3, <1>6 DEF NoSegments
<1> QED
  BY <1>5, <1>7, <1>8, <1>9 DEF Pri, Sec

\* OnWriteComplete: the frame on the wire counts as written, and the frame
\* parked behind it goes to the channel.
LEMMA WriteEffect ==
    ASSUME NEW c, Full(c), Open(c, TRUE), c.config.UseConfirms,
           c.pPriState # "SendUnconfirmedTransmitWait", NEW r, r = OnWriteComplete(c)
    PROVE  /\ \E Q : SameKind(Pri(c, TRUE), Q) /\ Then(Q, Pri(r, FALSE))
           /\ SameEar(Sec(c, TRUE), Sec(r, FALSE)) /\ Steady(c, r, FALSE)
<1>0. c.tx # <<>> /\ c.isOnline /\ c \in LinkContextType
  BY DEF Open, Full, Base
<1>1. PICK d : /\ d \in LinkContextType /\ SameRest(c, d) /\ ~d.clobbered
               /\ Chan(d) /\ (c.isOnline => Live(d))
               /\ \/ PriWritten(c, d) /\ r = TryStartTransmission(PriOnTxReady(d))
                  \/ SecWritten(c, d) /\ r = TryStartTransmission(SecOnTxReady(d))
  BY <1>0, WriteDone
<1>2. Open(d, FALSE) /\ d.config = c.config /\ d.up = c.up
  BY <1>0, <1>1 DEF Open, SameRest
<1>3. PriOut(d, FALSE) = PriOut(c, TRUE) /\ SecOut(d, FALSE) = SecOut(c, TRUE)
  <2>1. CASE PriWritten(c, d)
    BY <1>0, <2>1 DEF PriWritten, PriOut, SecOut
  <2>2. CASE SecWritten(c, d)
    BY <1>0, <2>2 DEF SecWritten, PriOut, SecOut
  <2> QED
    BY <1>1, <2>1, <2>2
<1>4. Pri(d, FALSE) = Pri(c, TRUE) /\ Sec(d, FALSE) = Sec(c, TRUE)
  BY <1>1, <1>3 DEF Pri, Sec, SameRest
<1>5. ASSUME NEW x, Base(x), SameKind(Pri(d, FALSE), Pri(x, FALSE)),
             SameEar(Sec(d, FALSE), Sec(x, FALSE)), Steady(d, x, FALSE),
             r = TryStartTransmission(x)
      PROVE  /\ \E Q : SameKind(Pri(c, TRUE), Q) /\ Then(Q, Pri(r, FALSE))
             /\ SameEar(Sec(c, TRUE), Sec(r, FALSE)) /\ Steady(c, r, FALSE)
  <2>1. Open(x, FALSE) /\ x.config.UseConfirms
    BY <1>2, <1>5 DEF Steady
  <2>2. /\ Pri(r, FALSE) = Pri(x, FALSE) \/ Starts(Pri(x, FALSE), Pri(r, FALSE))
        /\ Sec(r, FALSE) = Sec(x, FALSE) /\ Steady(x, r, FALSE)
    BY <1>5, <2>1, StartStep
  <2>3. Then(Pri(x, FALSE), Pri(r, FALSE)) /\ SameKind(Pri(c, TRUE), Pri(x, FALSE))
    BY <1>4, <1>5, <2>2 DEF Then
  <2> QED
    BY <1>2, <1>4, <1>5, <2>2, <2>3 DEF Steady
<1>6. CASE PriWritten(c, d) /\ r = TryStartTransmission(PriOnTxReady(d))
  <2> DEFINE x == PriOnTxReady(d)
  <2>1. d.pPriState \in PriTransmitWait /\ Base(x)
    BY <1>1, <1>6, PriWrittenFacts
  <2>2. d.pPriState # "SendUnconfirmedTransmitWait"
    BY <1>1 DEF SameRest
  <2>3. \/ /\ d.pPriState = "LinkResetTransmitWait"
           /\ x = EnterPri(StartResponseTimer(d), "ResetLinkWait")
        \/ /\ d.pPriState = "ConfUserDataTransmitWait"
           /\ x = EnterPri(StartResponseTimer(d), "ConfDataWait")
        \/ /\ d.pPriState = "RequestLinkStatusTransmitWait"
           /\ x = EnterPri(StartResponseTimer(d), "RequestLinkStatusWait")
    BY <2>1, <2>2 DEF PriOnTxReady, PriTransmitWait
  <2>4. r = TryStartTransmission(x)
    BY <1>6
  <2> HIDE DEF x
  <2>5. /\ Alike(d, x)
        /\ \/ d.pPriState = "LinkResetTransmitWait" /\ x.pPriState = "ResetLinkWait"
           \/ d.pPriState = "ConfUserDataTransmitWait" /\ x.pPriState = "ConfDataWait"
           \/ d.pPriState = "RequestLinkStatusTransmitWait" /\ x.pPriState = "RequestLinkStatusWait"
    BY <1>1, <2>3 DEF EnterPri, StartResponseTimer, Alike, LinkContextType
  <2>6. /\ PriOut(x, FALSE) = PriOut(d, FALSE) /\ Sec(x, FALSE) = Sec(d, FALSE)
        /\ Steady(d, x, FALSE)
    BY <1>2, <2>5, AlikeFacts
  <2>7. /\ Pri(x, FALSE).segs = Pri(d, FALSE).segs /\ Pri(x, FALSE).fcb = Pri(d, FALSE).fcb
        /\ Pri(x, FALSE).reset = Pri(d, FALSE).reset /\ Pri(x, FALSE).out = Pri(d, FALSE).out
        /\ Pri(x, FALSE).state = x.pPriState /\ Pri(d, FALSE).state = d.pPriState
        /\ Pri(x, FALSE).addr = Pri(d, FALSE).addr
    BY <2>5, <2>6 DEF Pri, Alike
  <2>8. SameKind(Pri(d, FALSE), Pri(x, FALSE))
    BY <2>5, <2>7 DEF SameKind, Resetting, Sending, Asking
  <2>9. SameEar(Sec(d, FALSE), Sec(x, FALSE))
    BY <2>6 DEF SameEar
  <2> QED
    BY <1>5, <2>1, <2>4, <2>6, <2>8, <2>9
<1>7. CASE SecWritten(c, d) /\ r = TryStartTransmission(SecOnTxReady(d))
  <2> DEFINE x == SecOnTxReady(d)
  <2>1. d.pSecState \in SecTransmitWait /\ Base(x)
    BY <1>1, <1>7, SecWrittenFacts
  <2>2. \/ d.pSecState = "TransmitWaitReset" /\ x = EnterSec(d, "Reset")
        \/ d.pSecState = "TransmitWaitNotReset" /\ x = EnterSec(d, "NotReset")
    BY <2>1 DEF SecOnTxReady, SecTransmitWait
  <2>3. r = TryStartTransmission(x)
    BY <1>7
  <2> HIDE DEF x
  <2>4. /\ SameChannel(d, x) /\ x.config = d.config /\ x.up = d.up
        /\ x.nextReadFCB = d.nextReadFCB
        /\ x.pPriState = d.pPriState /\ x.pSegments = d.pSegments
        /\ x.nextWriteFCB = d.nextWriteFCB /\ x.isRemoteReset = d.isRemoteReset
        /\ \/ d.pSecState = "TransmitWaitReset" /\ x.pSecState = "Reset"
           \/ d.pSecState = "TransmitWaitNotReset" /\ x.pSecState = "NotReset"
    BY <1>1, <2>2 DEF EnterSec, SameChannel, LinkContextType
  <2>5. PriOut(x, FALSE) = PriOut(d, FALSE) /\ SecOut(x, FALSE) = SecOut(d, FALSE)
        /\ Open(x, FALSE)
    BY <1>2, <2>4, SameChannelFacts
  <2>6. Pri(x, FALSE) = Pri(d, FALSE) /\ Steady(d, x, FALSE)
    BY <2>4, <2>5 DEF Pri, Steady
  <2>7. SameEar(Sec(d, FALSE), Sec(x, FALSE))
    BY <2>4, <2>5 DEF SameEar, Listening, Sec
  <2>8. SameKind(Pri(d, FALSE), Pri(x, FALSE))
    <3>1. Pri(d, FALSE).state # "SendUnconfirmedTransmitWait"
      BY <1>1 DEF Pri, SameRest
    <3> QED
      BY <2>6, <3>1 DEF SameKind
  <2> QED
    BY <1>5, <2>1, <2>3, <2>6, <2>7, <2>8
<1> QED
  BY <1>1, <1>6, <1>7

\* An endpoint on an open connection.
EndOK(c, w, config) == Full(c) /\ Open(c, w) /\ c.config = config /\ c.up = <<>>

\* The segments that a handler passed up are taken out of the context.
LEMMA UpCleared ==
    ASSUME NEW r, Full(r), NEW w, Open(r, w), NEW config, r.config = config,
           NEW d, d = [r EXCEPT !.up = <<>>]
    PROVE  /\ EndOK(d, w, config) /\ Pri(d, w) = Pri(r, w) /\ Sec(d, w) = Sec(r, w)
           /\ d \in LinkContextType
<1> DEFINE u == <<>>
<1>1. u \in Seq(Segment) /\ 0 \in Nat
  OBVIOUS
<1>2. d = [r EXCEPT !.up = u]
  OBVIOUS
<1>3. r \in LinkContextType
  BY DEF Full, Base
<1>4. d.up = <<>>
  BY <1>3 DEF LinkContextType
<1> HIDE DEF u
<1>5. Full(d)
  BY <1>1, <1>2, PlainUpdate
<1>6. /\ d.config = r.config /\ d.isOnline = r.isOnline
      /\ d.pSegments = r.pSegments /\ d.nextWriteFCB = r.nextWriteFCB
      /\ d.isRemoteReset = r.isRemoteReset /\ d.pPriState = r.pPriState
      /\ d.pSecState = r.pSecState /\ d.nextReadFCB = r.nextReadFCB
      /\ d.txMode = r.txMode /\ d.tx = r.tx
      /\ d.pendingPriTx = r.pendingPriTx /\ d.pendingSecTx = r.pendingSecTx
  BY <1>2, <1>3 DEF LinkContextType
<1>7. SameChannel(r, d)
  BY <1>6 DEF SameChannel
<1>8. Pri(d, w) = Pri(r, w) /\ Sec(d, w) = Sec(r, w) /\ Open(d, w)
  BY <1>6, <1>7, SameChannelFacts DEF Pri, Sec
<1> QED
  BY <1>4, <1>5, <1>6, <1>8 DEF EndOK, Full, Base

\* The frame in the channel, seen by the two stations.
LEMMA ChannelFrame ==
    ASSUME NEW c, Full(c), c.tx # <<>>, NEW f, f = Head(c.tx).frame
    PROVE  /\ \/ /\ c.txMode = "Primary" /\ PriOut(c, FALSE) = <<f>> /\ PriOut(c, TRUE) = <<>>
                 /\ SecOut(c, TRUE) = SecOut(c, FALSE)
              \/ /\ c.txMode = "Secondary" /\ SecOut(c, FALSE) = <<f>> /\ SecOut(c, TRUE) = <<>>
                 /\ PriOut(c, TRUE) = PriOut(c, FALSE)
           /\ f \in Frame
<1>1. c \in LinkContextType /\ Chan(c)
  BY DEF Full, Base
<1>2. /\ c.tx \in Seq([station : Station, frame : Frame])
      /\ c.txMode \in {"Idle", "Primary", "Secondary"}
  BY <1>1 DEF LinkContextType
<1>3. Head(c.tx) \in [station : Station, frame : Frame] /\ Head(c.tx) = c.tx[1]
  BY <1>2, TailIndex
<1>4. f \in Frame /\ f = c.tx[1].frame
  BY <1>3
<1>5. CASE c.txMode = "Primary"
  BY <1>1, <1>4, <1>5 DEF Chan, PriOut, SecOut
<1>6. CASE c.txMode = "Secondary"
  BY <1>1, <1>4, <1>6 DEF Chan, PriOut, SecOut
<1> QED
  BY <1>1, <1>2, <1>4, <1>5, <1>6 DEF Chan
===============================================================================
