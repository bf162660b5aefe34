------------------------------- MODULE LinkLayer -------------------------------
(***************************************************************************)
(* One endpoint of the link layer in an environment that may do anything   *)
(* the code allows: any well-formed frame may arrive at any time, the      *)
(* upper layer may send at any time, timers expire at any time and their   *)
(* handlers may outlive a Cancel, the channel opens and closes.  The       *)
(* strand runs one handler at a time, so one handler is one step.          *)
(***************************************************************************)
EXTENDS LinkContext

CONSTANTS Configs,      \* the LinkLayerConfigs this endpoint may have
          SendSet,      \* what the upper layer may send
          MaxPosted,    \* bound: completions waiting on the executor
          MaxStaleRsp,  \* bound: response timer handlers that outlive a Cancel
          MaxStaleKeepAlive   \* bound: the same for the keep-alive timer

ASSUME ConfigAssumption == Configs \subseteq LinkLayerConfig
ASSUME SendSetAssumption == SendSet \subseteq Segments

VARIABLES ctx,       \* the LinkContext
          orphaned   \* since the layer last went down, a keep-alive handler
                     \* that outlived its Cancel has run while it was down

endpointVars == <<ctx, orphaned>>

\* The upper layer takes what was pushed up within the handler that pushed it.
Handled(c) == [c EXCEPT !.up = <<>>]

EndpointInit ==
    /\ \E config \in Configs : ctx = InitContext(config)
    /\ orphaned = FALSE

LowerLayerUp ==
    /\ ~ctx.isOnline
    /\ ctx.posted < MaxPosted
    /\ \E reply \in SendSet \cup {NoSegments} : ctx' = OnLowerLayerUp(ctx, reply)
    /\ UNCHANGED orphaned

LowerLayerDown ==
    /\ ctx.isOnline
    /\ ctx' = OnLowerLayerDown(ctx)
    /\ orphaned' = FALSE

EndpointSend ==
    /\ ctx.posted < MaxPosted
    /\ \E s \in SendSet : ctx' = Send(ctx, s)
    /\ UNCHANGED orphaned

ReceiveFrame ==
    /\ ctx.isOnline
    /\ \E f \in Frame, reply \in SendSet \cup {NoSegments} :
         /\ reply # NoSegments => f.data # NoData /\ ctx.posted < MaxPosted
         /\ ctx' = Handled(OnFrame(ctx, f, reply))
    /\ UNCHANGED orphaned

EndpointWriteComplete ==
    /\ ctx.tx # <<>>
    /\ ctx' = OnWriteComplete(ctx)
    /\ UNCHANGED orphaned

\* The posted handler calls upper->OnTxReady; the link layer keeps no record.
EndpointRunPosted ==
    /\ ctx.posted > 0
    /\ ctx' = [ctx EXCEPT !.posted = @ - 1]
    /\ UNCHANGED orphaned

RspTimerExpires ==
    /\ CanExpire(ctx.rspTimeoutTimer, MaxStaleRsp)
    /\ ctx' = [ctx EXCEPT !.rspTimeoutTimer = TimerExpire(@)]
    /\ UNCHANGED orphaned

RspTimerCallback ==
    /\ IsActive(ctx.rspTimeoutTimer)
    /\ ctx' = OnResponseTimeout([ctx EXCEPT !.rspTimeoutTimer = CurrentCallback(@)])
    /\ UNCHANGED orphaned

StaleRspTimerCallback ==
    /\ ctx.rspTimeoutTimer.stale > 0
    /\ ctx' = OnResponseTimeout([ctx EXCEPT !.rspTimeoutTimer = StaleCallback(@)])
    /\ UNCHANGED orphaned

KeepAliveTimerExpires ==
    /\ CanExpire(ctx.keepAliveTimer, MaxStaleKeepAlive)
    /\ ctx' = [ctx EXCEPT !.keepAliveTimer = TimerExpire(@)]
    /\ UNCHANGED orphaned

KeepAliveTimerCallback ==
    /\ IsActive(ctx.keepAliveTimer)
    /\ \E elapsed \in BOOLEAN :
         ctx' = OnKeepAliveTimeout([ctx EXCEPT !.keepAliveTimer = CurrentCallback(@)], elapsed)
    /\ UNCHANGED orphaned

StaleKeepAliveTimerCallback ==
    /\ ctx.keepAliveTimer.stale > 0
    /\ \E elapsed \in BOOLEAN :
         ctx' = OnKeepAliveTimeout([ctx EXCEPT !.keepAliveTimer = StaleCallback(@)], elapsed)
    /\ orphaned' = (orphaned \/ ~ctx.isOnline)

EndpointNext ==
    \/ LowerLayerUp \/ LowerLayerDown
    \/ EndpointSend \/ ReceiveFrame \/ EndpointWriteComplete \/ EndpointRunPosted
    \/ RspTimerExpires \/ RspTimerCallback \/ StaleRspTimerCallback
    \/ KeepAliveTimerExpires \/ KeepAliveTimerCallback \/ StaleKeepAliveTimerCallback

EndpointSpec == EndpointInit /\ [][EndpointNext]_endpointVars

-------------------------------------------------------------------------------
\* A station's frame is in the channel or parked.
PriFrameOut(c) == c.txMode = "Primary" \/ c.pendingPriTx # <<>>
SecFrameOut(c) == c.txMode = "Secondary" \/ c.pendingSecTx # <<>>

\* The channel holds the one frame txMode stands for, and a frame is parked
\* only behind one of the other station.
ChannelMatchesMode(c) ==
    /\ c.txMode = "Idle" <=> c.tx = <<>>
    /\ c.tx # <<>> => Len(c.tx) = 1 /\ c.tx[1].station = c.txMode
    /\ c.pendingPriTx # <<>> => c.txMode = "Secondary"
    /\ c.pendingSecTx # <<>> => c.txMode = "Primary"

\* Type invariant of the link context.
EndpointTypeOK == ctx \in LinkContextType /\ orphaned \in BOOLEAN

\* Every frame is accounted for exactly once: the primary (secondary) station
\* is in a transmit-wait state exactly while one frame of its own is in the
\* channel or parked behind the other station's, and the mode names the one in
\* the channel.  If this broke, a completion would reach the wrong station or
\* none, and a station would wait for ever (LinkContext::OnTxReady).  Only a
\* keep-alive handler that ran while the layer was down upsets it, and that
\* until the layer goes down again.
TransmitAccounting ==
    ctx.isOnline /\ ~orphaned =>
      /\ ChannelMatchesMode(ctx)
      /\ ctx.pPriState \in PriTransmitWait <=> PriFrameOut(ctx)
      /\ ctx.pSecState \in SecTransmitWait <=> SecFrameOut(ctx)

\* No frame is formatted over bytes that the channel is still writing or that
\* wait for the channel: both stations reuse one static buffer each
\* (LinkContext.h priTxBuffer, secTxBuffer) and hand out slices of it.
BuffersIntact == ~ctx.clobbered

\* A station that waits for an answer always has a running response timer, and
\* only then: Start is ignored while a timer is active and a stale handler
\* clears a newer timer, so a missed restart would block the link for ever.
WaitHasTimer ==
    ctx.pPriState \in PriResponseWait <=> IsActive(ctx.rspTimeoutTimer)

\* The states that dereference pSegments hold a segment to send.
SegmentsPresent ==
    ctx.pPriState \in PriState \ {"Idle", "RequestLinkStatusTransmitWait",
                                  "RequestLinkStatusWait"} => HasSegments(ctx)

\* No wake-up is lost: the primary station is idle only when there is neither a
\* send nor a keep-alive waiting for it.
NoLostWork ==
    ctx.pPriState = "Idle" => ~HasSegments(ctx) /\ ~ctx.keepAliveTimeout

\* The timers run only while the layer is up, as the test "Timers activated and
\* canceled in response to layer up/down" states (TestLinkLayerKeepAlive.cpp).
TimersOffWhenDown ==
    ~ctx.isOnline => ~IsActive(ctx.keepAliveTimer) /\ ~IsActive(ctx.rspTimeoutTimer)

\* A layer that is down is also quiet: it is ready to be brought up afresh, with
\* no frame counted as under way and no state left that waits for one, unless
\* a keep-alive handler that outlived its Cancel has run since.
OfflineQuiet ==
    ~ctx.isOnline /\ ~orphaned =>
        /\ TimersOffWhenDown
        /\ ctx.pPriState = "Idle" /\ ctx.pSecState = "NotReset"
        /\ ctx.txMode = "Idle" /\ ctx.tx = <<>>
        /\ ctx.pendingPriTx = <<>> /\ ctx.pendingSecTx = <<>>
===============================================================================
