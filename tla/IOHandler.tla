------------------------------- MODULE IOHandler -------------------------------
(***************************************************************************)
(* asiodnp3::IOHandler with its TCP client, TCP server and serial          *)
(* subclasses: it owns the channel (a connection or an open port), gets a  *)
(* new one when it is lost, and shares it between the link sessions.       *)
(*                                                                         *)
(* The record h:                                                           *)
(*   mode, closeExisting - which subclass; what to do with a second channel*)
(*   session  - "absent", "disabled" or "enabled" for each link session    *)
(*   online   - the sessions that were told that the layer is up           *)
(*   sending  - the sessions with a frame they await an OnTxReady for      *)
(*   channel, writing - is there a channel, and a write outstanding on it; *)
(*              a read is always outstanding                               *)
(*   txQueue  - the sessions whose frames are to be written                *)
(*   client   - "none": the TCPClient (or server) is dropped; "busy": it   *)
(*              connects (accepts); "idle": it does not                    *)
(*   orphans  - connecting clients that were replaced and not cancelled,   *)
(*              and accepted connections whose server was closed: they     *)
(*              still report                                               *)
(*   retryTimer - with its delays abstracted                               *)
(*   listener - the last state reported to the IChannelListener            *)
(*   fault    - a null client was dereferenced: the program is gone        *)
(***************************************************************************)
EXTENDS Naturals, Sequences, TimerRef

CONSTANTS Session,
          MaxQueue,     \* bound: frames queued
          MaxOrphans,   \* bound: clients that were replaced
          MaxStale      \* bound: retry handlers that outlive a Cancel

VARIABLE h

Mode == {"tcp client", "serial", "tcp server"}

HandlerType ==
    [mode : Mode, closeExisting : BOOLEAN,
     session : [Session -> {"absent", "disabled", "enabled"}],
     online : SUBSET Session, sending : SUBSET Session,
     channel : BOOLEAN, writing : BOOLEAN, txQueue : Seq(Session),
     client : {"none", "idle", "busy"}, orphans : Nat, retryTimer : TimerRefType,
     listener : {"CLOSED", "OPENING", "OPEN", "SHUTDOWN"}, isShutdown : BOOLEAN,
     fault : BOOLEAN]

Init ==
    \E m \in Mode, c \in BOOLEAN :
       /\ c => m = "tcp server"
       /\ h = [mode |-> m, closeExisting |-> c, session |-> [s \in Session |-> "absent"],
               online |-> {}, sending |-> {}, channel |-> FALSE, writing |-> FALSE,
               txQueue |-> <<>>, client |-> "none", orphans |-> 0,
               retryTimer |-> TimerOff, listener |-> "CLOSED", isShutdown |-> FALSE,
               fault |-> FALSE]

EnabledSessions(g) == {s \in Session : g.session[s] = "enabled"}

-------------------------------------------------------------------------------
\* IOHandler.

\* Defect: the sessions are not told that the layer is down.
ResetQuietly(g) ==
    [g EXCEPT !.channel = FALSE, !.writing = FALSE, !.txQueue = <<>>,
              !.listener = IF g.channel THEN "CLOSED" ELSE @]

\* The channel is shut down; what is outstanding on it will not be reported.
Reset(g) ==
    IF g.channel
    THEN [g EXCEPT !.channel = FALSE, !.writing = FALSE, !.txQueue = <<>>,
                   !.listener = "CLOSED", !.online = {}, !.sending = {}]
    ELSE [g EXCEPT !.txQueue = <<>>]

OnNewChannel(g) ==
    IF g.channel /\ ~g.closeExisting THEN g
    ELSE [Reset(g) EXCEPT !.channel = TRUE, !.listener = "OPEN",
                          !.online = EnabledSessions(g)]

CheckForSend(g) ==
    IF g.txQueue = <<>> \/ ~g.channel THEN g ELSE [g EXCEPT !.writing = TRUE]

LowerLayerDown(g, s) == [g EXCEPT !.online = @ \ {s}, !.sending = @ \ {s}]

-------------------------------------------------------------------------------
\* The subclasses.  ok is the result of opening a port or an acceptor; late says
\* that a connection was accepted before the acceptor was closed.

\* SerialIOHandler::TryOpen.
TryOpen(g, ok) ==
    IF ok THEN OnNewChannel(g) ELSE [g EXCEPT !.retryTimer = TimerStart(@)]

BeginChannelAccept(g, ok) ==
    CASE g.mode = "tcp client" ->
           [g EXCEPT !.client = "busy", !.orphans = IF g.client = "busy" THEN @ + 1 ELSE @]
      [] g.mode = "serial" -> TryOpen(g, ok)
      [] g.mode = "tcp server" ->
           [g EXCEPT !.client = IF @ # "none" THEN @ ELSE IF ok THEN "busy" ELSE "idle"]

\* Also ShutdownImpl: the client or the server is dropped, the timer cancelled.
SuspendChannelAccept(g, late) ==
    [g EXCEPT !.client = "none",
              !.orphans = IF g.mode = "tcp server" /\ g.client = "busy" /\ late THEN @ + 1 ELSE @,
              !.retryTimer = TimerCancel(@)]

\* A server is always accepting.
OnChannelShutdown(g, ok) ==
    IF g.mode = "tcp server" THEN g ELSE BeginChannelAccept(g, ok)

\* TCPClientIOHandler::StartConnect, TryOpen of a port.
Retry(g, ok) ==
    IF g.mode = "serial" THEN TryOpen(g, ok)
    ELSE IF g.client = "none" THEN [g EXCEPT !.fault = TRUE]
         ELSE [g EXCEPT !.client = "busy"]

\* The bound on orphans, and the end of a program that has failed.
Goes(g) == ~h.fault /\ g.orphans <= MaxOrphans /\ h' = g

-------------------------------------------------------------------------------
\* The operations of the stacks and of DNP3Channel.

AddContext(s) ==
    /\ h.session[s] = "absent"
    /\ ~h.isShutdown
    /\ Goes([h EXCEPT !.session[s] = "disabled"])

Enable(s) ==
    /\ h.session[s] = "disabled"
    /\ LET g == [h EXCEPT !.session[s] = "enabled"]
       IN  IF h.channel THEN Goes([g EXCEPT !.online = @ \cup {s}])
           ELSE \E ok \in BOOLEAN : Goes(BeginChannelAccept([g EXCEPT !.listener = "OPENING"], ok))

Disable(s) ==
    /\ h.session[s] = "enabled"
    /\ LET g == LowerLayerDown([h EXCEPT !.session[s] = "disabled"], s)
       IN  IF EnabledSessions(g) # {} THEN Goes(g)
           ELSE \E late \in BOOLEAN : Goes(SuspendChannelAccept(Reset(g), late))

\* The channel stays open when its last session is removed.
Remove(s) ==
    /\ h.session[s] # "absent"
    /\ LET g == LowerLayerDown([h EXCEPT !.session[s] = "absent"], s)
       IN  IF EnabledSessions(g) # {} THEN Goes(g)
           ELSE \E late \in BOOLEAN : Goes(SuspendChannelAccept(g, late))

\* DNP3Channel::ShutdownImpl: the handler is shut down, the stacks are removed.
Shutdown ==
    /\ ~h.isShutdown
    /\ \E late \in BOOLEAN :
         Goes([SuspendChannelAccept(Reset(h), late)
                 EXCEPT !.isShutdown = TRUE, !.listener = "SHUTDOWN",
                        !.session = [s \in Session |-> "absent"]])

\* The link layer of a session sends a frame.
BeginTransmit(s) ==
    /\ s \in h.online \ h.sending
    /\ Len(h.txQueue) < MaxQueue
    /\ Goes(CheckForSend([h EXCEPT !.txQueue = Append(@, s), !.sending = @ \cup {s}]))

-------------------------------------------------------------------------------
\* What the channel, the client and the timer report.

\* Defect: a frame that was queued meanwhile is not written.
WriteCompletesUnchecked ==
    /\ h.writing
    /\ Goes([h EXCEPT !.writing = FALSE, !.txQueue = Tail(@), !.sending = @ \ {Head(h.txQueue)}])

WriteCompletes ==
    /\ h.writing
    /\ LET g == [h EXCEPT !.writing = FALSE, !.txQueue = Tail(@), !.sending = @ \ {Head(h.txQueue)}]
       IN  Goes(CheckForSend(g))

\* A read or a write fails.
ChannelFails ==
    /\ h.channel
    /\ \E ok \in BOOLEAN :
         Goes(OnChannelShutdown([Reset(h) EXCEPT !.listener = "OPENING"], ok))

\* The callback of TCPClient, or of TCPServer, which accepts on.
Connected ==
    /\ h.client = "busy"
    /\ Goes(OnNewChannel([h EXCEPT !.client = IF h.mode = "tcp client" THEN "idle" ELSE @]))

ConnectFails ==
    /\ h.mode = "tcp client"
    /\ h.client = "busy"
    /\ Goes([h EXCEPT !.client = "idle", !.retryTimer = TimerStart(@)])

\* Defect: a client that was cancelled reports as well.
CancelledConnected ==
    Goes(OnNewChannel([h EXCEPT !.orphans = @ - 1]))

OrphanConnected ==
    /\ h.orphans > 0
    /\ Goes(OnNewChannel([h EXCEPT !.orphans = @ - 1]))

OrphanFails ==
    /\ h.orphans > 0
    /\ h.mode = "tcp client"
    /\ Goes([h EXCEPT !.orphans = @ - 1, !.retryTimer = TimerStart(@)])

RetryTimerExpires ==
    /\ CanExpire(h.retryTimer, MaxStale)
    /\ Goes([h EXCEPT !.retryTimer = TimerExpire(@)])

RetryTimerCallback ==
    /\ IsActive(h.retryTimer)
    /\ \E ok \in BOOLEAN : Goes(Retry([h EXCEPT !.retryTimer = CurrentCallback(@)], ok))

StaleRetryTimerCallback ==
    /\ h.retryTimer.stale > 0
    /\ \E ok \in BOOLEAN : Goes(Retry([h EXCEPT !.retryTimer = StaleCallback(@)], ok))

Next ==
    \/ \E s \in Session :
         \/ AddContext(s)
         \/ Enable(s)
         \/ Disable(s)
         \/ Remove(s)
         \/ BeginTransmit(s)
    \/ Shutdown
    \/ WriteCompletes
    \/ ChannelFails
    \/ Connected
    \/ ConnectFails
    \/ OrphanConnected
    \/ OrphanFails
    \/ RetryTimerExpires
    \/ RetryTimerCallback
    \/ StaleRetryTimerCallback

Spec == Init /\ [][Next]_h

-------------------------------------------------------------------------------

\* The handler keeps its type: no more clients than were started are counted as
\* orphans, and only sessions of the handler have frames queued (IOHandler).
TypeOK == h \in HandlerType

\* A session is told that the layer is up exactly while it is enabled and there
\* is a channel, whichever of a second connection, a lost one, a late one or a
\* change of the sessions came last, and the listener is told OPEN exactly while
\* there is a channel.
SessionsFollowChannel ==
    /\ h.online = IF h.channel THEN EnabledSessions(h) ELSE {}
    /\ h.listener = "OPEN" <=> h.channel

\* Nothing stalls: frames are queued only for a channel, which is then writing
\* the first of them, so that OnTxReady will come; a client or a serial port whose
\* sessions are enabled has a channel, is connecting or will try again.
NothingStalls ==
    /\ h.writing <=> h.channel /\ h.txQueue # <<>>
    /\ h.txQueue # <<>> => h.channel
    /\ EnabledSessions(h) # {} /\ ~h.channel /\ h.mode # "tcp server" =>
          h.client = "busy" \/ h.orphans > 0 \/ IsActive(h.retryTimer)
===============================================================================
