-------------------------------- MODULE LinkPair --------------------------------
(***************************************************************************)
(* Two link layers joined by a lossy, order-preserving byte channel: a     *)
(* master and an outstation that both send confirmed user data.  Frames    *)
(* may be lost, an endpoint may be restarted while the other one does not  *)
(* notice (a serial line, a radio), an answer may arrive before the write  *)
(* that it answers has completed, and the two directions share each        *)
(* endpoint's transmitter.                                                 *)
(*                                                                         *)
(* Patience: a response timer expires only when nothing that could still   *)
(* answer the request is under way (Timeout exceeds the round trip).  The  *)
(* acknowledgements of the protocol carry no sequence bit, so nothing      *)
(* could be promised without it.                                           *)
(***************************************************************************)
EXTENDS LinkContext

CONSTANTS Node,          \* the two endpoints
          NodeConfig,    \* NodeConfig[n]: its LinkLayerConfig
          Script,        \* Script[n]: what n's upper layer sends, in order
          MaxDisturbances  \* bound: restarts, reconnections and keep-alive
                           \* periods that elapse, in total

ASSUME NodeAssumption == \E a, b \in Node : a # b /\ Node = {a, b}
ASSUME PairConfigAssumption ==
    \A n \in Node : NodeConfig[n] \in LinkLayerConfig /\ NodeConfig[n].UseConfirms

\* Segments are numbered in the order in which an endpoint sends them.
ASSUME ScriptAssumption ==
    /\ Segment \subseteq Nat
    /\ \A n \in Node :
         /\ Script[n] \in Seq(Seq(Segment) \ {<<>>})
         /\ \A k, l \in DOMAIN Script[n] :
              \A i \in DOMAIN Script[n][k], j \in DOMAIN Script[n][l] :
                k < l \/ (k = l /\ i < j) => Script[n][k][i] < Script[n][l][j]

VARIABLES link,        \* link[n]: the link context of n
          written,    \* written[n]: the frame at the head of link[n].tx is on the wire
          wire,       \* wire[n]: frames on their way to n
          sent,       \* sent[n]: how many entries of Script[n] have been sent
          delivered,  \* delivered[n]: segments n has passed up, in order
          acked,      \* acked[n]: segments acknowledged to n while ~gaveUp[n]
          gaveUp,     \* gaveUp[n]: n had a final timeout in this session
          disturbances  \* how many of them there have been

vars == <<link, written, wire, sent, delivered, acked, gaveUp, disturbances>>

Peer(n) == CHOOSE m \in Node : m # n

Init ==
    /\ link = [n \in Node |-> OnLowerLayerUp(InitContext(NodeConfig[n]), NoSegments)]
    /\ written = [n \in Node |-> FALSE]
    /\ wire = [n \in Node |-> <<>>]
    /\ sent = [n \in Node |-> 0]
    /\ delivered = [n \in Node |-> <<>>]
    /\ acked = [n \in Node |-> {}]
    /\ gaveUp = [n \in Node |-> FALSE]
    /\ disturbances = 0

Become(n, c) == link' = [link EXCEPT ![n] = [c EXCEPT !.up = <<>>]]

\* The transport layer sends again once its last send has been completed.
UpperSend(n) ==
    /\ link[n].isOnline /\ ~HasSegments(link[n]) /\ link[n].posted = 0
    /\ sent[n] < Len(Script[n])
    /\ sent' = [sent EXCEPT ![n] = @ + 1]
    /\ Become(n, Send(link[n], [destination |-> NodeConfig[n].RemoteAddr,
                               segs |-> Script[n][sent[n] + 1]]))
    /\ UNCHANGED <<written, wire, delivered, acked, gaveUp, disturbances>>

RunPosted(n) ==
    /\ link[n].posted > 0
    /\ Become(n, [link[n] EXCEPT !.posted = @ - 1])
    /\ UNCHANGED <<written, wire, sent, delivered, acked, gaveUp, disturbances>>

\* The bytes leave, before or after which the completion is handled.
PutOnWire(n) ==
    /\ link[n].tx # <<>> /\ ~written[n]
    /\ written' = [written EXCEPT ![n] = TRUE]
    /\ wire' = [wire EXCEPT ![Peer(n)] = Append(@, Head(link[n].tx).frame)]
    /\ UNCHANGED <<link, sent, delivered, acked, gaveUp, disturbances>>

WriteComplete(n) ==
    /\ written[n]
    /\ written' = [written EXCEPT ![n] = FALSE]
    /\ Become(n, OnWriteComplete(link[n]))
    /\ UNCHANGED <<wire, sent, delivered, acked, gaveUp, disturbances>>

LoseFrame(n) ==
    /\ wire[n] # <<>>
    /\ wire' = [wire EXCEPT ![n] = Tail(@)]
    /\ UNCHANGED <<link, written, sent, delivered, acked, gaveUp, disturbances>>

\* The segment that frame acknowledges to n.
Acknowledged(n, frame) ==
    IF /\ Accepts(link[n], frame) /\ frame.func = "SEC_ACK"
       /\ link[n].pPriState = "ConfDataWait" /\ ~gaveUp[n]
    THEN {Head(link[n].pSegments.segs)} ELSE {}

Receive(n) ==
    /\ wire[n] # <<>>
    /\ wire' = [wire EXCEPT ![n] = Tail(@)]
    /\ LET c == OnFrame(link[n], Head(wire[n]), NoSegments)
       IN  /\ Become(n, c)
           /\ delivered' = [delivered EXCEPT ![n] = @ \o c.up]
    /\ acked' = [acked EXCEPT ![n] = @ \cup Acknowledged(n, Head(wire[n]))]
    /\ UNCHANGED <<written, sent, gaveUp, disturbances>>

Quiet(n) == wire[n] = <<>> /\ wire[Peer(n)] = <<>> /\ link[Peer(n)].tx = <<>>

ResponseTimeout(n) ==
    /\ IsActive(link[n].rspTimeoutTimer) /\ Quiet(n)
    /\ Become(n, OnResponseTimeout([link[n] EXCEPT !.rspTimeoutTimer = CurrentCallback(@)]))
    /\ gaveUp' = [gaveUp EXCEPT ![n] = @ \/ /\ link[n].pPriState = "ConfDataWait"
                                            /\ link[n].numRetryRemaining = 0]
    /\ UNCHANGED <<written, wire, sent, delivered, acked, disturbances>>

\* KeepAliveTimeout exceeds Timeout: the timer does not expire again while the
\* request it caused is still unanswered.
KeepAlive(n) ==
    /\ IsActive(link[n].keepAliveTimer) /\ disturbances < MaxDisturbances
    /\ link[n].pPriState \notin {"RequestLinkStatusTransmitWait", "RequestLinkStatusWait"}
    /\ disturbances' = disturbances + 1
    /\ Become(n, OnKeepAliveTimeout([link[n] EXCEPT !.keepAliveTimer = CurrentCallback(@)], TRUE))
    /\ UNCHANGED <<written, wire, sent, delivered, acked, gaveUp>>

DownUp(c) == OnLowerLayerUp(OnLowerLayerDown(c), NoSegments)

\* A serial line: n's port is reopened and its peer does not notice.  Reopening
\* takes longer than what is under way takes to arrive.
Restart(n) ==
    /\ disturbances < MaxDisturbances /\ Quiet(n)
    /\ disturbances' = disturbances + 1
    /\ Become(n, DownUp(link[n]))
    /\ written' = [written EXCEPT ![n] = FALSE]
    /\ gaveUp' = [gaveUp EXCEPT ![n] = FALSE]
    /\ UNCHANGED <<wire, sent, delivered, acked>>

\* A connection: both ends go down, what is under way is gone, both come up.
Reconnect ==
    /\ disturbances < MaxDisturbances
    /\ disturbances' = disturbances + 1
    /\ link' = [n \in Node |-> DownUp(link[n])]
    /\ written' = [n \in Node |-> FALSE]
    /\ wire' = [n \in Node |-> <<>>]
    /\ gaveUp' = [n \in Node |-> FALSE]
    /\ UNCHANGED <<sent, delivered, acked>>

Done ==
    /\ \A n \in Node : /\ sent[n] = Len(Script[n]) /\ link[n].pPriState = "Idle"
                       /\ link[n].tx = <<>> /\ wire[n] = <<>> /\ link[n].posted = 0
    /\ UNCHANGED vars

Progress(n) ==
    \/ RunPosted(n) \/ PutOnWire(n) \/ WriteComplete(n)
    \/ Receive(n) \/ ResponseTimeout(n)

Next ==
    \/ \E n \in Node : Progress(n) \/ UpperSend(n) \/ LoseFrame(n) \/ KeepAlive(n) \/ Restart(n)
    \/ Reconnect
    \/ Done

\* The strand runs queued handlers, the channel finishes writes and hands over
\* what arrives, timers expire: an endpoint that can take a step of its own
\* takes one.  Losing frames is never required.
Spec == Init /\ [][Next]_vars /\ \A n \in Node : WF_vars(Progress(n))

-------------------------------------------------------------------------------
SegmentNumbers(seq) == {seq[i] : i \in DOMAIN seq}

\* Type invariant of the pair.
TypeOK ==
    /\ link \in [Node -> LinkContextType]
    /\ wire \in [Node -> Seq(Frame)]
    /\ written \in [Node -> BOOLEAN] /\ gaveUp \in [Node -> BOOLEAN]
    /\ sent \in [Node -> Nat] /\ delivered \in [Node -> Seq(Segment)]
    /\ acked \in [Node -> SUBSET Segment]

\* Whatever is lost, retransmitted or restarted, a segment is passed up at most
\* once and never after a later one: what the frame count bit is for.
DeliveredOnceInOrder ==
    \A n \in Node : \A i, j \in DOMAIN delivered[n] :
        i < j => delivered[n][i] < delivered[n][j]

\* A segment the sender took as acknowledged has been passed up on the other
\* side, unless the sender gave up on an earlier one since it last came up
\* (PLLS_ConfDataWait::OnTimeout leaves the frame count bit as it was).
AckedWasDelivered ==
    \A n \in Node : acked[n] \subseteq SegmentNumbers(delivered[Peer(n)])

\* Whatever is lost, the upper layer's send is completed and reported to it, so
\* that it may send again: the transport layer has no timer of its own.
SendCompletes ==
    \A n \in Node : HasSegments(link[n]) ~> ~HasSegments(link[n]) /\ link[n].posted = 0
===============================================================================
