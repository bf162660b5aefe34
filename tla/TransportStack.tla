----------------------------- MODULE TransportStack -----------------------------
(***************************************************************************)
(* A fragment's way through both layers: a sending transport layer on its  *)
(* link layer, a lossy channel, and a link layer with a receiving          *)
(* transport layer on it.                                                  *)
(*                                                                         *)
(* The link layer holds a pointer to the TransportTx, not a copy.  A       *)
(* fragment configured while it holds it replaces the segments under its   *)
(* hands, and the Send that follows is refused (LinkLayer::Send).          *)
(***************************************************************************)
EXTENDS LinkContext, Transport

CONSTANTS sender, receiver,   \* the two ends
          NodeConfig,         \* NodeConfig[n]: its LinkLayerConfig
          Lengths,            \* bound: the sizes of the fragments, in bytes
          MaxFragments,       \* bound: fragments submitted
          MaxReconnects,      \* bound: connections that replace the first one
          Modes               \* how the sender may come by its connections

VARIABLES link,         \* link[n]: the link context of n
          transport,    \* the sender's TransportLayer
          transmitter,  \* the sender's TransportTx
          rx,           \* the receiver's TransportRx
          written,      \* written[n]: the frame at the head of link[n].tx is on the wire
          wire,         \* wire[n]: frames on their way to n
          submitted,    \* the fragments the sender's transport layer accepted
          fragments,    \* the fragments passed up at the receiver
          gaveUp,       \* a segment's retries ran out on this connection
          late,         \* a completion of an earlier connection was still queued when
                        \* this one came up
          reconnects,
          mode          \* how the sender comes by its connections

vars == <<link, transport, transmitter, rx, written, wire, submitted, fragments,
          gaveUp, late, reconnects, mode>>

Node == {sender, receiver}
Peer(n) == IF n = sender THEN receiver ELSE sender

\* The i-th byte of the n-th fragment is told apart from all others.
Byte == (1..MaxFragments) \X UNION {1..len : len \in Lengths}
Bytes(n, len) == [i \in 1..len |-> <<n, i>>]

\* A transport segment: the header byte's fields and at most a TPDU's payload.
Tpdu == [fir : BOOLEAN, fin : BOOLEAN, seq : 0..(SeqModulus - 1),
         payload : UNION {[1..k -> Byte] : k \in 0..MaxTpduPayload}]

ASSUME EndsAssumption == sender # receiver /\ NodeConfig \in [Node -> LinkLayerConfig]
ASSUME SegmentsAreTpdus == Segment = Tpdu
\* TransportLayer::BeginTransmit refuses an empty fragment.
ASSUME LengthsAssumption == Lengths \subseteq Nat \ {0} /\ MaxFragments \in Nat
\* A client, or a server that keeps the open connection or closes it when
\* another one is accepted (ServerAcceptMode).
ChannelMode == {"TCPClient", "CloseNew", "CloseExisting"}
ASSUME ReconnectAssumption == MaxReconnects \in Nat /\ Modes \subseteq ChannelMode

Init ==
    /\ link = [n \in Node |-> OnLowerLayerUp(InitContext(NodeConfig[n]), NoSegments)]
    /\ transport = LayerUp(LayerInit)
    /\ transmitter = TxInit
    /\ rx = RxInit
    /\ written = [n \in Node |-> FALSE]
    /\ wire = [n \in Node |-> <<>>]
    /\ submitted = <<>> /\ fragments = <<>>
    /\ gaveUp = FALSE /\ late = FALSE
    /\ reconnects = 0
    /\ mode \in Modes

Become(n, c) == link' = [link EXCEPT ![n] = [c EXCEPT !.up = <<>>]]

\* lower->Send(transmitter), after the transmitter has been configured.
SendTransmitter(c, t) ==
    LET segments == [destination |-> c.config.RemoteAddr, segs |-> Segmentation(t)]
    IN  IF HasSegments(c) THEN [c EXCEPT !.pSegments = segments] ELSE Send(c, segments)

AppBeginTransmit ==
    /\ AcceptsSend(transport)
    /\ Len(submitted) < MaxFragments
    /\ \E len \in Lengths :
         LET payload == Bytes(Len(submitted) + 1, len)
             t == Configure(transmitter, payload)
         IN  /\ transmitter' = t
             /\ Become(sender, SendTransmitter(link[sender], t))
             /\ submitted' = Append(submitted, payload)
    /\ transport' = StartSend(transport)
    /\ UNCHANGED <<rx, written, wire, fragments, gaveUp, late,
                   reconnects, mode>>

\* The posted completion reaches the sender's transport layer.
RunPosted ==
    /\ link[sender].posted > 0
    /\ Become(sender, [link[sender] EXCEPT !.posted = @ - 1])
    /\ transport' = LayerTxReady(transport)
    /\ UNCHANGED <<transmitter, rx, written, wire, submitted, fragments, gaveUp, late,
                   reconnects, mode>>

PutOnWire(n) ==
    /\ link[n].tx # <<>> /\ ~written[n]
    /\ written' = [written EXCEPT ![n] = TRUE]
    /\ wire' = [wire EXCEPT ![Peer(n)] = Append(@, Head(link[n].tx).frame)]
    /\ UNCHANGED <<link, transport, transmitter, rx, submitted, fragments, gaveUp, late,
                   reconnects, mode>>

LoseFrame(n) ==
    /\ wire[n] # <<>>
    /\ wire' = [wire EXCEPT ![n] = Tail(@)]
    /\ UNCHANGED <<link, transport, transmitter, rx, written, submitted, fragments,
                   gaveUp, late, reconnects, mode>>

\* An unconfirmed segment is done when it is written, a confirmed one when it
\* is acknowledged.
WriteAdvances(n) ==
    n = sender /\ link[n].txMode = "Primary" /\ link[n].pPriState = "SendUnconfirmedTransmitWait"
AckAdvances(n, frame) ==
    /\ n = sender /\ Accepts(link[n], frame)
    /\ frame.func = "SEC_ACK" /\ link[n].pPriState = "ConfDataWait"

WriteComplete(n) ==
    /\ written[n]
    /\ written' = [written EXCEPT ![n] = FALSE]
    /\ transmitter' = IF WriteAdvances(n) THEN TxAdvance(transmitter) ELSE transmitter
    /\ Become(n, OnWriteComplete(link[n]))
    /\ UNCHANGED <<transport, rx, wire, submitted, fragments, gaveUp, late,
                   reconnects, mode>>

\* TransportLayer::OnReceive at the receiver: the frame's segment, if it has
\* one that the link layer passes up, goes to the TransportRx.
PassedUp(c, frame) ==
    IF c.up = <<>> THEN [rx |-> rx, asdu |-> <<>>]
    ELSE ProcessReceive(rx, frame.src, Head(c.up))

Receive(n) ==
    /\ wire[n] # <<>>
    /\ wire' = [wire EXCEPT ![n] = Tail(@)]
    /\ LET frame == Head(wire[n])
           c == OnFrame(link[n], frame, NoSegments)
           out == PassedUp(c, frame)
       IN  /\ Become(n, c)
           /\ transmitter' = IF AckAdvances(n, frame) THEN TxAdvance(transmitter)
                                                      ELSE transmitter
           /\ rx' = out.rx
           /\ fragments' = IF out.asdu = <<>> THEN fragments
                           ELSE Append(fragments, [asdu |-> out.asdu, excused |-> gaveUp \/ late])
    /\ UNCHANGED <<transport, written, submitted, gaveUp, late, reconnects, mode>>

\* Timeout exceeds the round trip: a response timer expires only when nothing
\* that could still answer the request is under way.
Quiet(n) == wire[n] = <<>> /\ wire[Peer(n)] = <<>> /\ link[Peer(n)].tx = <<>>

ResponseTimeout ==
    /\ IsActive(link[sender].rspTimeoutTimer) /\ Quiet(sender)
    /\ Become(sender, OnResponseTimeout([link[sender] EXCEPT !.rspTimeoutTimer = CurrentCallback(@)]))
    /\ gaveUp' = (gaveUp \/ /\ link[sender].pPriState = "ConfDataWait"
                            /\ link[sender].numRetryRemaining = 0)
    /\ UNCHANGED <<transport, transmitter, rx, written, wire, submitted, fragments,
                   late, reconnects, mode>>

\* IOHandler::Reset at both ends: the channel is closed, what it held is gone.
ConnectionLost ==
    /\ link[sender].isOnline /\ reconnects < MaxReconnects
    /\ reconnects' = reconnects + 1
    /\ link' = [n \in Node |-> OnLowerLayerDown(link[n])]
    /\ transport' = LayerDown(transport)
    /\ rx' = ClearRxBuffer(rx)
    /\ written' = [n \in Node |-> FALSE]
    /\ wire' = [n \in Node |-> <<>>]
    /\ late' = FALSE
    /\ UNCHANGED <<transmitter, submitted, fragments, gaveUp, mode>>

\* IOHandler::OnNewChannel with no channel open.  A client begins to connect in
\* the handler that lost the connection (OnChannelShutdown), so that on the strand
\* its handler comes after every completion posted before.  A server accepts all
\* the time (TCPServer::StartAccept): loss and accept may both have been queued
\* before the handler that posts the completion has run.
Connected ==
    /\ ~link[sender].isOnline
    /\ mode = "TCPClient" => link[sender].posted = 0
    /\ link' = [n \in Node |-> OnLowerLayerUp(link[n], NoSegments)]
    /\ transport' = LayerUp(transport)
    /\ gaveUp' = FALSE
    /\ late' = (link[sender].posted > 0)
    /\ UNCHANGED <<transmitter, rx, written, wire, submitted, fragments,
                   reconnects, mode>>

\* IOHandler::OnNewChannel with a channel open and close_existing: Reset and
\* LowerLayerUp in one handler, whatever is still queued on the strand.
NewChannel ==
    /\ mode = "CloseExisting" /\ link[sender].isOnline /\ reconnects < MaxReconnects
    /\ reconnects' = reconnects + 1
    /\ link' = [n \in Node |-> OnLowerLayerUp(OnLowerLayerDown(link[n]), NoSegments)]
    /\ transport' = LayerUp(LayerDown(transport))
    /\ rx' = ClearRxBuffer(rx)
    /\ written' = [n \in Node |-> FALSE]
    /\ wire' = [n \in Node |-> <<>>]
    /\ gaveUp' = FALSE
    /\ late' = (link[sender].posted > 0)
    /\ UNCHANGED <<transmitter, submitted, fragments, mode>>

Done ==
    /\ Len(submitted) = MaxFragments /\ ~transport.isSending
    /\ \A n \in Node : link[n].tx = <<>> /\ wire[n] = <<>> /\ link[n].posted = 0
    /\ UNCHANGED vars

Next ==
    \/ AppBeginTransmit \/ RunPosted \/ ResponseTimeout
    \/ \E n \in Node : PutOnWire(n) \/ LoseFrame(n) \/ WriteComplete(n) \/ Receive(n)
    \/ ConnectionLost \/ Connected \/ NewChannel
    \/ Done

Spec == Init /\ [][Next]_vars

-------------------------------------------------------------------------------
TxType == [payload : Seq(Byte), tpduCount : Nat, sequence : 0..(SeqModulus - 1)]
RxType == [buffer : Seq(Byte), expectedSeq : 0..(SeqModulus - 1),
           lastSource : Address \cup {"none"}]

\* Type invariant: both ends' link contexts, the transport layer's flags and
\* buffers, and its sequence numbers within their modulus.
TypeOK ==
    /\ link \in [Node -> LinkContextType]
    /\ transport \in LayerType /\ transmitter \in TxType /\ rx \in RxType
    /\ written \in [Node -> BOOLEAN] /\ wire \in [Node -> Seq(Frame)]
    /\ submitted \in Seq(Seq(Byte))
    /\ fragments \in Seq([asdu : Seq(Byte), excused : BOOLEAN])
    /\ gaveUp \in BOOLEAN /\ late \in BOOLEAN
    /\ reconnects \in 0..MaxReconnects /\ mode \in Modes

\* While the link layer is sending a fragment the transport layer rejects all
\* other sends ("while we're sending, all other send requests are rejected",
\* TestTransportLayer.cpp): the fragment under way is never replaced.
SendAlwaysRejected == HasSegments(link[sender]) => ~AcceptsSend(transport)

\* The same but for connections that came up with the completion of an earlier
\* one still queued: only such a completion ends a send that it does not belong
\* to, whatever is lost, times out, is disconnected or is replaced.
SendRejectedWhileSending == ~late => SendAlwaysRejected

\* A transport layer that is sending will hear of it: the link layer still holds
\* the transmitter or the completion is queued.  The layer has no timer; if
\* this broke it would refuse every send until the connection is lost.
CompletionOwed ==
    transport.isSending => HasSegments(link[sender]) \/ link[sender].posted > 0

InOrder(I) ==
    /\ \A i \in I : \E k \in DOMAIN submitted : fragments[i].asdu = submitted[k]
    /\ \A i, j \in I : i < j => fragments[i].asdu[1][1] < fragments[j].asdu[1][1]

\* The fragments passed up are submitted fragments, whole, in order and at most
\* once, but for those passed up on a connection on which a segment's retries ran
\* out or that came up with a completion of an earlier one still queued.
FragmentsIntact == InOrder({i \in DOMAIN fragments : ~fragments[i].excused})

\* The same without the proviso: the data passed up is the data that was sent
\* ("check that the correct data was written", TestTransportLayer.cpp).
FragmentsAlwaysIntact == InOrder(DOMAIN fragments)
===============================================================================
