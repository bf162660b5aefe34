------------------------------- MODULE Reassembly -------------------------------
(***************************************************************************)
(* Several transport layers send fragments to one over links without       *)
(* confirmation: a segment arrives or is lost, segments of different       *)
(* sources interleave (an outstation that answers any source), and the     *)
(* connection may be lost and opened again.  A segment that is written is  *)
(* received at once: the links keep the order, so what matters is which    *)
(* segments arrive and how the sources interleave.                         *)
(*                                                                         *)
(* TransportRx ignores a segment with the wrong number and keeps waiting,  *)
(* so the numbers must not come round while no first segment arrives.      *)
(* MaxLostFirst bounds how many fragments in a row lose their first        *)
(* segment; with 9 segments to a fragment and 64 numbers it may be 6.      *)
(***************************************************************************)
EXTENDS Transport

CONSTANTS Source,        \* the sending transport layers
          Lengths,       \* bound: the sizes of the fragments, in bytes
          Quota,         \* bound: Quota[s] fragments are submitted by s
          MaxLostFirst   \* bound: fragments in a row without their first segment

\* TransportLayer::BeginTransmit refuses an empty fragment.
ASSUME BoundsAssumption ==
    /\ Lengths \subseteq Nat \ {0}
    /\ Quota \in [Source -> Nat]
    /\ MaxLostFirst \in Nat

ASSUME NoWrapAssumption ==
    \A len \in Lengths : (MaxLostFirst + 1) * NumSegments(len) <= SeqModulus

VARIABLES layer,        \* layer[s]: TransportLayer of source s
          transmitter,  \* transmitter[s]: its TransportTx
          holding,      \* holding[s]: the link layer of s holds the transmitter
          receiver,     \* the TransportRx
          sent,         \* sent[s]: the fragments accepted from s's application
          delivered,    \* the fragments passed up, each with its source
          lostFirst,    \* lostFirst[s]: first segments of s lost since one arrived
          arrived       \* arrived[s]: the bytes of s's fragment, while none of its
                        \* segments is lost and no other fragment has started

vars == <<layer, transmitter, holding, receiver, sent, delivered, lostFirst, arrived>>

\* Bytes are told apart by source, fragment and position.
Bytes(s, n, len) == [i \in 1..len |-> <<s, n, i>>]
Fragment == UNION {{Bytes(s, n, len) : n \in 1..Quota[s], len \in Lengths} : s \in Source}

\* No bytes: segments are never empty.
Broken == <<>>

Init ==
    /\ layer = [s \in Source |-> LayerUp(LayerInit)]
    /\ transmitter = [s \in Source |-> TxInit]
    /\ holding = [s \in Source |-> FALSE]
    /\ receiver = RxInit
    /\ sent = [s \in Source |-> <<>>]
    /\ delivered = <<>>
    /\ lostFirst = [s \in Source |-> 0]
    /\ arrived = [s \in Source |-> Broken]

BeginTransmit(s) ==
    /\ AcceptsSend(layer[s])
    /\ Len(sent[s]) < Quota[s]
    /\ \E len \in Lengths :
         LET payload == Bytes(s, Len(sent[s]) + 1, len)
         IN  /\ transmitter' = [transmitter EXCEPT ![s] = Configure(@, payload)]
             /\ sent' = [sent EXCEPT ![s] = Append(@, payload)]
    /\ layer' = [layer EXCEPT ![s] = StartSend(@)]
    /\ holding' = [holding EXCEPT ![s] = TRUE]
    /\ UNCHANGED <<receiver, delivered, lostFirst, arrived>>

\* The link layer of s writes the current segment and advances.
Transmitted(s) ==
    /\ holding[s]
    /\ transmitter' = [transmitter EXCEPT ![s] = TxAdvance(@)]
    /\ holding' = [holding EXCEPT ![s] = HasValue(TxAdvance(transmitter[s]))]
    /\ UNCHANGED <<layer, sent>>

\* The bytes that have arrived without a gap, after seg of source s.
Arrived(s, seg) ==
    LET before == IF seg.fir THEN [u \in Source |-> Broken] ELSE arrived
    IN  [before EXCEPT ![s] = IF seg.fir THEN seg.payload
                              ELSE IF @ = Broken THEN Broken ELSE @ \o seg.payload]

SegmentArrives(s) ==
    /\ Transmitted(s)
    /\ LET seg == GetSegment(transmitter[s])
           out == ProcessReceive(receiver, s, seg)
       IN  /\ receiver' = out.rx
           /\ delivered' = IF out.asdu = <<>> THEN delivered
                           ELSE Append(delivered, [source |-> s, asdu |-> out.asdu])
           /\ lostFirst' = IF seg.fir THEN [lostFirst EXCEPT ![s] = 0] ELSE lostFirst
           /\ arrived' = Arrived(s, seg)

SegmentLost(s) ==
    /\ Transmitted(s)
    /\ LET seg == GetSegment(transmitter[s])
       IN  /\ seg.fir => lostFirst[s] < MaxLostFirst
           /\ lostFirst' = IF seg.fir THEN [lostFirst EXCEPT ![s] = @ + 1] ELSE lostFirst
    /\ arrived' = [arrived EXCEPT ![s] = Broken]
    /\ UNCHANGED <<receiver, delivered>>

\* The link layer has reported the end of the send.
OnTxReady(s) ==
    /\ layer[s].isSending /\ ~holding[s]
    /\ layer' = [layer EXCEPT ![s] = LayerTxReady(@)]
    /\ UNCHANGED <<transmitter, holding, receiver, sent, delivered, lostFirst, arrived>>

\* The connection is lost and opened again: all layers go down and come up.
Reconnect ==
    /\ \E s \in Source : layer[s].isSending
    /\ layer' = [s \in Source |-> LayerUp(LayerDown(layer[s]))]
    /\ holding' = [s \in Source |-> FALSE]
    /\ receiver' = ClearRxBuffer(receiver)
    /\ arrived' = [s \in Source |-> Broken]
    /\ UNCHANGED <<transmitter, sent, delivered, lostFirst>>

Done ==
    /\ \A s \in Source : Len(sent[s]) = Quota[s] /\ ~layer[s].isSending
    /\ UNCHANGED vars

Next ==
    \/ \E s \in Source : BeginTransmit(s) \/ SegmentArrives(s) \/ SegmentLost(s) \/ OnTxReady(s)
    \/ Reconnect
    \/ Done

Spec == Init /\ [][Next]_vars

-------------------------------------------------------------------------------
\* Type invariant.  The receive buffer never exceeds its size.
TypeOK ==
    /\ layer \in [Source -> LayerType]
    /\ holding \in [Source -> BOOLEAN]
    /\ Len(receiver.buffer) <= MaxRxFragSize
    /\ receiver.expectedSeq \in 0..(SeqModulus - 1)
    /\ lostFirst \in [Source -> 0..MaxLostFirst]

\* The positions in sent[s] of the fragments that have been passed up.
DeliveredIndices(s) ==
    {i \in DOMAIN sent[s] : \E j \in DOMAIN delivered :
                              delivered[j] = [source |-> s, asdu |-> sent[s][i]]}
LastDelivered(s) ==
    CHOOSE i \in {0} \cup DeliveredIndices(s) : \A j \in DeliveredIndices(s) : j <= i

Channel == INSTANCE FragmentChannel WITH last <- [s \in Source |-> LastDelivered(s)]

\* The transport layer implements FragmentChannel: whatever segments are lost and
\* however sources interleave, only whole submitted fragments are passed up, in
\* order and at most once (TransportRx::ProcessReceive).
ImplementsChannel == Channel!Spec

\* No fragment is lost without cause: one whose segments all arrived, with no
\* other fragment started among them, and that fits the receive buffer has been
\* passed up, whatever the receiver held before.
CompleteIsDelivered ==
    \A s \in Source : \A i \in DOMAIN sent[s] :
        (arrived[s] = sent[s][i] /\ Len(sent[s][i]) <= MaxRxFragSize)
            => i \in DeliveredIndices(s)
===============================================================================
