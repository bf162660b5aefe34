------------------------------- MODULE Transport -------------------------------
(***************************************************************************)
(* The DNP3 transport layer of opendnp3: TransportLayer's two flags, the   *)
(* TransportTx that cuts a fragment into segments and the TransportRx that *)
(* joins them again, as operators on records.                              *)
(*                                                                         *)
(* The byte buffers are sequences of bytes.  TransportTx's cached segment  *)
(* (txSegment) is left out: GetSegment computes the same bytes again until *)
(* Advance or Configure clears the cache.                                  *)
(***************************************************************************)
EXTENDS Naturals, Sequences

CONSTANTS MaxTpduPayload,  \* MAX_TPDU_PAYLOAD (249)
          SeqModulus,      \* modulus of TransportSeqNum (64)
          MaxRxFragSize    \* size of TransportRx::rxBuffer

ASSUME TransportAssumption ==
    /\ MaxTpduPayload \in Nat \ {0}
    /\ SeqModulus \in Nat \ {0}
    /\ MaxRxFragSize \in Nat

\* Mutant of NextSeq: the number does not come round.
NextSeqNoWrap(seq) == seq + 1

\* SequenceNum::Increment
NextSeq(seq) == (seq + 1) % SeqModulus

-------------------------------------------------------------------------------
(* TransportLayer's own state: whether it is up and whether it is sending.  *)

LayerType == [isOnline : BOOLEAN, isSending : BOOLEAN]
LayerInit == [isOnline |-> FALSE, isSending |-> FALSE]

LayerUp(t) == [t EXCEPT !.isOnline = TRUE]

\* Mutant of LayerDown: a send that was under way is remembered.
LayerDownKeepsSending(t) == [t EXCEPT !.isOnline = FALSE]
LayerDown(t) == [t EXCEPT !.isOnline = FALSE, !.isSending = FALSE]

\* The conditions of TransportLayer::BeginTransmit on the layer.
AcceptsSend(t) == t.isOnline /\ ~t.isSending
StartSend(t) == [t EXCEPT !.isSending = TRUE]

\* TransportLayer::OnTxReady; a report is ignored while offline or not sending.
LayerTxReady(t) == IF t.isOnline THEN [t EXCEPT !.isSending = FALSE] ELSE t

-------------------------------------------------------------------------------
(* TransportTx.                                                             *)

TxInit == [payload |-> <<>>, tpduCount |-> 0, sequence |-> 0]

Configure(t, payload) == [t EXCEPT !.payload = payload, !.tpduCount = 0]

NumToSend(t) == IF Len(t.payload) < MaxTpduPayload THEN Len(t.payload) ELSE MaxTpduPayload

GetSegment(t) ==
    [fir |-> t.tpduCount = 0,
     fin |-> NumToSend(t) = Len(t.payload),
     seq |-> t.sequence,
     payload |-> SubSeq(t.payload, 1, NumToSend(t))]

TxAdvance(t) ==
    [payload |-> SubSeq(t.payload, NumToSend(t) + 1, Len(t.payload)),
     tpduCount |-> t.tpduCount + 1,
     sequence |-> NextSeq(t.sequence)]

\* What Advance returns: whether there is another segment.
HasValue(t) == t.payload # <<>>

\* The segments that GetSegment and Advance go through until there are no more.
NumSegments(len) == (len + MaxTpduPayload - 1) \div MaxTpduPayload
Segmentation(t) ==
    LET last == NumSegments(Len(t.payload))
        ahead[k \in 0..last] == IF k = 0 THEN t ELSE TxAdvance(ahead[k - 1])
    IN  [i \in 1..last |-> GetSegment(ahead[i - 1])]

-------------------------------------------------------------------------------
(* TransportRx.  buffer is the part of rxBuffer that numBytesRead covers.   *)

RxInit == [buffer |-> <<>>, expectedSeq |-> 0, lastSource |-> "none"]

ClearRxBuffer(r) == [r EXCEPT !.buffer = <<>>]

\* Mutant of Continues: the sequence number is not compared.
ContinuesAnySeq(r, source, seg) == r.buffer # <<>> /\ source = r.lastSource

\* The checks on a segment that is not the first of its fragment.
Continues(r, source, seg) ==
    /\ r.buffer # <<>>
    /\ seg.seq = r.expectedSeq
    /\ source = r.lastSource

\* Mutant of Fits: the receive buffer is never too small.
FitsAlways(r, seg) == TRUE

Fits(r, seg) == Len(r.buffer) + Len(seg.payload) <= MaxRxFragSize

\* Mutant of Discarding: a first segment is joined to what came before it.
DiscardingNothing(r, seg) == r

\* A first segment discards the unfinished fragment.
Discarding(r, seg) == IF seg.fir THEN ClearRxBuffer(r) ELSE r

\* The receiver after a segment, and the fragment it returns (<<>> for none).
ProcessReceive(r, source, seg) ==
    LET q == Discarding(r, seg)
        joined == q.buffer \o seg.payload
    IN  IF ~seg.fir /\ ~Continues(q, source, seg) THEN [rx |-> q, asdu |-> <<>>]
        ELSE IF ~Fits(q, seg) THEN [rx |-> ClearRxBuffer(q), asdu |-> <<>>]
        ELSE [rx |-> [buffer |-> IF seg.fin THEN <<>> ELSE joined,
                      expectedSeq |-> NextSeq(seg.seq), lastSource |-> source],
              asdu |-> IF seg.fin THEN joined ELSE <<>>]
===============================================================================
