-------------------------- MODULE TransportStackProofs --------------------------
(***************************************************************************)
(* Proofs about TransportStack, for every pair of link configurations,     *)
(* confirmed or not, all sizes of fragments, segments and receive buffer,  *)
(* and any number of fragments and of connections.                         *)
(*                                                                         *)
(* That each handler keeps a link context in order is taken from           *)
(* LinkLayerProofs.  Added here is what a handler does to the send that is *)
(* under way (Completes): nothing, or it lets the transmitter go and posts *)
(* one completion.  Agree relates that to the transport layer's flags.     *)
(*                                                                         *)
(* The last part is about the fragments, where both ends confirm.  The     *)
(* invariant FragInv adds to that:                                         *)
(*                                                                         *)
(*   Exchange     in each direction the primary station of an end and the  *)
(*                secondary station of the other keep in step              *)
(*                (LinkLayerProofs);                                       *)
(*   Carried      the receiver holds what the transmitter has sent of its  *)
(*                fragment, up to the segment whose acknowledgement is     *)
(*                awaited, or nothing it could join the next segment to;   *)
(*                and what has been passed up are earlier fragments.       *)
(*                                                                         *)
(* It holds but on a connection that came up with a completion of an       *)
(* earlier one still queued (late).  There only Told is kept, and the loss *)
(* of that connection brings FragInv back.                                 *)
(***************************************************************************)
EXTENDS TransportStack, LinkLayerProofs, FiniteSetTheorems, SequenceTheorems

-------------------------------------------------------------------------------
\* A set of natural numbers has a least member: initial segments of the natural
\* numbers are finite sets, and those are well founded under inclusion.
LEMMA Least ==
    ASSUME NEW T \in SUBSET Nat, T # {}
    PROVE  \E n \in T : \A m \in T : n <= m
<1> DEFINE I == {0..n : n \in T}
           R == StrictSubsetOrdering(Nat)
<1>1. IsWellFoundedOn(R, FiniteSubsetsOf(Nat))
  BY FS_StrictSubsetOrderingWellFounded
<1>2. ASSUME NEW n \in T PROVE 0..n \in FiniteSubsetsOf(Nat)
  <2>1. IsFiniteSet(0..n)
    BY FS_Interval
  <2> QED
    BY <2>1 DEF FiniteSubsetsOf
<1>3. I \subseteq FiniteSubsetsOf(Nat) /\ I # {}
  BY <1>2
<1> HIDE DEF R
<1>4. PICK x \in I : \A y \in I : <<y, x>> \notin R
  BY <1>1, <1>3, WFMin
<1>5. PICK n \in T : x = 0..n
  BY <1>4
<1>6. ASSUME NEW m \in T, m < n PROVE FALSE
  <2>1. 0..m \subseteq 0..n /\ 0..m # 0..n
    <3>1. m \in Nat /\ n \in Nat
      OBVIOUS
    <3>2. n \in 0..n /\ n \notin 0..m
      BY <1>6, <3>1
    <3>3. 0..m \subseteq 0..n
      BY <1>6, <3>1
    <3> QED
      BY <3>2, <3>3
  <2>2. <<0..m, 0..n>> \in R
    BY <2>1 DEF R, StrictSubsetOrdering
  <2> QED
    BY <1>4, <1>5, <2>2
<1> QED
  BY <1>5, <1>6

\* Induction, about a set instead of a predicate.
LEMMA Induction ==
    ASSUME NEW S, 0 \in S, \A n \in Nat : n \in S => n + 1 \in S
    PROVE  Nat \subseteq S
<1> DEFINE T == Nat \ S
<1>1. SUFFICES ASSUME T # {} PROVE FALSE
  OBVIOUS
<1>2. PICK n \in T : \A m \in T : n <= m
  BY <1>1, Least
<1>3. n \in Nat /\ n # 0
  BY <1>2
<1>4. n - 1 \in Nat /\ n - 1 \in S
  BY <1>2, <1>3
<1> QED
  BY <1>2, <1>3, <1>4

-------------------------------------------------------------------------------
\* TransportTx.

LEMMA SeqFacts ==
    ASSUME NEW n \in 0..(SeqModulus - 1)
    PROVE  NextSeq(n) \in 0..(SeqModulus - 1)
BY TransportAssumption DEF NextSeq

LEMMA TpduFacts ==
    ASSUME NEW t \in TxType
    PROVE  GetSegment(t) \in Segment /\ TxAdvance(t) \in TxType
<1> DEFINE p == t.payload
           k == NumToSend(t)
           a == SubSeq(p, 1, k)
           b == SubSeq(p, k + 1, Len(p))
<1>1. p \in Seq(Byte) /\ Len(p) \in Nat
  BY DEF TxType
<1>2. k \in 0..Len(p) /\ k \in 0..MaxTpduPayload
  BY <1>1, TransportAssumption DEF NumToSend
<1>3. /\ GetSegment(t) = [fir |-> t.tpduCount = 0, fin |-> k = Len(p),
                          seq |-> t.sequence, payload |-> a]
      /\ TxAdvance(t) = [payload |-> b, tpduCount |-> t.tpduCount + 1,
                         sequence |-> NextSeq(t.sequence)]
  BY DEF TxAdvance, GetSegment
<1> HIDE DEF p, k
<1>4. a \in Seq(Byte) /\ Len(a) = k /\ b \in Seq(Byte)
  BY <1>1, <1>2
<1>5. a \in [1..k -> Byte]
  BY <1>4, LenProperties
<1>6. a \in UNION {[1..i -> Byte] : i \in 0..MaxTpduPayload}
  BY <1>2, <1>5
<1>7. /\ NextSeq(t.sequence) \in 0..(SeqModulus - 1) /\ t.sequence \in 0..(SeqModulus - 1)
      /\ t.tpduCount + 1 \in Nat
  BY SeqFacts DEF TxType
<1> HIDE DEF a, b
<1>8. GetSegment(t) \in Tpdu
  BY <1>3, <1>6, <1>7 DEF Tpdu
<1>9. TxAdvance(t) \in TxType
  BY <1>3, <1>4, <1>7 DEF TxType
<1> QED
  BY <1>8, <1>9, SegmentsAreTpdus

LEMMA NumSegmentsFacts ==
    ASSUME NEW len \in Nat \ {0}
    PROVE  NumSegments(len) \in Nat \ {0}
<1> DEFINE P == MaxTpduPayload
           N == (len + P - 1) \div P
<1>1. P \in Nat /\ P > 0
  BY TransportAssumption
<1> HIDE DEF P
<1>2. N \in Nat /\ len + P - 1 < N * P + P
  BY <1>1
<1> HIDE DEF N
<1>3. N # 0
  BY <1>1, <1>2
<1> QED
  BY <1>2, <1>3 DEF N, P, NumSegments

\* The segments of a fragment: the transmitter as it will be after each Advance
\* exists, and is a transmitter.
Unrolls(g, t, last) == g = [k \in 0..last |-> IF k = 0 THEN t ELSE TxAdvance(g[k - 1])]

LEMMA Unrolling ==
    ASSUME NEW t, NEW last \in Nat
    PROVE  \E g : Unrolls(g, t, last)
<1> DEFINE S == {n \in Nat : \E g : Unrolls(g, t, n)}
<1>1. 0 \in S
  <2> DEFINE g == [k \in 0..0 |-> t]
  <2>1. Unrolls(g, t, 0)
    BY DEF Unrolls
  <2> QED
    BY <2>1
<1>2. ASSUME NEW n \in Nat, n \in S PROVE n + 1 \in S
  <2>1. PICK g : Unrolls(g, t, n)
    BY <1>2
  <2> DEFINE h == [k \in 0..(n + 1) |-> IF k = n + 1 THEN TxAdvance(g[n]) ELSE g[k]]
  <2>2. \A k \in 0..n : h[k] = g[k]
    OBVIOUS
  <2>3. ASSUME NEW k \in 0..(n + 1)
        PROVE  h[k] = IF k = 0 THEN t ELSE TxAdvance(h[k - 1])
    <3>1. CASE k = n + 1
      BY <2>2, <3>1
    <3>2. CASE k # n + 1
      <4>1. k \in 0..n /\ h[k] = g[k]
        BY <3>2
      <4>2. g[k] = IF k = 0 THEN t ELSE TxAdvance(g[k - 1])
        BY <2>1, <4>1 DEF Unrolls
      <4>3. k # 0 => h[k - 1] = g[k - 1]
        BY <2>2, <4>1
      <4> HIDE DEF h
      <4> QED
        BY <4>1, <4>2, <4>3
    <3> QED
      BY <3>1, <3>2
  <2>4. h = [k \in 0..(n + 1) |-> h[k]]
    OBVIOUS
  <2> HIDE DEF h
  <2>5. Unrolls(h, t, n + 1)
    BY <2>3, <2>4 DEF Unrolls
  <2> QED
    BY <2>5
<1> HIDE DEF S
<1>3. Nat \subseteq S
  BY <1>1, <1>2, Induction
<1> QED
  BY <1>3 DEF S

LEMMA UnrolledType ==
    ASSUME NEW t \in TxType, NEW last \in Nat, NEW g, Unrolls(g, t, last)
    PROVE  \A k \in 0..last : g[k] \in TxType
<1> DEFINE S == {n \in Nat : n <= last => g[n] \in TxType}
<1>1. 0 \in S
  BY DEF Unrolls
<1>2. ASSUME NEW n \in Nat, n \in S PROVE n + 1 \in S
  <2> SUFFICES ASSUME n + 1 <= last PROVE g[n + 1] \in TxType
    OBVIOUS
  <2>1. g[n] \in TxType
    BY <1>2
  <2>2. g[n + 1] = TxAdvance(g[n])
    BY DEF Unrolls
  <2> QED
    BY <2>1, <2>2, TpduFacts
<1> HIDE DEF S
<1>3. Nat \subseteq S
  BY <1>1, <1>2, Induction
<1> QED
  BY <1>3 DEF S

LEMMA SegmentationFacts ==
    ASSUME NEW t \in TxType, t.payload # <<>>
    PROVE  Segmentation(t) \in Seq(Segment) \ {<<>>}
<1> DEFINE last == NumSegments(Len(t.payload))
           g == CHOOSE ahead : Unrolls(ahead, t, last)
           segs == [i \in 1..last |-> GetSegment(g[i - 1])]
<1>1. Segmentation(t) = segs
  BY DEF Segmentation, Unrolls
<1>2. last \in Nat \ {0}
  <2>1. Len(t.payload) \in Nat \ {0}
    BY DEF TxType
  <2> QED
    BY <2>1, NumSegmentsFacts
<1> HIDE DEF last
<1>3. Unrolls(g, t, last)
  BY <1>2, Unrolling
<1> HIDE DEF g
<1>4. \A i \in 1..last : GetSegment(g[i - 1]) \in Segment
  BY <1>2, <1>3, UnrolledType, TpduFacts
<1>5. segs \in Seq(Segment) /\ Len(segs) = last
  BY <1>2, <1>4, IsASeq, LenProperties
<1>6. segs # <<>>
  BY <1>2, <1>5
<1> QED
  BY <1>1, <1>5, <1>6


-------------------------------------------------------------------------------
\* TransportRx and the transport layer's flags.

LEMMA TpduType ==
    ASSUME NEW seg \in Segment
    PROVE  /\ seg.payload \in Seq(Byte) /\ seg.seq \in 0..(SeqModulus - 1)
           /\ seg.fir \in BOOLEAN /\ seg.fin \in BOOLEAN
<1>1. seg \in Tpdu
  BY SegmentsAreTpdus
<1>2. seg.payload \in UNION {[1..i -> Byte] : i \in 0..MaxTpduPayload}
      /\ seg.seq \in 0..(SeqModulus - 1) /\ seg.fir \in BOOLEAN /\ seg.fin \in BOOLEAN
  BY <1>1 DEF Tpdu
<1>3. PICK i \in 0..MaxTpduPayload : seg.payload \in [1..i -> Byte]
  BY <1>2
<1>4. i \in Nat
  BY <1>3, TransportAssumption
<1> QED
  BY <1>2, <1>3, <1>4

LEMMA ProcessReceiveType ==
    ASSUME NEW r \in RxType, NEW s \in Address, NEW seg \in Segment,
           NEW out, out = ProcessReceive(r, s, seg)
    PROVE  out.rx \in RxType /\ out.asdu \in Seq(Byte)
<1> DEFINE q == Discarding(r, seg)
           j == q.buffer \o seg.payload
           none == <<>>
           x == [buffer |-> IF seg.fin THEN none ELSE j,
                 expectedSeq |-> NextSeq(seg.seq), lastSource |-> s]
           y == IF seg.fin THEN j ELSE none
<1>1. none \in Seq(Byte)
  OBVIOUS
<1>2. q \in RxType /\ ClearRxBuffer(q) \in RxType
  BY <1>1 DEF Discarding, ClearRxBuffer, RxType
<1>3. seg.payload \in Seq(Byte) /\ seg.seq \in 0..(SeqModulus - 1)
  BY TpduType
<1>4. \/ out = [rx |-> q, asdu |-> none]
      \/ out = [rx |-> ClearRxBuffer(q), asdu |-> none]
      \/ out = [rx |-> x, asdu |-> y]
  BY Zenon DEF ProcessReceive
<1> HIDE DEF q, none
<1>5. j \in Seq(Byte)
  <2>1. q.buffer \in Seq(Byte)
    BY <1>2 DEF RxType
  <2> QED
    BY <1>3, <2>1
<1> HIDE DEF j
<1>6. x \in RxType /\ y \in Seq(Byte)
  BY <1>1, <1>3, <1>5, SeqFacts DEF RxType
<1> HIDE DEF x, y
<1> QED
  BY <1>1, <1>2, <1>4, <1>6

LEMMA LayerFacts ==
    ASSUME NEW t \in LayerType
    PROVE  /\ LayerUp(t) \in LayerType /\ LayerUp(t).isOnline
           /\ LayerUp(t).isSending = t.isSending
           /\ LayerDown(t) \in LayerType /\ ~LayerDown(t).isOnline /\ ~LayerDown(t).isSending
           /\ StartSend(t) \in LayerType /\ StartSend(t).isOnline = t.isOnline
           /\ StartSend(t).isSending
           /\ LayerTxReady(t) \in LayerType /\ LayerTxReady(t).isOnline = t.isOnline
           /\ LayerTxReady(t).isSending = (t.isSending /\ ~t.isOnline)
BY DEF LayerType, LayerUp, LayerDown, StartSend, LayerTxReady

LEMMA FragmentFacts ==
    ASSUME NEW n \in 1..MaxFragments, NEW len \in Lengths, NEW t \in TxType,
           NEW f, f = Bytes(n, len)
    PROVE  /\ f \in Seq(Byte)
           /\ Configure(t, f) \in TxType /\ Configure(t, f).payload # <<>>
<1>1. len \in Nat \ {0}
  BY LengthsAssumption
<1>2. \A i \in 1..len : <<n, i>> \in Byte
  <2>1. ASSUME NEW i \in 1..len PROVE i \in UNION {1..l : l \in Lengths}
    OBVIOUS
  <2> QED
    BY <2>1 DEF Byte
<1>3. f = [i \in 1..len |-> <<n, i>>]
  BY DEF Bytes
<1>4. f \in Seq(Byte) /\ Len(f) = len
  BY <1>1, <1>2, <1>3, IsASeq, LenProperties
<1>5. f # <<>>
  BY <1>1, <1>4
<1>6. Configure(t, f) \in TxType /\ Configure(t, f).payload = f
  BY <1>4 DEF Configure, TxType
<1> QED
  BY <1>4, <1>5, <1>6


-------------------------------------------------------------------------------
\* The send under way at a link layer: what it still has to transmit and the
\* completions it has posted.  Most operators leave both alone.
HasJob(c) == "pSegments" \in DOMAIN c /\ "posted" \in DOMAIN c /\ "config" \in DOMAIN c
SameJob(c, r) ==
    HasJob(r) /\ r.pSegments = c.pSegments /\ r.posted = c.posted /\ r.config = c.config

LEMMA ContextHasJob ==
    ASSUME NEW c \in LinkContextType
    PROVE  HasJob(c) /\ c.posted \in Nat
BY DEF LinkContextType, HasJob

LEMMA SameJobTransitive ==
    ASSUME NEW c, NEW d, NEW e, SameJob(c, d), SameJob(d, e)
    PROVE  SameJob(c, e)
BY DEF SameJob

LEMMA QueueTransmitJob ==
    ASSUME NEW c, HasJob(c), NEW f, NEW p
    PROVE  SameJob(c, QueueTransmit(c, f, p))
BY DEF QueueTransmit, BeginTransmit, HasJob, SameJob

LEMMA TryPendingTxJob ==
    ASSUME NEW c, HasJob(c), NEW p
    PROVE  SameJob(c, TryPendingTx(c, p))
BY DEF TryPendingTx, BeginTransmit, HasJob, SameJob

LEMMA FieldJob ==
    ASSUME NEW c, HasJob(c), NEW x, NEW y
    PROVE  /\ SameJob(c, EnterPri(c, x)) /\ SameJob(c, EnterSec(c, x))
           /\ SameJob(c, OnStateChange(c, x)) /\ SameJob(c, CancelTimer(c))
           /\ SameJob(c, StartResponseTimer(c)) /\ SameJob(c, ResetRetry(c))
           /\ SameJob(c, Retry(c))
           /\ SameJob(c, [c EXCEPT !.keepAliveTimeout = x])
           /\ SameJob(c, [c EXCEPT !.nextReadFCB = x])
           /\ SameJob(c, [c EXCEPT !.nextWriteFCB = x])
           /\ SameJob(c, [c EXCEPT !.isRemoteReset = x, !.nextWriteFCB = y])
           /\ SameJob(c, [c EXCEPT !.txMode = x])
           /\ SameJob(c, [c EXCEPT !.tx = x])
           /\ SameJob(c, [c EXCEPT !.up = x])
           /\ SameJob(c, [c EXCEPT !.rspTimeoutTimer = x])
BY DEF EnterPri, EnterSec, OnStateChange, CancelTimer, StartResponseTimer, ResetRetry, Retry,
       HasJob, SameJob


LEMMA EnterJob ==
    ASSUME NEW c, NEW d, SameJob(c, d), NEW x
    PROVE  SameJob(c, EnterPri(d, x)) /\ SameJob(c, EnterSec(d, x))
BY DEF EnterPri, EnterSec, HasJob, SameJob

LEMMA QueueJob ==
    ASSUME NEW c, HasJob(c), NEW dest
    PROVE  /\ SameJob(c, QueueAck(c, dest)) /\ SameJob(c, QueueLinkStatus(c, dest))
           /\ SameJob(c, QueueResetLinks(c, dest))
           /\ SameJob(c, QueueRequestLinkStatus(c, dest))
           /\ SameJob(c, QueueConfirmed(c)) /\ SameJob(c, QueueUnconfirmed(c))
BY QueueTransmitJob
   DEF QueueAck, QueueLinkStatus, QueueResetLinks, QueueRequestLinkStatus,
       QueueConfirmed, QueueUnconfirmed

LEMMA TryStartJob ==
    ASSUME NEW c, HasJob(c), NEW r, r = TryStartTransmission(c)
    PROVE  SameJob(c, r)
<1>1. ASSUME NEW d, HasJob(d), NEW e, e \in {TrySendUnconfirmed(d), TrySendConfirmed(d),
                                             TrySendRequestLinkStatus(d)}
      PROVE  SameJob(d, e)
  <2>0. SameJob(d, d)
    BY <1>1 DEF SameJob
  <2>1. CASE e = TrySendUnconfirmed(d)
    <3>1. SameJob(d, QueueUnconfirmed(d))
      BY <1>1, QueueJob
    <3>2. SameJob(d, EnterPri(QueueUnconfirmed(d), "SendUnconfirmedTransmitWait"))
      BY <3>1, EnterJob
    <3> QED
      BY <2>0, <2>1, <3>2 DEF TrySendUnconfirmed
  <2>2. CASE e = TrySendConfirmed(d)
    <3> DEFINE k == ResetRetry(d)
               dest == d.pSegments.destination
    <3>1. SameJob(d, k)
      BY <1>1, FieldJob
    <3>2. e \in {d, EnterPri(QueueConfirmed(k), "ConfUserDataTransmitWait"),
                 EnterPri(QueueResetLinks(k, dest), "LinkResetTransmitWait")}
      BY <2>2 DEF TrySendConfirmed
    <3> HIDE DEF k, dest
    <3>3. SameJob(d, QueueConfirmed(k)) /\ SameJob(d, QueueResetLinks(k, dest))
      BY <3>1, QueueJob, SameJobTransitive DEF SameJob
    <3>4. /\ SameJob(d, EnterPri(QueueConfirmed(k), "ConfUserDataTransmitWait"))
          /\ SameJob(d, EnterPri(QueueResetLinks(k, dest), "LinkResetTransmitWait"))
      BY <3>3, EnterJob
    <3> QED
      BY <2>0, <3>2, <3>4
  <2>3. CASE e = TrySendRequestLinkStatus(d)
    <3> DEFINE k == [d EXCEPT !.keepAliveTimeout = FALSE]
               dest == d.config.RemoteAddr
    <3>1. SameJob(d, k)
      BY <1>1, FieldJob
    <3>2. e \in {d, EnterPri(QueueRequestLinkStatus(k, dest), "RequestLinkStatusTransmitWait")}
      BY <2>3 DEF TrySendRequestLinkStatus
    <3> HIDE DEF k, dest
    <3>3. SameJob(d, QueueRequestLinkStatus(k, dest))
      BY <3>1, QueueJob, SameJobTransitive DEF SameJob
    <3>4. SameJob(d, EnterPri(QueueRequestLinkStatus(k, dest), "RequestLinkStatusTransmitWait"))
      BY <3>3, EnterJob
    <3> QED
      BY <2>0, <3>2, <3>4
  <2> QED
    BY <1>1, <2>1, <2>2, <2>3
<1> DEFINE d == IF c.keepAliveTimeout THEN TrySendRequestLinkStatus(c) ELSE c
<1>2. SameJob(c, d)
  BY <1>1 DEF SameJob
<1>3. r \in {d, TrySendConfirmed(d), TrySendUnconfirmed(d)}
  BY DEF TryStartTransmission
<1> HIDE DEF d
<1>4. HasJob(d)
  BY <1>2 DEF SameJob
<1> QED
  BY <1>1, <1>2, <1>3, <1>4, SameJobTransitive


-------------------------------------------------------------------------------
\* What a handler does to the send under way: nothing but going on with it, or
\* it lets the transmitter go and posts one completion.
Completes(c, r) ==
    /\ HasJob(r) /\ r.config = c.config
    /\ \/ r.posted = c.posted /\ (HasSegments(r) <=> HasSegments(c))
       \/ HasSegments(c) /\ ~HasSegments(r) /\ r.posted = c.posted + 1

LEMMA SameJobCompletes ==
    ASSUME NEW c, NEW d, NEW e, SameJob(c, d)
    PROVE  Completes(c, d) /\ (Completes(d, e) => Completes(c, e))
BY DEF SameJob, Completes, HasSegments

LEMMA CompletesThen ==
    ASSUME NEW c, NEW d, NEW e, Completes(c, d), SameJob(d, e)
    PROVE  Completes(c, e)
BY DEF SameJob, Completes, HasSegments

LEMMA CompleteSendJob ==
    ASSUME NEW c, HasJob(c), HasSegments(c), NEW r, r = CompleteSendOperation(c)
    PROVE  Completes(c, r)
<1>1. /\ HasJob(r) /\ r.pSegments = NoSegments /\ r.posted = c.posted + 1
      /\ r.config = c.config
  BY DEF CompleteSendOperation, HasJob
<1> QED
  BY <1>1 DEF Completes, HasSegments

LEMMA AdvanceJob ==
    ASSUME NEW c \in LinkContextType, HasSegments(c), MoreSegments(c),
           NEW r, r = Advance(c)
    PROVE  Completes(c, r)
<1>1. HasSegments(r)
  BY AdvanceFacts
<1>2. HasJob(r) /\ r.posted = c.posted /\ r.config = c.config
  BY ContextHasJob DEF Advance, HasJob
<1> QED
  BY <1>1, <1>2 DEF Completes

\* CompleteSendOperation or Advance, after fields that do not matter here were
\* written and before others are.
LEMMA EndOfSegment ==
    ASSUME NEW c, NEW d \in LinkContextType, SameJob(c, d), HasSegments(d), NEW state, NEW e,
           \/ e = EnterPri(CompleteSendOperation(d), "Idle")
           \/ MoreSegments(d) /\ e = EnterPri(QueueConfirmed(Advance(d)), state)
           \/ MoreSegments(d) /\ e = QueueUnconfirmed(Advance(d))
    PROVE  Completes(c, e)
<1>0. HasJob(d)
  BY DEF SameJob
<1>1. CASE e = EnterPri(CompleteSendOperation(d), "Idle")
  <2> DEFINE x == CompleteSendOperation(d)
  <2>1. Completes(d, x)
    BY <1>0, CompleteSendJob
  <2>2. SameJob(x, x) /\ e = EnterPri(x, "Idle")
    BY <1>1, <2>1 DEF Completes, SameJob
  <2> HIDE DEF x
  <2> QED
    BY <2>1, <2>2, EnterJob, CompletesThen, SameJobCompletes
<1>2. CASE MoreSegments(d) /\ e = EnterPri(QueueConfirmed(Advance(d)), state)
  <2> DEFINE x == Advance(d)
  <2>1. Completes(d, x)
    BY <1>2, AdvanceJob
  <2>2. e = EnterPri(QueueConfirmed(x), state)
    BY <1>2
  <2> HIDE DEF x
  <2>3. SameJob(x, QueueConfirmed(x))
    BY <2>1, QueueJob DEF Completes
  <2> QED
    BY <2>1, <2>2, <2>3, EnterJob, CompletesThen, SameJobCompletes
<1>3. CASE MoreSegments(d) /\ e = QueueUnconfirmed(Advance(d))
  <2> DEFINE x == Advance(d)
  <2>1. Completes(d, x)
    BY <1>3, AdvanceJob
  <2>2. e = QueueUnconfirmed(x)
    BY <1>3
  <2> HIDE DEF x
  <2>3. SameJob(x, QueueUnconfirmed(x))
    BY <2>1, QueueJob DEF Completes
  <2> QED
    BY <2>1, <2>2, <2>3, CompletesThen, SameJobCompletes
<1> QED
  BY <1>1, <1>2, <1>3

LEMMA Reflexive ==
    ASSUME NEW c, HasJob(c)
    PROVE  SameJob(c, c) /\ Completes(c, c)
BY DEF SameJob, Completes

\* The events of the primary station.
LEMMA TxReadyJob ==
    ASSUME NEW c \in LinkContextType, Segs(c), NEW r, r = PriOnTxReady(c)
    PROVE  Completes(c, r)
<1>0. HasJob(c) /\ SameJob(c, c)
  BY ContextHasJob, Reflexive
<1>1. CASE c.pPriState = "SendUnconfirmedTransmitWait"
  <2>1. HasSegments(c)
    BY <1>1 DEF Segs, DataState, PriState, PriTransmitWait
  <2>2. \/ r = EnterPri(CompleteSendOperation(c), "Idle")
        \/ MoreSegments(c) /\ r = QueueUnconfirmed(Advance(c))
    BY <1>1 DEF PriOnTxReady
  <2> QED
    BY <1>0, <2>1, <2>2, EndOfSegment
<1>2. CASE c.pPriState # "SendUnconfirmedTransmitWait"
  <2>1. SameJob(c, StartResponseTimer(c))
    BY <1>0, FieldJob
  <2>2. r = c \/ \E s : r = EnterPri(StartResponseTimer(c), s)
    BY <1>2, Zenon DEF PriOnTxReady
  <2> QED
    BY <1>0, <2>1, <2>2, EnterJob, SameJobCompletes
<1> QED
  BY <1>1, <1>2


LEMMA FailureJob ==
    ASSUME NEW c, NEW d \in LinkContextType, SameJob(c, d), HasSegments(d),
           NEW r, r = Failure(d)
    PROVE  Completes(c, r)
<1> DEFINE x == CancelTimer(d)
<1>1. x \in LinkContextType
  BY CancelTimerFacts
<1>2. SameJob(d, x) /\ r = EnterPri(CompleteSendOperation(x), "Idle")
  BY FieldJob DEF SameJob, Failure
<1> HIDE DEF x
<1>3. SameJob(c, x) /\ HasSegments(x)
  BY <1>2, SameJobTransitive DEF SameJob, HasSegments
<1> QED
  BY <1>1, <1>2, <1>3, EndOfSegment

LEMMA AckJob ==
    ASSUME NEW c \in LinkContextType, Segs(c), NEW r, r = PriOnAck(c)
    PROVE  Completes(c, r)
<1>0. HasJob(c) /\ SameJob(c, c)
  BY ContextHasJob, Reflexive
<1>1. CASE c.pPriState = "ResetLinkWait"
  <2> DEFINE a == [c EXCEPT !.isRemoteReset = TRUE, !.nextWriteFCB = TRUE]
             d == CancelTimer(a)
             q == QueueConfirmed(d)
             x == OnStateChange(q, "RESET")
  <2>1. SameJob(c, a)
    BY <1>0, FieldJob
  <2>2. SameJob(a, d)
    BY <2>1, FieldJob DEF SameJob
  <2>3. r = EnterPri(x, "ConfUserDataTransmitWait")
    BY <1>1 DEF PriOnAck, ResetLinkWaitOnAck
  <2> HIDE DEF a, d
  <2>4. SameJob(d, q)
    BY <2>2, QueueJob DEF SameJob
  <2> HIDE DEF q
  <2>5. SameJob(q, x)
    <3>1. HasJob(q)
      BY <2>4 DEF SameJob
    <3> QED
      BY <3>1, FieldJob
  <2> HIDE DEF x
  <2>6. SameJob(c, x)
    BY <2>1, <2>2, <2>4, <2>5, SameJobTransitive
  <2> QED
    BY <2>3, <2>6, EnterJob, SameJobCompletes
<1>2. CASE c.pPriState = "ConfDataWait"
  <2> DEFINE b == ~c.nextWriteFCB
             a == [c EXCEPT !.nextWriteFCB = b]
             d == CancelTimer(a)
  <2>1. SameJob(c, a) /\ a \in LinkContextType
    BY <1>0, FieldJob DEF LinkContextType
  <2>2. \/ r = EnterPri(CompleteSendOperation(d), "Idle")
        \/ MoreSegments(d) /\ r = EnterPri(QueueConfirmed(Advance(d)), "ConfUserDataTransmitWait")
    BY <1>2, Zenon DEF PriOnAck, ConfDataWaitOnAck
  <2> HIDE DEF a
  <2>3. SameJob(a, d) /\ d \in LinkContextType
    BY <2>1, FieldJob, CancelTimerFacts DEF SameJob
  <2>4. HasSegments(c)
    BY <1>2 DEF Segs, DataState, PriState, PriResponseWait
  <2> HIDE DEF d
  <2>5. SameJob(c, d) /\ HasSegments(d)
    BY <2>1, <2>3, <2>4, SameJobTransitive DEF SameJob, HasSegments
  <2> QED
    BY <2>2, <2>3, <2>5, EndOfSegment
<1>3. CASE c.pPriState \notin {"ResetLinkWait", "ConfDataWait"}
  <2>1. r = c
    BY <1>3 DEF PriOnAck
  <2> QED
    BY <1>0, <2>1, Reflexive
<1> QED
  BY <1>1, <1>2, <1>3

LEMMA NackJob ==
    ASSUME NEW c \in LinkContextType, Segs(c), NEW full,
           NEW r, r \in {PriOnNack(c, full), PriOnStatus(c)}
    PROVE  Completes(c, r)
<1>0. HasJob(c) /\ SameJob(c, c)
  BY ContextHasJob, Reflexive
<1>1. c.pPriState \in {"ResetLinkWait", "ConfDataWait"} => HasSegments(c)
  BY DEF Segs, DataState, PriState, PriResponseWait
<1> DEFINE d == OnStateChange(c, "UNRESET")
<1>2. SameJob(c, d) /\ d \in LinkContextType
  BY <1>0, FieldJob, OnStateChangeFacts
<1>3. HasSegments(d) <=> HasSegments(c)
  BY <1>2 DEF SameJob, HasSegments
<1> DEFINE e == ResetRetry(d)
           f == CancelTimer(e)
           dest == d.pSegments.destination
<1>4. \/ r = c
      \/ c.pPriState \in {"ResetLinkWait", "ConfDataWait"} /\ r \in {Failure(c), Failure(d)}
      \/ r = EnterPri(QueueResetLinks(f, dest), "LinkResetTransmitWait")
      \/ r = EnterPri(CancelTimer(c), "Idle")
  BY Zenon DEF PriOnNack, PriOnStatus, ConfDataWaitOnNack, RequestLinkStatusWaitDone
<1> HIDE DEF d, dest
<1>5. SameJob(d, e)
  BY <1>2, FieldJob DEF SameJob
<1> HIDE DEF e
<1>6. SameJob(e, f)
  BY <1>5, FieldJob DEF SameJob
<1> HIDE DEF f
<1>7. SameJob(f, QueueResetLinks(f, dest))
  BY <1>6, QueueJob DEF SameJob
<1>8. SameJob(c, QueueResetLinks(f, dest))
  BY <1>2, <1>5, <1>6, <1>7, SameJobTransitive
<1>9. SameJob(c, CancelTimer(c))
  BY <1>0, FieldJob
<1>10. CASE r = c
  BY <1>0, <1>10, Reflexive
<1>11. CASE c.pPriState \in {"ResetLinkWait", "ConfDataWait"} /\ r \in {Failure(c), Failure(d)}
  BY <1>0, <1>1, <1>2, <1>3, <1>11, FailureJob
<1>12. CASE r = EnterPri(QueueResetLinks(f, dest), "LinkResetTransmitWait")
  BY <1>8, <1>12, EnterJob, SameJobCompletes
<1>13. CASE r = EnterPri(CancelTimer(c), "Idle")
  BY <1>9, <1>13, EnterJob, SameJobCompletes
<1> QED
  BY <1>4, <1>10, <1>11, <1>12, <1>13


LEMMA TimeoutJob ==
    ASSUME NEW c \in LinkContextType, Segs(c), NEW r, r = PriOnTimeout(c)
    PROVE  Completes(c, r)
<1>0. HasJob(c) /\ SameJob(c, c)
  BY ContextHasJob, Reflexive
<1>1. c.pPriState \in {"ResetLinkWait", "ConfDataWait"} => HasSegments(c)
  BY DEF Segs, DataState, PriState, PriResponseWait
<1> DEFINE d == OnStateChange(c, "UNRESET")
           e == Retry(c)
           dest == c.config.RemoteAddr
<1>2. SameJob(c, d) /\ d \in LinkContextType /\ SameJob(c, e)
  BY <1>0, FieldJob, OnStateChangeFacts
<1>3. HasSegments(d) <=> HasSegments(c)
  BY <1>2 DEF SameJob, HasSegments
<1>4. \/ r \in {c, EnterPri(c, "Idle")}
      \/ /\ c.pPriState \in {"ResetLinkWait", "ConfDataWait"}
         /\ \/ r = EnterPri(CompleteSendOperation(c), "Idle")
            \/ r = EnterPri(CompleteSendOperation(d), "Idle")
      \/ r = EnterPri(QueueResetLinks(e, dest), "LinkResetTransmitWait")
      \/ r = EnterPri(QueueConfirmed(e), "ConfUserDataTransmitWait")
  BY Zenon DEF PriOnTimeout
<1> HIDE DEF d, e, dest
<1>5. SameJob(e, QueueResetLinks(e, dest)) /\ SameJob(e, QueueConfirmed(e))
  BY <1>2, QueueJob DEF SameJob
<1>6. SameJob(c, QueueResetLinks(e, dest)) /\ SameJob(c, QueueConfirmed(e))
  BY <1>2, <1>5, SameJobTransitive
<1>7. CASE r \in {c, EnterPri(c, "Idle")}
  BY <1>0, <1>7, Reflexive, EnterJob, SameJobCompletes
<1>8. CASE /\ c.pPriState \in {"ResetLinkWait", "ConfDataWait"}
           /\ \/ r = EnterPri(CompleteSendOperation(c), "Idle")
              \/ r = EnterPri(CompleteSendOperation(d), "Idle")
  BY <1>0, <1>1, <1>2, <1>3, <1>8, EndOfSegment
<1>9. CASE \/ r = EnterPri(QueueResetLinks(e, dest), "LinkResetTransmitWait")
           \/ r = EnterPri(QueueConfirmed(e), "ConfUserDataTransmitWait")
  BY <1>6, <1>9, EnterJob, SameJobCompletes
<1> QED
  BY <1>4, <1>7, <1>8, <1>9

\* The secondary station leaves the send under way alone, as long as the upper
\* layer does not send from within OnReceive.
LEMMA SecondaryJob ==
    ASSUME NEW c, HasJob(c), NEW src, NEW fcb, NEW data,
           NEW r, r \in {OnResetLinkStates(c, src), OnRequestLinkStatus(c, src),
                         OnTestLinkStatus(c, src, fcb),
                         OnConfirmedUserData(c, src, fcb, data, NoSegments),
                         PushDataUp(c, data, NoSegments), SecOnTxReady(c)}
    PROVE  SameJob(c, r)
<1> DEFINE a == QueueAck(c, src)
           s == QueueLinkStatus(c, src)
<1>0. SameJob(c, c)
  BY Reflexive
<1>1. SameJob(c, a) /\ SameJob(c, s)
  BY QueueJob
<1>2. ASSUME NEW d, SameJob(c, d), NEW x
      PROVE  SameJob(c, [d EXCEPT !.nextReadFCB = x]) /\ SameJob(c, [d EXCEPT !.up = x])
  BY <1>2 DEF SameJob, HasJob
<1>3. ASSUME NEW d, SameJob(c, d) PROVE SameJob(c, PushDataUp(d, data, NoSegments))
  BY <1>2, <1>3 DEF PushDataUp, Reply
<1>4. CASE r = OnResetLinkStates(c, src)
  <2> DEFINE x == [a EXCEPT !.nextReadFCB = TRUE]
  <2>1. r = c \/ r = EnterSec(x, "TransmitWaitReset")
    BY <1>4 DEF OnResetLinkStates
  <2>2. SameJob(c, x)
    BY <1>1, <1>2
  <2> HIDE DEF x
  <2> QED
    BY <1>0, <2>1, <2>2, EnterJob
<1>5. CASE r = OnRequestLinkStatus(c, src)
  <2>1. r = c \/ \E p : r = EnterSec(s, p)
    BY <1>5, Zenon DEF OnRequestLinkStatus
  <2> HIDE DEF s
  <2> QED
    BY <1>0, <1>1, <2>1, EnterJob
<1>6. CASE r = OnTestLinkStatus(c, src, fcb)
  <2> DEFINE b == ~a.nextReadFCB
             x == [a EXCEPT !.nextReadFCB = b]
  <2>1. r = c \/ r = EnterSec(x, "TransmitWaitReset")
    BY <1>6 DEF OnTestLinkStatus
  <2> HIDE DEF b
  <2>2. SameJob(c, x)
    BY <1>1, <1>2
  <2> HIDE DEF x
  <2> QED
    BY <1>0, <2>1, <2>2, EnterJob
<1>7. CASE r = OnConfirmedUserData(c, src, fcb, data, NoSegments)
  <2> DEFINE b == ~a.nextReadFCB
             x == [a EXCEPT !.nextReadFCB = b]
             y == PushDataUp(x, data, NoSegments)
  <2>1. r = c \/ r \in {EnterSec(y, "TransmitWaitReset"), EnterSec(a, "TransmitWaitReset")}
    BY <1>7 DEF OnConfirmedUserData
  <2> HIDE DEF b
  <2>2. SameJob(c, x)
    BY <1>1, <1>2
  <2> HIDE DEF x
  <2>3. SameJob(c, y)
    BY <1>3, <2>2
  <2> HIDE DEF a, y
  <2> QED
    BY <1>0, <1>1, <2>1, <2>3, EnterJob
<1>8. CASE r = PushDataUp(c, data, NoSegments)
  BY <1>0, <1>3, <1>8
<1>9. CASE r = SecOnTxReady(c)
  <2>1. r = c \/ \E p : r = EnterSec(c, p)
    BY <1>9, Zenon DEF SecOnTxReady
  <2> QED
    BY <1>0, <2>1, EnterJob
<1> QED
  BY <1>4, <1>5, <1>6, <1>7, <1>8, <1>9


-------------------------------------------------------------------------------
\* The handlers.

LEMMA DispatchJob ==
    ASSUME NEW c \in LinkContextType, Segs(c), NEW f \in Frame,
           NEW r, r = Dispatch(c, f, NoSegments)
    PROVE  Completes(c, r)
<1> DEFINE src == f.src
           fcb == f.fcb
           data == f.data
           full == f.fcvdfc
<1>1. f.func \in SecFunction \cup PriFunction
  BY DEF Frame, LinkHeader
<1>2. \/ r \in {PriOnAck(c), PriOnNack(c, full), PriOnStatus(c)}
      \/ r \in {OnResetLinkStates(c, src), OnRequestLinkStatus(c, src),
                OnTestLinkStatus(c, src, fcb),
                OnConfirmedUserData(c, src, fcb, data, NoSegments),
                PushDataUp(c, data, NoSegments), SecOnTxReady(c)}
  BY <1>1 DEF Dispatch, SecFunction, PriFunction
<1> HIDE DEF src, fcb, data, full
<1>3. HasJob(c)
  BY ContextHasJob
<1> QED
  BY <1>2, <1>3, AckJob, NackJob, SecondaryJob, SameJobCompletes

\* What the handlers have in common that keep the connection as it is.
Steps(c, r) ==
    /\ Full(r) /\ Completes(c, r) /\ r.isOnline = c.isOnline

LEMMA FrameStep ==
    ASSUME NEW c, Full(c), NEW f \in Frame, NEW r, r = OnFrame(c, f, NoSegments)
    PROVE  Steps(c, r) /\ (c.tx # <<>> => r.tx # <<>>)
<1>1. Base(c) /\ SecAccounting(c) /\ Work(c) /\ c \in LinkContextType /\ Segs(c)
  BY DEF Full, Base
<1>2. Full(r) /\ SameSession(c, r)
  BY <1>1, FrameFacts
<1>3. Completes(c, r)
  <2>1. CASE Accepts(c, f)
    <3> DEFINE d == Dispatch(c, f, NoSegments)
    <3>1. Completes(c, d)
      BY <1>1, DispatchJob
    <3>2. r = TryStartTransmission(d)
      BY <2>1 DEF OnFrame
    <3> HIDE DEF d
    <3>3. SameJob(d, r)
      BY <3>1, <3>2, TryStartJob DEF Completes
    <3> QED
      BY <3>1, <3>3, CompletesThen
  <2>2. CASE ~Accepts(c, f)
    <3>1. r = c
      BY <2>2 DEF OnFrame
    <3> QED
      BY <1>1, <3>1, ContextHasJob, Reflexive
  <2> QED
    BY <2>1, <2>2
<1> QED
  BY <1>2, <1>3 DEF SameSession, Steps

LEMMA WriteStep ==
    ASSUME NEW c, Full(c), c.tx # <<>>, NEW r, r = OnWriteComplete(c)
    PROVE  Steps(c, r)
<1>1. Full(r) /\ r.isOnline = c.isOnline
  BY WriteCompleteFacts
<1>2. PICK d : /\ d \in LinkContextType /\ SameRest(c, d)
               /\ \/ r = TryStartTransmission(PriOnTxReady(d))
                  \/ r = TryStartTransmission(SecOnTxReady(d))
  BY WriteDone
<1>3. SameJob(c, d) /\ Segs(d) /\ HasJob(d)
  <2>1. Segs(c)
    BY DEF Full, Base
  <2> QED
    BY <1>2, <2>1, ContextHasJob DEF SameRest, SameJob, Segs, HasSegments
<1>4. Completes(d, PriOnTxReady(d)) /\ SameJob(d, SecOnTxReady(d))
  BY <1>2, <1>3, TxReadyJob, SecondaryJob
<1>5. PICK x : Completes(d, x) /\ r = TryStartTransmission(x)
  BY <1>2, <1>4, SameJobCompletes
<1>6. SameJob(x, r)
  BY <1>5, TryStartJob DEF Completes
<1>7. Completes(c, r)
  BY <1>3, <1>5, <1>6, CompletesThen, SameJobCompletes
<1> QED
  BY <1>1, <1>7 DEF Steps

LEMMA ResponseStep ==
    ASSUME NEW c, Full(c),
           NEW d, d = [c EXCEPT !.rspTimeoutTimer = CurrentCallback(@)],
           NEW r, r = OnResponseTimeout(d)
    PROVE  Steps(c, r) /\ (c.tx # <<>> => r.tx # <<>>)
<1> DEFINE t == CurrentCallback(c.rspTimeoutTimer)
<1>1. c \in LinkContextType /\ Segs(c)
  BY DEF Full, Base
<1>2. t \in TimerRefType /\ ~IsActive(t)
  <2>1. c.rspTimeoutTimer \in TimerRefType
    BY <1>1 DEF LinkContextType
  <2> QED
    BY <2>1 DEF CurrentCallback, TimerRefType, IsActive
<1>3. d = [c EXCEPT !.rspTimeoutTimer = t]
  OBVIOUS
<1> HIDE DEF t
<1>4. Full(r) /\ SameSession(c, r)
  BY <1>2, <1>3, ResponseHandler
<1>5. /\ d \in LinkContextType /\ d.pPriState = c.pPriState /\ d.pSegments = c.pSegments
      /\ d.posted = c.posted
  BY <1>1, <1>2, <1>3 DEF LinkContextType
<1>6. SameJob(c, d) /\ Segs(d)
  BY <1>1, <1>5, ContextHasJob DEF SameJob, Segs, HasSegments
<1> DEFINE x == PriOnTimeout(d)
<1>7. Completes(d, x) /\ r = TryStartTransmission(x)
  BY <1>5, <1>6, TimeoutJob DEF OnResponseTimeout
<1> HIDE DEF x
<1>8. SameJob(x, r)
  BY <1>7, TryStartJob DEF Completes
<1>9. Completes(c, r)
  BY <1>6, <1>7, <1>8, CompletesThen, SameJobCompletes
<1> QED
  BY <1>4, <1>9 DEF SameSession, Steps


\* Become: what was passed up has been taken.
LEMMA Emptied ==
    ASSUME NEW r, Full(r), NEW e, e = [r EXCEPT !.up = <<>>]
    PROVE  Full(e) /\ SameJob(r, e) /\ e.isOnline = r.isOnline /\ e.tx = r.tx /\ e.up = <<>>
<1> DEFINE none == <<>>
<1>1. none \in Seq(Segment) /\ e = [r EXCEPT !.up = none] /\ r \in LinkContextType
  BY DEF Full, Base
<1>2. HasJob(r)
  BY <1>1, ContextHasJob
<1> HIDE DEF none
<1>3. Full(e) /\ SameTx(r, e)
  BY <1>1, PlainUpdate
<1>4. SameJob(r, e) /\ e.up = none
  BY <1>1, <1>2 DEF SameJob, HasJob, LinkContextType
<1> QED
  BY <1>3, <1>4 DEF SameTx, none

LEMMA PostedStep ==
    ASSUME NEW c, Full(c), c.posted > 0, NEW r, r = [c EXCEPT !.posted = @ - 1]
    PROVE  /\ Full(r) /\ r.isOnline = c.isOnline /\ r.tx = c.tx
           /\ r.posted = c.posted - 1 /\ (HasSegments(r) <=> HasSegments(c))
           /\ r.config = c.config
<1>1. c \in LinkContextType
  BY DEF Full, Base
<1>2. c.posted - 1 \in Nat
  BY <1>1 DEF LinkContextType
<1>3. Full(r) /\ SameTx(c, r)
  <2>1. <<>> \in Seq(Segment)
    OBVIOUS
  <2> QED
    BY <1>2, <2>1, PlainUpdate
<1>4. r.posted = c.posted - 1 /\ r.pSegments = c.pSegments /\ r.config = c.config
  BY <1>1 DEF LinkContextType
<1> QED
  BY <1>3, <1>4 DEF SameTx, HasSegments

LEMMA SendStep ==
    ASSUME NEW c, Full(c), c.isOnline, NEW t \in TxType, t.payload # <<>>,
           NEW r, r = SendTransmitter(c, t)
    PROVE  /\ Full(r) /\ r.isOnline = c.isOnline /\ (c.tx # <<>> => r.tx # <<>>)
           /\ HasSegments(r) /\ r.posted = c.posted /\ r.config = c.config
<1> DEFINE s == [destination |-> c.config.RemoteAddr, segs |-> Segmentation(t)]
           d == [c EXCEPT !.pSegments = s]
<1>1. c \in LinkContextType /\ Base(c) /\ SecAccounting(c) /\ Work(c)
  BY DEF Full, Base
<1>2. s \in Segments /\ s # NoSegments
  <2> DEFINE segs == Segmentation(t)
             dest == c.config.RemoteAddr
  <2>1. segs \in Seq(Segment) \ {<<>>} /\ dest \in Address
    BY <1>1, SegmentationFacts, RemoteAddrType
  <2>2. s = [destination |-> dest, segs |-> segs]
    OBVIOUS
  <2> HIDE DEF segs, dest, s
  <2>3. s.segs # <<>>
    BY <2>1, <2>2
  <2> QED
    BY <2>1, <2>2, <2>3 DEF Segments, NoSegments
<1>3. r = IF HasSegments(c) THEN d ELSE Send(c, s)
  BY DEF SendTransmitter
<1> HIDE DEF s
<1>4. /\ d \in LinkContextType /\ SameTx(c, d) /\ d.pPriState = c.pPriState
      /\ d.rspTimeoutTimer = c.rspTimeoutTimer /\ d.pSegments = s
      /\ d.posted = c.posted /\ d.keepAliveTimeout = c.keepAliveTimeout
      /\ d.config = c.config
  BY <1>1, <1>2 DEF LinkContextType, SameTx
<1> HIDE DEF d
<1>5. HasSegments(d) /\ HasJob(d)
  BY <1>2, <1>4, ContextHasJob DEF HasSegments
<1>6. CASE HasSegments(c)
  <2>1. r = d
    BY <1>3, <1>6
  <2>2. /\ Kept(c, d) /\ (Chan(c) => Chan(d)) /\ (PriFrameOut(d) <=> PriFrameOut(c))
        /\ (SecFrameOut(d) <=> SecFrameOut(c))
    BY <1>4, SameTxKept
  <2>3. d.clobbered = c.clobbered /\ d.pSecState = c.pSecState
        /\ d.isOnline = c.isOnline /\ d.tx = c.tx
    BY <1>4 DEF SameTx
  <2>4. Full(d)
    BY <1>1, <1>4, <1>5, <1>6, <2>2, <2>3
       DEF Full, Base, PriAccounting, SecAccounting, Waits, Segs, Work
  <2> QED
    BY <1>4, <1>5, <2>1, <2>3, <2>4
<1>7. CASE ~HasSegments(c)
  <2>1. r = Send(c, s)
    BY <1>3, <1>7
  <2>2. r = TryStartTransmission(d)
    BY <1>7, <2>1 DEF Send, d
  <2>3. Base(r) /\ Kept(c, r) /\ Work(r)
    BY <1>1, <1>2, <2>1, SendFacts
  <2>4. SecAccounting(r) /\ SameSession(c, r)
    BY <1>1, <2>3, KeptSession
  <2>5. SameJob(d, r)
    BY <1>5, <2>2, TryStartJob
  <2> QED
    BY <1>4, <1>5, <2>3, <2>4, <2>5 DEF Full, SameSession, SameJob, HasSegments
<1> QED
  BY <1>6, <1>7

LEMMA UpStep ==
    ASSUME NEW c, Full(c), ~c.isOnline, NEW r, r = OnLowerLayerUp(c, NoSegments)
    PROVE  /\ Full(r) /\ r.isOnline /\ r.tx = c.tx
           /\ r.posted = c.posted /\ r.pSegments = c.pSegments
           /\ r.config = c.config /\ r.up = c.up
<1>1. c \in LinkContextType
  BY DEF Full, Base
<1>2. Full(r) /\ r.isOnline = TRUE
  BY UpHandler
<1> DEFINE k == TimerStart(c.keepAliveTimer)
<1>3. r = [c EXCEPT !.isOnline = TRUE, !.keepAliveTimer = k, !.linkStatus = "UNRESET"]
  BY DEF OnLowerLayerUp, Reply
<1> HIDE DEF k
<1>4. /\ r.tx = c.tx /\ r.posted = c.posted /\ r.pSegments = c.pSegments
      /\ r.config = c.config /\ r.up = c.up
  BY <1>1, <1>3 DEF LinkContextType
<1> QED
  BY <1>2, <1>4

LEMMA DownStep ==
    ASSUME NEW c, Full(c), c.isOnline, NEW r, r = OnLowerLayerDown(c)
    PROVE  /\ Full(r) /\ ~r.isOnline
           /\ r.posted = c.posted /\ r.pSegments = NoSegments
           /\ r.config = c.config /\ r.up = c.up
<1>1. c \in LinkContextType
  BY DEF Full, Base
<1>2. r = DownState(c)
  BY DEF OnLowerLayerDown
<1>3. Full(r) /\ ~r.isOnline
  BY <1>2, DownHandler
<1>4. /\ r.posted = c.posted /\ r.pSegments = NoSegments
      /\ r.config = c.config /\ r.up = c.up
  BY <1>1, <1>2 DEF DownState, LinkContextType
<1> QED
  BY <1>3, <1>4


-------------------------------------------------------------------------------
\* The inductive invariant.  Agree relates the send under way at a link layer c
\* to the flags t of the transport layer on it: a layer that is down is not
\* sending, a layer that is sending is owed a completion, and unless one of an
\* earlier connection was queued when this one came up (tardy), a completion
\* that is queued is the one of that send.
Agree(c, t, tardy) ==
    /\ c.isOnline = t.isOnline
    /\ ~t.isOnline => ~t.isSending /\ ~HasSegments(c) /\ ~tardy
    /\ t.isSending => HasSegments(c) \/ c.posted > 0
    /\ ~tardy =>
         /\ HasSegments(c) => t.isSending
         /\ t.isOnline /\ c.posted > 0 => c.posted = 1 /\ t.isSending /\ ~HasSegments(c)

EndInOrder(n) ==
    /\ Full(link[n])
    /\ link[n].isOnline = transport.isOnline
    /\ written[n] => link[n].tx # <<>>
    /\ link[n].config = NodeConfig[n] /\ link[n].up = <<>>

StackInv ==
    /\ TypeOK
    /\ \A n \in Node : EndInOrder(n)
    /\ Agree(link[sender], transport, late)

LEMMA AgreeCompletes ==
    ASSUME NEW c, c.posted \in Nat, NEW t, NEW tardy, Agree(c, t, tardy),
           NEW r, Completes(c, r), r.isOnline = c.isOnline
    PROVE  Agree(r, t, tardy)
BY DEF Agree, Completes

LEMMA AgreeSameJob ==
    ASSUME NEW c, NEW t, NEW tardy, Agree(c, t, tardy),
           NEW r, SameJob(c, r), r.isOnline = c.isOnline
    PROVE  Agree(r, t, tardy)
BY DEF Agree, SameJob, HasSegments

LEMMA AgreeStart ==
    ASSUME NEW c, c.posted \in Nat, NEW t \in LayerType, NEW tardy, Agree(c, t, tardy),
           AcceptsSend(t), NEW r, HasSegments(r), r.posted = c.posted,
           r.isOnline = c.isOnline
    PROVE  Agree(r, StartSend(t), tardy)
<1>1. StartSend(t).isOnline = t.isOnline /\ StartSend(t).isSending
  BY LayerFacts
<1>2. t.isOnline /\ ~t.isSending
  BY DEF AcceptsSend
<1> DEFINE u == StartSend(t)
<1> HIDE DEF u
<1>3. u.isOnline = t.isOnline /\ u.isSending
  BY <1>1 DEF u
<1>4. Agree(r, u, tardy)
  BY <1>2, <1>3 DEF Agree
<1> QED
  BY <1>4 DEF u

LEMMA AgreeReady ==
    ASSUME NEW c, c.posted \in Nat, c.posted > 0, NEW t \in LayerType, NEW tardy,
           Agree(c, t, tardy), NEW r, r.posted = c.posted - 1,
           HasSegments(r) <=> HasSegments(c), r.isOnline = c.isOnline
    PROVE  Agree(r, LayerTxReady(t), tardy)
<1> DEFINE u == LayerTxReady(t)
<1>1. u.isOnline = t.isOnline /\ u.isSending = (t.isSending /\ ~t.isOnline)
  BY LayerFacts
<1> HIDE DEF u
<1>2. CASE t.isOnline
  <2>1. ~u.isSending /\ u.isOnline
    BY <1>1, <1>2
  <2> QED
    BY <1>2, <2>1 DEF Agree, u
<1>3. CASE ~t.isOnline
  <2>1. ~u.isSending /\ ~u.isOnline /\ ~HasSegments(r) /\ ~c.isOnline
    BY <1>1, <1>3 DEF Agree
  <2>2. u.isOnline = r.isOnline
    BY <1>1 DEF Agree
  <2> QED
    BY <2>1, <2>2 DEF Agree, u
<1> QED
  BY <1>2, <1>3

LEMMA AgreeIdle ==
    ASSUME NEW c, NEW t, NEW tardy, c.isOnline = t.isOnline, ~t.isSending, ~HasSegments(c),
           tardy \/ ~t.isOnline \/ c.posted = 0, tardy => t.isOnline
    PROVE  Agree(c, t, tardy)
BY DEF Agree


LEMMA NodeFacts ==
    ASSUME StackInv, NEW n \in Node
    PROVE  /\ link \in [Node -> LinkContextType] /\ link[n] \in LinkContextType
           /\ Full(link[n]) /\ link[n].posted \in Nat /\ Peer(n) \in Node
           /\ link[n].isOnline = transport.isOnline
           /\ written[n] => link[n].tx # <<>>
           /\ link[n].config = NodeConfig[n] /\ link[n].up = <<>>
           /\ sender \in Node
<1>1. link \in [Node -> LinkContextType] /\ EndInOrder(n)
  BY DEF StackInv, TypeOK
<1>2. link[n] \in LinkContextType
  BY <1>1
<1> QED
  BY <1>1, <1>2, ContextHasJob DEF EndInOrder, Node, Peer

\* One end's context is replaced by another one in order.
LEMMA NodeStep ==
    ASSUME StackInv, NEW n \in Node, NEW e, Full(e), e.isOnline = link[n].isOnline,
           e.config = link[n].config, e.up = <<>>,
           link' = [link EXCEPT ![n] = e], transport'.isOnline = transport.isOnline,
           \A m \in Node \ {n} : written'[m] = written[m],
           written'[n] => e.tx # <<>>
    PROVE  /\ link' \in [Node -> LinkContextType] /\ link'[n] = e
           /\ \A m \in Node : EndInOrder(m)'
           /\ n # sender => link'[sender] = link[sender]
<1>1. link \in [Node -> LinkContextType] /\ e \in LinkContextType /\ sender \in Node
  BY NodeFacts DEF Full, Base
<1>2. link' \in [Node -> LinkContextType] /\ link'[n] = e
  BY <1>1
<1>3. \A m \in Node \ {n} : link'[m] = link[m]
  BY <1>1
<1>4. EndInOrder(n)'
  <2>1. Full(link'[n]) /\ link'[n].isOnline = transport'.isOnline
        /\ (written'[n] => link'[n].tx # <<>>)
        /\ link'[n].config = NodeConfig[n] /\ link'[n].up = <<>>
    BY <1>2, NodeFacts
  <2> QED
    BY <2>1 DEF EndInOrder
<1>5. ASSUME NEW m \in Node \ {n} PROVE EndInOrder(m)'
  <2>1. Full(link[m]) /\ link[m].isOnline = transport.isOnline
        /\ (written[m] => link[m].tx # <<>>)
        /\ link[m].config = NodeConfig[m] /\ link[m].up = <<>>
    BY NodeFacts
  <2>2. Full(link'[m]) /\ link'[m].isOnline = transport'.isOnline
        /\ (written'[m] => link'[m].tx # <<>>)
        /\ link'[m].config = NodeConfig[m] /\ link'[m].up = <<>>
    BY <1>3, <2>1
  <2> QED
    BY <2>2 DEF EndInOrder
<1> QED
  BY <1>1, <1>2, <1>3, <1>4, <1>5

\* The same with the flags of the sender's transport layer untouched.
LEMMA HandlerStep ==
    ASSUME StackInv, NEW n \in Node, NEW r, Steps(link[n], r), Become(n, r),
           transport' = transport, late' = late,
           \A m \in Node \ {n} : written'[m] = written[m],
           written'[n] => r.tx # <<>>
    PROVE  /\ link' \in [Node -> LinkContextType]
           /\ \A m \in Node : EndInOrder(m)'
           /\ Agree(link[sender], transport, late)'
<1> DEFINE e == [r EXCEPT !.up = <<>>]
<1>1. Full(r) /\ Completes(link[n], r) /\ r.isOnline = link[n].isOnline
  BY DEF Steps
<1>2. Full(e) /\ SameJob(r, e) /\ e.isOnline = r.isOnline /\ e.tx = r.tx /\ e.up = <<>>
  BY <1>1, Emptied
<1>3. link' = [link EXCEPT ![n] = e] /\ e.config = link[n].config
  BY <1>1, <1>2 DEF Become, Completes, SameJob
<1> HIDE DEF e
<1>4. /\ link' \in [Node -> LinkContextType] /\ link'[n] = e
      /\ \A m \in Node : EndInOrder(m)'
      /\ n # sender => link'[sender] = link[sender]
  BY <1>1, <1>2, <1>3, NodeStep
<1>5. Agree(link'[sender], transport, late)
  <2>1. Agree(link[sender], transport, late) /\ link[n].posted \in Nat
    BY NodeFacts DEF StackInv
  <2>2. CASE n = sender
    <3>1. Completes(link[n], e)
      BY <1>1, <1>2, CompletesThen
    <3> QED
      BY <1>1, <1>2, <1>4, <2>1, <2>2, <3>1, AgreeCompletes
  <2>3. CASE n # sender
    BY <1>4, <2>1, <2>3
  <2> QED
    BY <2>2, <2>3
<1>6. Agree(link[sender], transport, late)'
  BY <1>5
<1> QED
  BY <1>4, <1>6


-------------------------------------------------------------------------------
\* Each action keeps the invariant.

LEMMA BeginTransmitInv == StackInv /\ AppBeginTransmit => StackInv'
<1> SUFFICES ASSUME StackInv, AppBeginTransmit PROVE StackInv'
  OBVIOUS
<1>1. sender \in Node /\ Full(link[sender]) /\ link[sender].posted \in Nat
      /\ Agree(link[sender], transport, late) /\ TypeOK
      /\ link[sender].isOnline = transport.isOnline
      /\ (written[sender] => link[sender].tx # <<>>)
  BY NodeFacts DEF StackInv, Node
<1>2. AcceptsSend(transport) /\ transport.isOnline /\ link[sender].isOnline
  BY <1>1 DEF AppBeginTransmit, AcceptsSend
<1>3. PICK len \in Lengths :
        /\ transmitter' = Configure(transmitter, Bytes(Len(submitted) + 1, len))
        /\ Become(sender, SendTransmitter(link[sender], transmitter'))
        /\ submitted' = Append(submitted, Bytes(Len(submitted) + 1, len))
  BY DEF AppBeginTransmit
<1>4. transport' = StartSend(transport) /\ Len(submitted) < MaxFragments
  BY DEF AppBeginTransmit
<1>5. /\ rx' = rx /\ written' = written /\ wire' = wire /\ fragments' = fragments
      /\ gaveUp' = gaveUp /\ reconnects' = reconnects /\ late' = late /\ mode' = mode
  BY DEF AppBeginTransmit
<1> DEFINE f == Bytes(Len(submitted) + 1, len)
           r == SendTransmitter(link[sender], transmitter')
           e == [r EXCEPT !.up = <<>>]
<1>6. f \in Seq(Byte) /\ transmitter' \in TxType /\ transmitter'.payload # <<>>
  <2>1. Len(submitted) + 1 \in 1..MaxFragments /\ transmitter \in TxType
    BY <1>1, <1>4, LengthsAssumption DEF TypeOK
  <2> HIDE DEF f
  <2>2. f = Bytes(Len(submitted) + 1, len) /\ transmitter' = Configure(transmitter, f)
    BY <1>3 DEF f
  <2> QED
    BY <2>1, <2>2, FragmentFacts
<1>7. submitted' \in Seq(Seq(Byte))
  <2>1. submitted \in Seq(Seq(Byte)) /\ submitted' = Append(submitted, f)
    BY <1>1, <1>3 DEF TypeOK
  <2> HIDE DEF f
  <2> QED
    BY <1>6, <2>1
<1>8. /\ Full(r) /\ r.isOnline = link[sender].isOnline
      /\ (link[sender].tx # <<>> => r.tx # <<>>)
      /\ HasSegments(r) /\ r.posted = link[sender].posted
      /\ r.config = link[sender].config
  BY <1>1, <1>2, <1>6, SendStep
<1>9. link' = [link EXCEPT ![sender] = e]
  BY <1>3 DEF Become
<1> HIDE DEF r, f
<1>10. Full(e) /\ SameJob(r, e) /\ e.isOnline = r.isOnline /\ e.tx = r.tx /\ e.up = <<>>
  BY <1>8, Emptied
<1> HIDE DEF e
<1>11. transport' \in LayerType /\ transport'.isOnline = transport.isOnline
  BY <1>1, <1>4, LayerFacts DEF TypeOK
<1>12. written'[sender] => e.tx # <<>>
  BY <1>1, <1>5, <1>8, <1>10
<1>13. /\ link' \in [Node -> LinkContextType] /\ link'[sender] = e
       /\ \A m \in Node : EndInOrder(m)'
  BY <1>1, <1>5, <1>8, <1>9, <1>10, <1>11, <1>12, NodeStep DEF SameJob
<1>14. Agree(link[sender], transport, late)'
  <2>1. Agree(e, StartSend(transport), late)
    <3>1. HasSegments(e) /\ e.posted = link[sender].posted /\ e.isOnline = link[sender].isOnline
      BY <1>8, <1>10 DEF SameJob, HasSegments
    <3> QED
      BY <1>1, <1>2, <3>1, AgreeStart DEF TypeOK
  <2> QED
    BY <1>4, <1>5, <1>13, <2>1
<1>15. TypeOK'
  BY <1>1, <1>5, <1>6, <1>7, <1>11, <1>13 DEF TypeOK
<1> QED
  BY <1>13, <1>14, <1>15 DEF StackInv

LEMMA RunPostedInv == StackInv /\ RunPosted => StackInv'
<1> SUFFICES ASSUME StackInv, RunPosted PROVE StackInv'
  OBVIOUS
<1> DEFINE r == [link[sender] EXCEPT !.posted = @ - 1]
           e == [r EXCEPT !.up = <<>>]
<1>1. sender \in Node /\ Full(link[sender]) /\ link[sender].posted \in Nat
      /\ Agree(link[sender], transport, late) /\ TypeOK
      /\ (written[sender] => link[sender].tx # <<>>)
  BY NodeFacts DEF StackInv, Node
<1>2. /\ link[sender].posted > 0 /\ link' = [link EXCEPT ![sender] = e]
      /\ transport' = LayerTxReady(transport)
  BY DEF RunPosted, Become
<1>3. /\ transmitter' = transmitter /\ rx' = rx /\ written' = written /\ wire' = wire
      /\ submitted' = submitted /\ fragments' = fragments
      /\ gaveUp' = gaveUp /\ reconnects' = reconnects /\ late' = late /\ mode' = mode
  BY DEF RunPosted
<1>4. /\ Full(r) /\ r.isOnline = link[sender].isOnline /\ r.tx = link[sender].tx
      /\ r.posted = link[sender].posted - 1
      /\ (HasSegments(r) <=> HasSegments(link[sender]))
      /\ r.config = link[sender].config
  BY <1>1, <1>2, PostedStep
<1> HIDE DEF r
<1>5. Full(e) /\ SameJob(r, e) /\ e.isOnline = r.isOnline /\ e.tx = r.tx /\ e.up = <<>>
  BY <1>4, Emptied
<1> HIDE DEF e
<1>6. transport' \in LayerType /\ transport'.isOnline = transport.isOnline
  BY <1>1, <1>2, LayerFacts DEF TypeOK
<1>7. written'[sender] => e.tx # <<>>
  BY <1>1, <1>3, <1>4, <1>5
<1>8. /\ link' \in [Node -> LinkContextType] /\ link'[sender] = e
      /\ \A m \in Node : EndInOrder(m)'
  BY <1>1, <1>2, <1>3, <1>4, <1>5, <1>6, <1>7, NodeStep DEF SameJob
<1>9. Agree(link[sender], transport, late)'
  <2>1. Agree(e, LayerTxReady(transport), late)
    <3>1. /\ e.posted = link[sender].posted - 1 /\ e.isOnline = link[sender].isOnline
          /\ (HasSegments(e) <=> HasSegments(link[sender]))
      BY <1>4, <1>5 DEF SameJob, HasSegments
    <3> QED
      BY <1>1, <1>2, <3>1, AgreeReady DEF TypeOK
  <2> QED
    BY <1>2, <1>3, <1>8, <2>1
<1>10. TypeOK'
  BY <1>1, <1>3, <1>6, <1>8 DEF TypeOK
<1> QED
  BY <1>8, <1>9, <1>10 DEF StackInv


\* Steps of the channel: the link contexts and the flags are left alone.
LEMMA ContextsKept ==
    ASSUME StackInv, link' = link, transport' = transport, late' = late,
           \A n \in Node : written'[n] => written[n] \/ link[n].tx # <<>>
    PROVE  /\ \A n \in Node : EndInOrder(n)'
           /\ Agree(link[sender], transport, late)'
<1>1. ASSUME NEW n \in Node PROVE EndInOrder(n)'
  <2>1. Full(link[n]) /\ link[n].isOnline = transport.isOnline
        /\ (written'[n] => link[n].tx # <<>>)
        /\ link[n].config = NodeConfig[n] /\ link[n].up = <<>>
    BY NodeFacts
  <2> QED
    BY <2>1 DEF EndInOrder
<1>2. Agree(link[sender], transport, late)'
  <2>1. Agree(link[sender], transport, late)
    BY DEF StackInv
  <2> QED
    BY <2>1
<1> QED
  BY <1>1, <1>2

LEMMA PutOnWireInv == StackInv /\ (\E n \in Node : PutOnWire(n)) => StackInv'
<1> SUFFICES ASSUME StackInv, NEW n \in Node, PutOnWire(n) PROVE StackInv'
  OBVIOUS
<1> DEFINE f == Head(link[n].tx).frame
           p == Peer(n)
<1>1. /\ TypeOK /\ link[n] \in LinkContextType /\ p \in Node
  BY NodeFacts DEF StackInv
<1>2. /\ link[n].tx # <<>> /\ written' = [written EXCEPT ![n] = TRUE]
      /\ wire' = [wire EXCEPT ![p] = Append(wire[p], f)]
  BY DEF PutOnWire
<1>3. /\ link' = link /\ transport' = transport /\ transmitter' = transmitter /\ rx' = rx
      /\ submitted' = submitted /\ fragments' = fragments
      /\ gaveUp' = gaveUp /\ reconnects' = reconnects /\ late' = late /\ mode' = mode
  BY DEF PutOnWire
<1>4. f \in Frame
  <2>1. link[n].tx \in Seq([station : Station, frame : Frame])
    BY <1>1 DEF LinkContextType
  <2>2. Head(link[n].tx) \in [station : Station, frame : Frame]
    BY <1>2, <2>1, HeadTailProperties
  <2> QED
    BY <2>2
<1> HIDE DEF f, p
<1>5. wire' \in [Node -> Seq(Frame)]
  <2>1. wire \in [Node -> Seq(Frame)]
    BY <1>1 DEF TypeOK
  <2>2. Append(wire[p], f) \in Seq(Frame)
    BY <1>1, <1>4, <2>1
  <2> QED
    BY <1>1, <1>2, <2>1, <2>2
<1>6. written' \in [Node -> BOOLEAN]
      /\ \A m \in Node : written'[m] => written[m] \/ link[m].tx # <<>>
  BY <1>1, <1>2 DEF TypeOK
<1>7. TypeOK'
  BY <1>1, <1>3, <1>5, <1>6 DEF TypeOK
<1> QED
  BY <1>3, <1>6, <1>7, ContextsKept DEF StackInv

LEMMA WireTail ==
    ASSUME TypeOK, NEW n \in Node, wire[n] # <<>>, wire' = [wire EXCEPT ![n] = Tail(@)]
    PROVE  wire' \in [Node -> Seq(Frame)] /\ Head(wire[n]) \in Frame
<1>1. wire \in [Node -> Seq(Frame)]
  BY DEF TypeOK
<1>2. Tail(wire[n]) \in Seq(Frame) /\ Head(wire[n]) \in Frame
  BY <1>1
<1> QED
  BY <1>1, <1>2

LEMMA LoseFrameInv == StackInv /\ (\E n \in Node : LoseFrame(n)) => StackInv'
<1> SUFFICES ASSUME StackInv, NEW n \in Node, LoseFrame(n) PROVE StackInv'
  OBVIOUS
<1>1. TypeOK /\ wire' \in [Node -> Seq(Frame)]
  BY WireTail DEF StackInv, LoseFrame
<1>2. /\ link' = link /\ transport' = transport /\ transmitter' = transmitter /\ rx' = rx
      /\ written' = written /\ submitted' = submitted /\ fragments' = fragments
      /\ gaveUp' = gaveUp /\ reconnects' = reconnects /\ late' = late /\ mode' = mode
  BY DEF LoseFrame
<1>3. TypeOK'
  BY <1>1, <1>2 DEF TypeOK
<1> QED
  BY <1>2, <1>3, ContextsKept DEF StackInv

LEMMA TransmitterStep ==
    ASSUME TypeOK, transmitter' \in {TxAdvance(transmitter), transmitter}
    PROVE  transmitter' \in TxType
BY TpduFacts DEF TypeOK

LEMMA WriteCompleteInv == StackInv /\ (\E n \in Node : WriteComplete(n)) => StackInv'
<1> SUFFICES ASSUME StackInv, NEW n \in Node, WriteComplete(n) PROVE StackInv'
  OBVIOUS
<1> DEFINE r == OnWriteComplete(link[n])
<1>1. TypeOK /\ Full(link[n]) /\ link[n].tx # <<>>
  BY NodeFacts DEF StackInv, WriteComplete
<1>2. written' = [written EXCEPT ![n] = FALSE] /\ Become(n, r)
  BY DEF WriteComplete
<1>3. /\ transport' = transport /\ rx' = rx /\ wire' = wire
      /\ submitted' = submitted /\ fragments' = fragments
      /\ gaveUp' = gaveUp /\ reconnects' = reconnects /\ late' = late /\ mode' = mode
  BY DEF WriteComplete
<1>4. transmitter' \in TxType
  BY <1>1, TransmitterStep DEF WriteComplete
<1>5. Steps(link[n], r)
  BY <1>1, WriteStep
<1> HIDE DEF r
<1>6. /\ written' \in [Node -> BOOLEAN] /\ ~written'[n]
      /\ \A m \in Node \ {n} : written'[m] = written[m]
  BY <1>1, <1>2 DEF TypeOK
<1>7. /\ link' \in [Node -> LinkContextType]
      /\ \A m \in Node : EndInOrder(m)'
      /\ Agree(link[sender], transport, late)'
  BY <1>2, <1>3, <1>5, <1>6, HandlerStep
<1>8. TypeOK'
  BY <1>1, <1>3, <1>4, <1>6, <1>7 DEF TypeOK
<1> QED
  BY <1>7, <1>8 DEF StackInv


LEMMA PassedUpType ==
    ASSUME TypeOK, NEW c \in LinkContextType, NEW f \in Frame, NEW out, out = PassedUp(c, f)
    PROVE  out.rx \in RxType /\ out.asdu \in Seq(Byte)
<1>1. rx \in RxType /\ c.up \in Seq(Segment) /\ f.src \in Address
  BY DEF TypeOK, LinkContextType, Frame, LinkHeader
<1>2. CASE c.up = <<>>
  <2> DEFINE none == <<>>
  <2>1. none \in Seq(Byte) /\ out = [rx |-> rx, asdu |-> none]
    BY <1>2 DEF PassedUp
  <2> HIDE DEF none
  <2> QED
    BY <1>1, <2>1
<1>3. CASE c.up # <<>>
  <2>1. Head(c.up) \in Segment
    BY <1>1, <1>3, HeadTailProperties
  <2>2. out = ProcessReceive(rx, f.src, Head(c.up))
    BY <1>3 DEF PassedUp
  <2> QED
    BY <1>1, <2>1, <2>2, ProcessReceiveType
<1> QED
  BY <1>2, <1>3

LEMMA ReceiveInv == StackInv /\ (\E n \in Node : Receive(n)) => StackInv'
<1> SUFFICES ASSUME StackInv, NEW n \in Node, Receive(n) PROVE StackInv'
  OBVIOUS
<1> DEFINE f == Head(wire[n])
           r == OnFrame(link[n], f, NoSegments)
           out == PassedUp(r, f)
<1>1. TypeOK /\ Full(link[n]) /\ (written[n] => link[n].tx # <<>>)
  BY NodeFacts DEF StackInv
<1>2. wire' \in [Node -> Seq(Frame)] /\ f \in Frame
  BY <1>1, WireTail DEF Receive
<1>3. /\ Become(n, r) /\ rx' = out.rx
      /\ fragments' = IF out.asdu = <<>> THEN fragments
                      ELSE Append(fragments, [asdu |-> out.asdu, excused |-> gaveUp \/ late])
  BY DEF Receive
<1>4. transmitter' \in TxType
  BY <1>1, TransmitterStep DEF Receive
<1>5. /\ transport' = transport /\ written' = written /\ submitted' = submitted
      /\ gaveUp' = gaveUp /\ reconnects' = reconnects /\ late' = late /\ mode' = mode
  BY DEF Receive
<1> HIDE DEF f
<1>6. Steps(link[n], r) /\ (link[n].tx # <<>> => r.tx # <<>>)
  BY <1>1, <1>2, FrameStep
<1>7. r \in LinkContextType
  BY <1>6 DEF Steps, Full, Base
<1> HIDE DEF r
<1>8. out.rx \in RxType /\ out.asdu \in Seq(Byte)
  BY <1>1, <1>2, <1>7, PassedUpType
<1> HIDE DEF out
<1>9. fragments' \in Seq([asdu : Seq(Byte), excused : BOOLEAN])
  <2> DEFINE x == [asdu |-> out.asdu, excused |-> gaveUp \/ late]
             F == [asdu : Seq(Byte), excused : BOOLEAN]
  <2>1. x \in F /\ fragments \in Seq(F)
    BY <1>1, <1>8 DEF TypeOK
  <2>2. fragments' = fragments \/ fragments' = Append(fragments, x)
    BY <1>3
  <2> HIDE DEF x, F
  <2>3. fragments' \in Seq(F)
    BY <2>1, <2>2
  <2> QED
    BY <2>3 DEF F
<1>10. /\ link' \in [Node -> LinkContextType]
       /\ \A m \in Node : EndInOrder(m)'
       /\ Agree(link[sender], transport, late)'
  BY <1>1, <1>3, <1>5, <1>6, HandlerStep
<1>11. TypeOK'
  BY <1>1, <1>2, <1>3, <1>4, <1>5, <1>8, <1>9, <1>10 DEF TypeOK
<1> QED
  BY <1>10, <1>11 DEF StackInv

LEMMA ResponseTimeoutInv == StackInv /\ ResponseTimeout => StackInv'
<1> SUFFICES ASSUME StackInv, ResponseTimeout PROVE StackInv'
  OBVIOUS
<1> DEFINE d == [link[sender] EXCEPT !.rspTimeoutTimer = CurrentCallback(@)]
           r == OnResponseTimeout(d)
<1>1. /\ TypeOK /\ sender \in Node /\ Full(link[sender])
      /\ (written[sender] => link[sender].tx # <<>>)
  BY NodeFacts DEF StackInv, Node
<1>2. Become(sender, r) /\ gaveUp' \in BOOLEAN
  BY DEF ResponseTimeout
<1>3. /\ transport' = transport /\ transmitter' = transmitter /\ rx' = rx
      /\ written' = written /\ wire' = wire /\ submitted' = submitted
      /\ fragments' = fragments /\ reconnects' = reconnects
      /\ late' = late /\ mode' = mode
  BY DEF ResponseTimeout
<1>4. Steps(link[sender], r) /\ (link[sender].tx # <<>> => r.tx # <<>>)
  BY <1>1, ResponseStep
<1> HIDE DEF r
<1>5. /\ link' \in [Node -> LinkContextType]
      /\ \A m \in Node : EndInOrder(m)'
      /\ Agree(link[sender], transport, late)'
  BY <1>1, <1>2, <1>3, <1>4, HandlerStep
<1>6. TypeOK'
  BY <1>1, <1>2, <1>3, <1>5 DEF TypeOK
<1> QED
  BY <1>5, <1>6 DEF StackInv

-------------------------------------------------------------------------------
\* The connection.  Both ends get new contexts.
LEMMA BothStep ==
    ASSUME link' = [n \in Node |-> link'[n]],
           \A n \in Node : /\ Full(link'[n]) /\ link'[n].isOnline = transport'.isOnline
                           /\ written'[n] => link'[n].tx # <<>>
                           /\ link'[n].config = NodeConfig[n] /\ link'[n].up = <<>>
    PROVE  link' \in [Node -> LinkContextType] /\ \A n \in Node : EndInOrder(n)'
<1>1. \A n \in Node : link'[n] \in LinkContextType
  BY DEF Full, Base
<1>2. link' \in [Node -> LinkContextType]
  BY <1>1
<1>3. ASSUME NEW n \in Node PROVE EndInOrder(n)'
  <2>1. Full(link'[n]) /\ link'[n].isOnline = transport'.isOnline
        /\ (written'[n] => link'[n].tx # <<>>)
        /\ link'[n].config = NodeConfig[n] /\ link'[n].up = <<>>
    OBVIOUS
  <2> QED
    BY <2>1 DEF EndInOrder
<1> QED
  BY <1>2, <1>3

\* IOHandler::Reset: nothing is left of what the channel held.
LEMMA ChannelEmptied ==
    ASSUME written' = [n \in Node |-> FALSE], wire' = [n \in Node |-> <<>>],
           TypeOK, rx' = ClearRxBuffer(rx)
    PROVE  /\ written' \in [Node -> BOOLEAN] /\ \A n \in Node : ~written'[n]
           /\ wire' \in [Node -> Seq(Frame)] /\ rx' \in RxType
<1> DEFINE none == <<>>
<1>1. none \in Seq(Frame) /\ none \in Seq(Byte) /\ wire' = [n \in Node |-> none]
      /\ rx' = [rx EXCEPT !.buffer = none]
  BY DEF ClearRxBuffer
<1> HIDE DEF none
<1> QED
  BY <1>1 DEF TypeOK, RxType

LEMMA ConnectionLostInv == StackInv /\ ConnectionLost => StackInv'
<1> SUFFICES ASSUME StackInv, ConnectionLost PROVE StackInv'
  OBVIOUS
<1>1. TypeOK /\ sender \in Node
  BY DEF StackInv, Node
<1>2. /\ reconnects' = reconnects + 1 /\ reconnects < MaxReconnects
      /\ transport' = LayerDown(transport)
      /\ link' = [n \in Node |-> OnLowerLayerDown(link[n])]
      /\ link[sender].isOnline
  BY DEF ConnectionLost
<1>3. /\ transmitter' = transmitter /\ submitted' = submitted /\ fragments' = fragments
      /\ gaveUp' = gaveUp /\ late' = FALSE /\ mode' = mode
  BY DEF ConnectionLost
<1>4. /\ written' \in [Node -> BOOLEAN] /\ \A n \in Node : ~written'[n]
      /\ wire' \in [Node -> Seq(Frame)] /\ rx' \in RxType
  BY <1>1, ChannelEmptied DEF ConnectionLost
<1>5. transport' \in LayerType /\ ~transport'.isOnline /\ ~transport'.isSending
  BY <1>1, <1>2, LayerFacts DEF TypeOK
<1>6. ASSUME NEW n \in Node
      PROVE  /\ Full(link'[n]) /\ ~link'[n].isOnline /\ link'[n].pSegments = NoSegments
             /\ link'[n].isOnline = transport'.isOnline
             /\ link'[n].config = NodeConfig[n] /\ link'[n].up = <<>>
  <2> DEFINE r == OnLowerLayerDown(link[n])
  <2>1. /\ Full(link[n]) /\ link[n].isOnline
        /\ link[n].config = NodeConfig[n] /\ link[n].up = <<>>
    BY <1>1, <1>2, NodeFacts
  <2>2. /\ Full(r) /\ ~r.isOnline /\ r.pSegments = NoSegments
        /\ r.config = link[n].config /\ r.up = link[n].up
    BY <2>1, DownStep
  <2>3. link'[n] = r
    BY <1>2
  <2> HIDE DEF r
  <2>4. r.isOnline \in BOOLEAN /\ transport'.isOnline \in BOOLEAN
    BY <1>5, <2>2 DEF Full, Base, LinkContextType, LayerType
  <2> QED
    BY <1>5, <2>1, <2>2, <2>3, <2>4
<1>7. link' = [n \in Node |-> link'[n]]
  BY <1>2
<1>8. link' \in [Node -> LinkContextType] /\ \A n \in Node : EndInOrder(n)'
  BY <1>4, <1>6, <1>7, BothStep
<1>9. Agree(link[sender], transport, late)'
  <2>1. Agree(link'[sender], transport', late')
    BY <1>1, <1>3, <1>5, <1>6, AgreeIdle DEF HasSegments
  <2> QED
    BY <2>1
<1>10. reconnects' \in 0..MaxReconnects
  BY <1>1, <1>2, ReconnectAssumption DEF TypeOK
<1>11. TypeOK'
  BY <1>1, <1>3, <1>4, <1>5, <1>8, <1>10 DEF TypeOK
<1> QED
  BY <1>8, <1>9, <1>11 DEF StackInv

LEMMA PostedOrNot ==
    ASSUME StackInv
    PROVE  link[sender].posted > 0 \/ link[sender].posted = 0
<1>1. sender \in Node
  BY DEF Node
<1>2. link[sender].posted \in Nat
  BY <1>1, NodeFacts
<1> QED
  BY <1>2

LEMMA ConnectedInv == StackInv /\ Connected => StackInv'
<1> SUFFICES ASSUME StackInv, Connected PROVE StackInv'
  OBVIOUS
<1>1. TypeOK /\ sender \in Node /\ Agree(link[sender], transport, late)
  BY DEF StackInv, Node
<1>2. /\ transport' = LayerUp(transport) /\ gaveUp' = FALSE
      /\ link' = [n \in Node |-> OnLowerLayerUp(link[n], NoSegments)]
      /\ ~link[sender].isOnline
  BY DEF Connected
<1>3. /\ transmitter' = transmitter /\ rx' = rx /\ written' = written /\ wire' = wire
      /\ submitted' = submitted /\ fragments' = fragments /\ reconnects' = reconnects
      /\ late' = (link[sender].posted > 0) /\ mode' = mode
  BY DEF Connected
<1>4. ~transport.isOnline /\ ~transport.isSending /\ link[sender].pSegments = NoSegments
  BY <1>1, <1>2 DEF Agree, HasSegments
<1>5. transport' \in LayerType /\ transport'.isOnline /\ ~transport'.isSending
  BY <1>1, <1>2, <1>4, LayerFacts DEF TypeOK
<1>6. ASSUME NEW n \in Node
      PROVE  /\ Full(link'[n]) /\ link'[n].isOnline = transport'.isOnline
             /\ link'[n].posted = link[n].posted /\ link'[n].pSegments = link[n].pSegments
             /\ written'[n] => link'[n].tx # <<>>
             /\ link'[n].config = NodeConfig[n] /\ link'[n].up = <<>>
  <2> DEFINE r == OnLowerLayerUp(link[n], NoSegments)
  <2>1. /\ Full(link[n]) /\ ~link[n].isOnline /\ (written[n] => link[n].tx # <<>>)
        /\ link[n].config = NodeConfig[n] /\ link[n].up = <<>>
    BY <1>1, <1>4, NodeFacts
  <2>2. /\ Full(r) /\ r.isOnline /\ r.tx = link[n].tx
        /\ r.posted = link[n].posted /\ r.pSegments = link[n].pSegments
        /\ r.config = link[n].config /\ r.up = link[n].up
    BY <2>1, UpStep
  <2>3. link'[n] = r
    BY <1>2
  <2> HIDE DEF r
  <2>4. r.isOnline \in BOOLEAN /\ transport'.isOnline \in BOOLEAN
    BY <1>5, <2>2 DEF Full, Base, LinkContextType, LayerType
  <2> QED
    BY <1>3, <1>5, <2>1, <2>2, <2>3, <2>4
<1>7. link' = [n \in Node |-> link'[n]]
  BY <1>2
<1>8. link' \in [Node -> LinkContextType] /\ \A n \in Node : EndInOrder(n)'
  BY <1>6, <1>7, BothStep
<1>9. Agree(link[sender], transport, late)'
  <2>1. late' \/ link'[sender].posted = 0
    BY <1>1, <1>3, <1>6, PostedOrNot
  <2>2. Agree(link'[sender], transport', late')
    BY <1>1, <1>2, <1>4, <1>5, <1>6, <2>1, AgreeIdle DEF HasSegments
  <2> QED
    BY <2>2
<1>10. late' \in BOOLEAN
  BY <1>3
<1>11. TypeOK'
  BY <1>1, <1>2, <1>3, <1>5, <1>8, <1>10 DEF TypeOK
<1> QED
  BY <1>8, <1>9, <1>11 DEF StackInv


LEMMA NewChannelInv == StackInv /\ NewChannel => StackInv'
<1> SUFFICES ASSUME StackInv, NewChannel PROVE StackInv'
  OBVIOUS
<1>1. TypeOK /\ sender \in Node
  BY DEF StackInv, Node
<1>2. /\ reconnects' = reconnects + 1 /\ reconnects < MaxReconnects
      /\ transport' = LayerUp(LayerDown(transport)) /\ gaveUp' = FALSE
      /\ link' = [n \in Node |-> OnLowerLayerUp(OnLowerLayerDown(link[n]), NoSegments)]
      /\ link[sender].isOnline
  BY DEF NewChannel
<1>3. /\ transmitter' = transmitter /\ submitted' = submitted /\ fragments' = fragments
      /\ late' = (link[sender].posted > 0) /\ mode' = mode
  BY DEF NewChannel
<1>4. /\ written' \in [Node -> BOOLEAN] /\ \A n \in Node : ~written'[n]
      /\ wire' \in [Node -> Seq(Frame)] /\ rx' \in RxType
  BY <1>1, ChannelEmptied DEF NewChannel
<1>5. transport' \in LayerType /\ transport'.isOnline /\ ~transport'.isSending
  <2> DEFINE d == LayerDown(transport)
  <2>1. d \in LayerType /\ ~d.isSending
    BY <1>1, LayerFacts DEF TypeOK
  <2>2. transport' = LayerUp(d)
    BY <1>2
  <2> HIDE DEF d
  <2> QED
    BY <2>1, <2>2, LayerFacts
<1>6. ASSUME NEW n \in Node
      PROVE  /\ Full(link'[n]) /\ link'[n].pSegments = NoSegments
             /\ link'[n].isOnline = transport'.isOnline
             /\ link'[n].posted = link[n].posted
             /\ link'[n].config = NodeConfig[n] /\ link'[n].up = <<>>
  <2> DEFINE d == OnLowerLayerDown(link[n])
             r == OnLowerLayerUp(d, NoSegments)
  <2>1. /\ Full(link[n]) /\ link[n].isOnline
        /\ link[n].config = NodeConfig[n] /\ link[n].up = <<>>
    BY <1>1, <1>2, NodeFacts
  <2>2. /\ Full(d) /\ ~d.isOnline /\ d.pSegments = NoSegments /\ d.posted = link[n].posted
        /\ d.config = link[n].config /\ d.up = link[n].up
    BY <2>1, DownStep
  <2>3. link'[n] = r
    BY <1>2
  <2> HIDE DEF d
  <2>4. /\ Full(r) /\ r.isOnline /\ r.pSegments = NoSegments /\ r.posted = d.posted
        /\ r.config = d.config /\ r.up = d.up
    BY <2>2, UpStep
  <2> HIDE DEF r
  <2>5. r.isOnline \in BOOLEAN /\ transport'.isOnline \in BOOLEAN
    BY <1>5, <2>4 DEF Full, Base, LinkContextType, LayerType
  <2> QED
    BY <1>5, <2>1, <2>2, <2>3, <2>4, <2>5
<1>7. link' = [n \in Node |-> link'[n]]
  BY <1>2
<1>8. link' \in [Node -> LinkContextType] /\ \A n \in Node : EndInOrder(n)'
  BY <1>4, <1>6, <1>7, BothStep
<1>9. Agree(link[sender], transport, late)'
  <2>1. late' \/ link'[sender].posted = 0
    BY <1>1, <1>3, <1>6, PostedOrNot
  <2>2. Agree(link'[sender], transport', late')
    BY <1>1, <1>5, <1>6, <2>1, AgreeIdle DEF HasSegments
  <2> QED
    BY <2>2
<1>10. reconnects' \in 0..MaxReconnects
  BY <1>1, <1>2, ReconnectAssumption DEF TypeOK
<1>11. late' \in BOOLEAN
  BY <1>3
<1>12. TypeOK'
  BY <1>1, <1>2, <1>3, <1>4, <1>5, <1>8, <1>10, <1>11 DEF TypeOK
<1> QED
  BY <1>8, <1>9, <1>12 DEF StackInv

LEMMA StackInit == Init => StackInv
<1> SUFFICES ASSUME Init PROVE StackInv
  OBVIOUS
<1> DEFINE none == <<>>
<1>1. /\ link = [n \in Node |-> OnLowerLayerUp(InitContext(NodeConfig[n]), NoSegments)]
      /\ transport = LayerUp(LayerInit) /\ transmitter = TxInit /\ rx = RxInit
      /\ written = [n \in Node |-> FALSE] /\ wire = [n \in Node |-> none]
      /\ submitted = none /\ fragments = none /\ gaveUp = FALSE /\ reconnects = 0
      /\ late = FALSE /\ mode \in Modes
  BY DEF Init
<1>2. transport \in LayerType /\ transport.isOnline /\ ~transport.isSending
  <2>1. LayerInit \in LayerType /\ ~LayerInit.isSending
    BY DEF LayerInit, LayerType
  <2> QED
    BY <1>1, <2>1, LayerFacts
<1>3. transmitter \in TxType /\ rx \in RxType
  <2>1. none \in Seq(Byte) /\ 0 \in 0..(SeqModulus - 1)
        /\ transmitter = [payload |-> none, tpduCount |-> 0, sequence |-> 0]
        /\ rx = [buffer |-> none, expectedSeq |-> 0, lastSource |-> "none"]
    BY <1>1, TransportAssumption DEF TxInit, RxInit
  <2> HIDE DEF none
  <2> QED
    BY <2>1 DEF TxType, RxType
<1>4. ASSUME NEW n \in Node
      PROVE  /\ Full(link[n]) /\ link[n].isOnline = transport.isOnline
             /\ link[n].posted = 0 /\ link[n].pSegments = NoSegments
             /\ link[n].config = NodeConfig[n] /\ link[n].up = <<>>
  <2> DEFINE c == InitContext(NodeConfig[n])
             r == OnLowerLayerUp(c, NoSegments)
  <2>1. NodeConfig[n] \in LinkLayerConfig
    BY EndsAssumption
  <2>2. /\ Full(c) /\ ~c.isOnline /\ c.pSegments = NoSegments
        /\ c.config = NodeConfig[n] /\ c.up = <<>>
    BY <2>1, InitContextFacts
  <2>3. c.posted = 0
    BY DEF InitContext
  <2>4. link[n] = r
    BY <1>1
  <2> HIDE DEF c
  <2>5. /\ Full(r) /\ r.isOnline /\ r.posted = 0 /\ r.pSegments = NoSegments
        /\ r.config = NodeConfig[n] /\ r.up = <<>>
    BY <2>2, <2>3, UpStep
  <2> HIDE DEF r
  <2>6. r.isOnline \in BOOLEAN /\ transport.isOnline \in BOOLEAN
    BY <1>2, <2>5 DEF Full, Base, LinkContextType, LayerType
  <2> QED
    BY <1>2, <2>4, <2>5, <2>6
<1>5. link \in [Node -> LinkContextType]
  <2>1. link = [n \in Node |-> link[n]]
    BY <1>1
  <2>2. \A n \in Node : link[n] \in LinkContextType
    BY <1>4 DEF Full, Base
  <2> QED
    BY <2>1, <2>2
<1>6. written \in [Node -> BOOLEAN] /\ \A n \in Node : ~written[n]
  BY <1>1
<1>7. /\ wire \in [Node -> Seq(Frame)] /\ submitted \in Seq(Seq(Byte))
      /\ fragments \in Seq([asdu : Seq(Byte), excused : BOOLEAN])
  <2>1. none \in Seq(Frame) /\ none \in Seq(Seq(Byte))
        /\ none \in Seq([asdu : Seq(Byte), excused : BOOLEAN])
    OBVIOUS
  <2> HIDE DEF none
  <2> QED
    BY <1>1, <2>1
<1>8. reconnects \in 0..MaxReconnects
  BY <1>1, ReconnectAssumption
<1>9. TypeOK
  BY <1>1, <1>2, <1>3, <1>5, <1>6, <1>7, <1>8 DEF TypeOK
<1>10. \A n \in Node : EndInOrder(n)
  BY <1>4, <1>6 DEF EndInOrder
<1>11. Agree(link[sender], transport, late)
  <2>1. sender \in Node
    BY DEF Node
  <2> QED
    BY <1>1, <1>2, <1>4, <2>1, AgreeIdle DEF HasSegments
<1> QED
  BY <1>9, <1>10, <1>11 DEF StackInv

LEMMA StackStutter == StackInv /\ UNCHANGED vars => StackInv'
<1> SUFFICES ASSUME StackInv, UNCHANGED vars PROVE StackInv'
  OBVIOUS
<1>1. /\ link' = link /\ transport' = transport /\ transmitter' = transmitter /\ rx' = rx
      /\ written' = written /\ wire' = wire /\ submitted' = submitted
      /\ fragments' = fragments /\ gaveUp' = gaveUp /\ reconnects' = reconnects
      /\ late' = late /\ mode' = mode
  BY DEF vars
<1>2. TypeOK'
  BY <1>1 DEF StackInv, TypeOK
<1> QED
  BY <1>1, <1>2, ContextsKept DEF StackInv

LEMMA StackNext == StackInv /\ [Next]_vars => StackInv'
<1> SUFFICES ASSUME StackInv, [Next]_vars PROVE StackInv'
  OBVIOUS
<1>1. CASE AppBeginTransmit
  BY <1>1, BeginTransmitInv
<1>2. CASE RunPosted
  BY <1>2, RunPostedInv
<1>3. CASE ResponseTimeout
  BY <1>3, ResponseTimeoutInv
<1>4. CASE \E n \in Node : PutOnWire(n)
  BY <1>4, PutOnWireInv
<1>5. CASE \E n \in Node : LoseFrame(n)
  BY <1>5, LoseFrameInv
<1>6. CASE \E n \in Node : WriteComplete(n)
  BY <1>6, WriteCompleteInv
<1>7. CASE \E n \in Node : Receive(n)
  BY <1>7, ReceiveInv
<1>8. CASE ConnectionLost
  BY <1>8, ConnectionLostInv
<1>9. CASE Connected
  BY <1>9, ConnectedInv
<1>10. CASE NewChannel
  BY <1>10, NewChannelInv
<1>11. CASE UNCHANGED vars
  BY <1>11, StackStutter
<1>12. Done => UNCHANGED vars
  BY DEF Done
<1> QED
  BY <1>1, <1>2, <1>3, <1>4, <1>5, <1>6, <1>7, <1>8, <1>9, <1>10, <1>11, <1>12 DEF Next

LEMMA AlwaysStackInv == Spec => []StackInv
  BY StackInit, StackNext, PTL DEF Spec

\* Both ends' link contexts, the transmitter, the receiver and everything on the
\* wire keep their types; in particular the sequence numbers of TransportTx and
\* TransportRx come round, and every frame that the two link layers exchange
\* passes the parser.
THEOREM StackTypeCorrect == Spec => []TypeOK
<1>1. StackInv => TypeOK
  BY DEF StackInv
<1> QED
  BY <1>1, AlwaysStackInv, PTL

\* A transport layer that is sending is owed a completion, whatever is lost,
\* times out or is disconnected: LinkContext::CompleteSendOperation lets the
\* transmitter go only together with a posted OnTxReady, and going down ends
\* the send in both layers.
THEOREM CompletionIsOwed == Spec => []CompletionOwed
<1>1. StackInv => CompletionOwed
  BY DEF StackInv, CompletionOwed, Agree
<1> QED
  BY <1>1, AlwaysStackInv, PTL

\* Unless a completion of an earlier connection was still queued when this one
\* came up, TransportTx is never configured while the link layer holds a pointer
\* to it: whatever is lost, times out, is disconnected or replaced, and however
\* the sender comes by its connections.
THEOREM NeverReplaced == Spec => []SendRejectedWhileSending
<1>1. StackInv => SendRejectedWhileSending
  BY DEF StackInv, SendRejectedWhileSending, SendAlwaysRejected, AcceptsSend, Agree
<1> QED
  BY <1>1, AlwaysStackInv, PTL

-------------------------------------------------------------------------------
(* Segments of a fragment and how many there are.                           *)

\* The quotient is the multiple below.
LEMMA Quotient ==
    ASSUME NEW a \in Nat, NEW m \in Nat \ {0}, NEW q \in Nat, q * m <= a, a < q * m + m
    PROVE  a \div m = q
<1> DEFINE d == a \div m
<1>1. d \in Nat /\ d * m <= a /\ a < d * m + m
  OBVIOUS
<1> HIDE DEF d
<1>2. ASSUME d < q PROVE FALSE
  <2>1. d + 1 <= q
    BY <1>1, <1>2
  <2>2. (d + 1) * m <= q * m
    BY <1>1, <2>1
  <2> QED
    BY <1>1, <2>2
<1>3. ASSUME q < d PROVE FALSE
  <2>1. q + 1 <= d
    BY <1>1, <1>3
  <2>2. (q + 1) * m <= d * m
    BY <1>1, <2>1
  <2> QED
    BY <1>1, <2>2
<1>4. d = q
  BY <1>1, <1>2, <1>3
<1> QED
  BY <1>4 DEF d

\* Advance leaves one segment less.
LEMMA OneSegmentLess ==
    ASSUME NEW len \in Nat \ {0}, NEW k,
           k = IF len < MaxTpduPayload THEN len ELSE MaxTpduPayload
    PROVE  /\ len - k \in Nat /\ NumSegments(len - k) \in Nat
           /\ NumSegments(len) = NumSegments(len - k) + 1
           /\ NumSegments(0) = 0
<1> DEFINE m == MaxTpduPayload
<1>1. m \in Nat \ {0}
  BY TransportAssumption
<1>2. NumSegments(0) = 0
  <2>1. (m - 1) \div m = 0
    BY <1>1, Quotient
  <2> QED
    BY <1>1, <2>1 DEF NumSegments
<1>3. CASE len < m
  <2>1. k = len
    BY <1>3
  <2>2. (len + m - 1) \div m = 1
    <3>1. len + m - 1 \in Nat /\ 1 * m <= len + m - 1 /\ len + m - 1 < 1 * m + m
      BY <1>1, <1>3
    <3> HIDE DEF m
    <3> QED
      BY <1>1, <3>1, Quotient
  <2>3. NumSegments(len) = 1
    BY <2>2 DEF NumSegments
  <2> QED
    BY <1>2, <2>1, <2>3
<1>4. CASE ~(len < m)
  <2> DEFINE q == (len - 1) \div m
  <2>0. len - 1 \in Nat /\ len >= m
    BY <1>1, <1>4
  <2>1. k = m
    BY <1>4
  <2> HIDE DEF m
  <2>2. q \in Nat /\ q * m <= len - 1 /\ len - 1 < q * m + m
    BY <1>1, <2>0
  <2> HIDE DEF q
  <2>3. (q + 1) * m = q * m + m
    BY <1>1, <2>2
  <2>4. (q + 1) * m <= len + m - 1 /\ len + m - 1 < (q + 1) * m + m
    BY <1>1, <2>0, <2>2, <2>3
  <2>5. (len + m - 1) \div m = q + 1
    <3>1. len + m - 1 \in Nat /\ q + 1 \in Nat
      BY <1>1, <2>0, <2>2
    <3> QED
      BY <1>1, <2>4, <3>1, Quotient
  <2>6. len - k + m - 1 = len - 1 /\ len - k \in Nat
    BY <1>1, <2>0, <2>1
  <2>7. NumSegments(len) = q + 1
    BY <2>5 DEF NumSegments, m
  <2>8. NumSegments(len - k) = q
    BY <2>6 DEF NumSegments, m, q
  <2> QED
    BY <1>2, <2>2, <2>6, <2>7, <2>8
<1> QED
  BY <1>3, <1>4

\* The segments that are left after the first one.
LEMMA SegmentationTail ==
    ASSUME NEW t \in TxType, t.payload # <<>>
    PROVE  /\ Head(Segmentation(t)) = GetSegment(t)
           /\ Tail(Segmentation(t)) = Segmentation(TxAdvance(t))
           /\ Len(Segmentation(t)) > 1 => TxAdvance(t).payload # <<>>
<1> DEFINE u == TxAdvance(t)
           last == NumSegments(Len(t.payload))
           left == NumSegments(Len(u.payload))
           g == CHOOSE ahead : Unrolls(ahead, t, last)
           h == CHOOSE ahead : Unrolls(ahead, u, left)
           segs == [i \in 1..last |-> GetSegment(g[i - 1])]
           rest == [i \in 1..left |-> GetSegment(h[i - 1])]
<1>1. Segmentation(t) = segs /\ Segmentation(u) = rest
  BY DEF Segmentation, Unrolls
<1>2. u \in TxType
  BY TpduFacts
<1>3. /\ Len(t.payload) \in Nat \ {0} /\ t.payload \in Seq(Byte)
      /\ Len(u.payload) = Len(t.payload) - NumToSend(t)
  <2>1. t.payload \in Seq(Byte) /\ Len(t.payload) \in Nat \ {0}
    BY DEF TxType
  <2>2. NumToSend(t) \in 0..Len(t.payload)
    BY <2>1, TransportAssumption DEF NumToSend
  <2>3. u.payload = SubSeq(t.payload, NumToSend(t) + 1, Len(t.payload))
    BY DEF TxAdvance
  <2> QED
    BY <2>1, <2>2, <2>3
<1>4. left \in Nat /\ last = left + 1 /\ NumSegments(0) = 0
  BY <1>3, OneSegmentLess DEF NumToSend
<1> HIDE DEF last, left
<1>5. Unrolls(g, t, last) /\ Unrolls(h, u, left)
  <2>1. last \in Nat
    BY <1>4
  <2>2. \E ahead : Unrolls(ahead, t, last)
    BY <2>1, Unrolling
  <2>3. \E ahead : Unrolls(ahead, u, left)
    BY <1>4, Unrolling
  <2> QED
    BY <2>2, <2>3, Zenon
<1> HIDE DEF g, h
<1>6. \A k \in 0..left : h[k] = g[k + 1]
  <2> DEFINE S == {n \in Nat : n <= left => h[n] = g[n + 1]}
  <2>0. /\ \A k \in 0..last : g[k] = IF k = 0 THEN t ELSE TxAdvance(g[k - 1])
        /\ \A k \in 0..left : h[k] = IF k = 0 THEN u ELSE TxAdvance(h[k - 1])
    BY <1>5 DEF Unrolls
  <2>1. 0 \in S
    <3>1. g[1] = TxAdvance(g[0]) /\ g[0] = t /\ h[0] = u
      BY <1>4, <2>0
    <3> QED
      BY <3>1
  <2>2. ASSUME NEW n \in Nat, n \in S PROVE n + 1 \in S
    <3> SUFFICES ASSUME n + 1 <= left PROVE h[n + 1] = g[n + 1 + 1]
      OBVIOUS
    <3>1. h[n] = g[n + 1]
      BY <1>4, <2>2
    <3>2. h[n + 1] = TxAdvance(h[n])
      <4>1. n + 1 \in 0..left /\ n + 1 # 0 /\ n + 1 - 1 = n
        BY <1>4
      <4> QED
        BY <2>0, <4>1
    <3>3. g[n + 1 + 1] = TxAdvance(g[n + 1])
      <4>1. n + 1 + 1 \in 0..last /\ n + 1 + 1 # 0 /\ n + 1 + 1 - 1 = n + 1
        BY <1>4
      <4> QED
        BY <2>0, <4>1
    <3> QED
      BY <3>1, <3>2, <3>3
  <2> HIDE DEF S
  <2>3. Nat \subseteq S
    BY <2>1, <2>2, Induction
  <2> QED
    BY <1>4, <2>3 DEF S
<1>7. \A i \in 1..last : GetSegment(g[i - 1]) \in Segment
  BY <1>4, <1>5, UnrolledType, TpduFacts
<1>8. \A i \in 1..left : GetSegment(h[i - 1]) \in Segment
  BY <1>2, <1>4, <1>5, UnrolledType, TpduFacts
<1>9. /\ segs \in Seq(Segment) /\ Len(segs) = last
      /\ rest \in Seq(Segment) /\ Len(rest) = left
  BY <1>4, <1>7, <1>8, IsASeq, LenProperties
<1>10. segs[1] = GetSegment(t) /\ \A i \in 1..left : segs[i + 1] = rest[i]
  <2>1. g[0] = t
    BY <1>4, <1>5 DEF Unrolls
  <2>2. segs[1] = GetSegment(g[0])
    BY <1>4
  <2>3. ASSUME NEW i \in 1..left PROVE segs[i + 1] = rest[i]
    <3>1. i + 1 \in 1..last /\ i + 1 - 1 = i /\ i - 1 \in 0..left /\ i - 1 + 1 = i
      BY <1>4
    <3>2. segs[i + 1] = GetSegment(g[i]) /\ rest[i] = GetSegment(h[i - 1])
      BY <3>1
    <3>3. h[i - 1] = g[i]
      BY <1>6, <3>1
    <3> QED
      BY <3>2, <3>3
  <2> QED
    BY <2>1, <2>2, <2>3
<1>11. Len(Segmentation(t)) > 1 => u.payload # <<>>
  <2>1. ASSUME u.payload = <<>> PROVE left = 0
    BY <1>4, <2>1 DEF left
  <2> QED
    BY <1>1, <1>4, <1>9, <2>1
<1> HIDE DEF segs, rest, u
<1>12. segs # <<>>
  BY <1>4, <1>9
<1>13. Tail(segs) = rest
  <2>1. /\ Tail(segs) \in Seq(Segment) /\ Len(Tail(segs)) = left
        /\ \A i \in 1..left : Tail(segs)[i] = segs[i + 1]
    BY <1>4, <1>9, <1>12, HeadTailProperties
  <2> QED
    BY <1>9, <1>10, <2>1, SeqEqual
<1> QED
  BY <1>1, <1>9, <1>10, <1>11, <1>12, <1>13 DEF u

-------------------------------------------------------------------------------
(* What has come of the fragment under way.                                 *)

\* What the receiver x holds and what the transmitter t has left make up the
\* fragment, unless a segment of it was refused.
Joins(x, t, full, addr) ==
    \/ t.tpduCount = 0 /\ t.payload = full
    \/ /\ t.tpduCount # 0
       /\ x.buffer # <<>> => /\ x.buffer \o t.payload = full
                             /\ x.expectedSeq = t.sequence /\ x.lastSource = addr

\* A payload is the segment's and what is left after it.
LEMMA PayloadParts ==
    ASSUME NEW t \in TxType, t.payload # <<>>
    PROVE  LET a == GetSegment(t).payload
               b == TxAdvance(t).payload
           IN  /\ a \in Seq(Byte) /\ b \in Seq(Byte) /\ a # <<>> /\ a \o b = t.payload
               /\ GetSegment(t).fin <=> b = <<>>
               /\ GetSegment(t).fin => a = t.payload
<1> DEFINE p == t.payload
           k == NumToSend(t)
           a == SubSeq(p, 1, k)
           b == SubSeq(p, k + 1, Len(p))
<1>1. p \in Seq(Byte) /\ Len(p) \in Nat \ {0}
  BY DEF TxType
<1>2. k \in 1..Len(p)
  BY <1>1, TransportAssumption DEF NumToSend
<1>3. /\ GetSegment(t).payload = a /\ TxAdvance(t).payload = b
      /\ GetSegment(t).fin <=> k = Len(p)
  BY DEF GetSegment, TxAdvance
<1> HIDE DEF p, k
<1>4. a \in Seq(Byte) /\ b \in Seq(Byte) /\ Len(a) = k /\ Len(b) = Len(p) - k
  BY <1>1, <1>2
<1>5. a \o b = p
  <2>1. SubSeq(p, 1, Len(p)) = p
    BY <1>1, SubSeqFull
  <2>2. a \o b = SubSeq(p, 1, Len(p))
    BY <1>1, <1>2, ConcatAdjacentSubSeq
  <2> QED
    BY <2>1, <2>2
<1>6. k = Len(p) => a = p
  BY <1>1, SubSeqFull
<1>7. a # <<>> /\ (b = <<>> <=> k = Len(p))
  <2>1. a # <<>>
    BY <1>2, <1>4
  <2>2. b = <<>> => k = Len(p)
    <3>1. b = <<>> => Len(b) = 0
      BY EmptySeq
    <3> HIDE DEF a, b
    <3> QED
      BY <1>1, <1>2, <1>4, <3>1
  <2>3. k = Len(p) => b = <<>>
    BY <1>1, <1>2, <1>4, EmptySeq
  <2> QED
    BY <2>1, <2>2, <2>3
<1> HIDE DEF a, b
<1> QED
  BY <1>3, <1>4, <1>5, <1>6, <1>7 DEF p

LEMMA Associative ==
    \A v, w, z \in Seq(Byte) : (v \o w) \o z = v \o (w \o z)
BY ConcatAssociative

\* TransportRx::ProcessReceive of the next segment: the receiver joins it or has
\* refused the fragment, and a fragment it returns is the whole one.
LEMMA JoinsReceive ==
    ASSUME NEW t \in TxType, t.payload # <<>>, NEW x \in RxType, NEW full \in Seq(Byte),
           NEW addr, Joins(x, t, full, addr),
           NEW out, out = ProcessReceive(x, addr, GetSegment(t))
    PROVE  /\ Joins(out.rx, TxAdvance(t), full, addr)
           /\ out.asdu # <<>> => out.asdu = full /\ TxAdvance(t).payload = <<>>
<1> DEFINE seg == GetSegment(t)
           u == TxAdvance(t)
           q == Discarding(x, seg)
           a == seg.payload
           b == u.payload
           j == q.buffer \o a
           none == <<>>
<1>1. /\ a \in Seq(Byte) /\ b \in Seq(Byte) /\ a # none /\ a \o b = t.payload
      /\ seg.fin <=> b = none
      /\ seg.fin => a = t.payload
  BY PayloadParts
<1>2. /\ seg.fir <=> t.tpduCount = 0
      /\ seg.seq = t.sequence /\ u.sequence = NextSeq(t.sequence)
      /\ u.tpduCount # 0 /\ x.buffer \in Seq(Byte) /\ none \in Seq(Byte)
  <2>1. /\ seg.fir = (t.tpduCount = 0) /\ seg.seq = t.sequence
        /\ u.sequence = NextSeq(t.sequence) /\ u.tpduCount = t.tpduCount + 1
    BY DEF GetSegment, TxAdvance
  <2>2. t.tpduCount \in Nat /\ x.buffer \in Seq(Byte)
    BY DEF TxType, RxType
  <2> HIDE DEF seg, u
  <2>3. u.tpduCount # 0
    BY <2>1, <2>2
  <2>4. none \in Seq(Byte)
    OBVIOUS
  <2> HIDE DEF none
  <2>5. seg.fir <=> t.tpduCount = 0
    BY <2>1
  <2> QED
    BY <2>1, <2>2, <2>3, <2>4, <2>5, Zenon
<1>3. /\ seg.fir => q.buffer = none
      /\ ~seg.fir => q = x
  BY DEF Discarding, ClearRxBuffer, RxType
<1>4. ClearRxBuffer(q).buffer = none
  BY DEF Discarding, ClearRxBuffer, RxType
<1> DEFINE y == [buffer |-> IF seg.fin THEN none ELSE j,
                 expectedSeq |-> NextSeq(seg.seq), lastSource |-> addr]
           z == IF seg.fin THEN j ELSE none
<1>5. out = IF ~seg.fir /\ ~Continues(q, addr, seg) THEN [rx |-> q, asdu |-> none]
            ELSE IF ~Fits(q, seg) THEN [rx |-> ClearRxBuffer(q), asdu |-> none]
            ELSE [rx |-> y, asdu |-> z]
  BY DEF ProcessReceive
<1>6. Continues(q, addr, seg) <=> /\ q.buffer # none /\ seg.seq = q.expectedSeq
                                  /\ addr = q.lastSource
  BY DEF Continues
<1>7. Joins(x, t, full, addr) <=>
        \/ t.tpduCount = 0 /\ t.payload = full
        \/ /\ t.tpduCount # 0
           /\ x.buffer # none => /\ x.buffer \o t.payload = full
                                 /\ x.expectedSeq = t.sequence /\ x.lastSource = addr
  BY DEF Joins
<1>8. ASSUME NEW r PROVE Joins(r, u, full, addr) <=>
        (r.buffer # none => /\ r.buffer \o b = full
                            /\ r.expectedSeq = u.sequence /\ r.lastSource = addr)
  <2>1. u.payload = b
    OBVIOUS
  <2> HIDE DEF u, b
  <2>2. none = <<>> /\ u.tpduCount # 0
    BY <1>2
  <2> HIDE DEF none
  <2> QED
    BY <2>1, <2>2 DEF Joins
<1> HIDE DEF q, none, seg, u, b, a
<1>9. CASE ~seg.fir /\ ~Continues(q, addr, seg)
  <2>1. out.rx = q /\ out.asdu = none
    BY <1>5, <1>9
  <2>2. x.buffer = none
    BY <1>2, <1>3, <1>6, <1>7, <1>9
  <2>3. Joins(out.rx, u, full, addr)
    BY <1>3, <1>8, <1>9, <2>1, <2>2
  <2> QED
    BY <2>1, <2>3 DEF none, u, b
<1>10. CASE ~(~seg.fir /\ ~Continues(q, addr, seg)) /\ ~Fits(q, seg)
  <2>1. out.rx = ClearRxBuffer(q) /\ out.asdu = none
    BY <1>5, <1>10
  <2>2. Joins(out.rx, u, full, addr)
    BY <1>4, <1>8, <2>1
  <2> QED
    BY <2>1, <2>2 DEF none, u, b
<1>11. CASE ~(~seg.fir /\ ~Continues(q, addr, seg)) /\ Fits(q, seg)
  <2>1. out.rx = y /\ out.asdu = z
    BY <1>5, <1>11
  <2>2. q.buffer \in Seq(Byte) /\ q.buffer \o t.payload = full
    <3>1. CASE seg.fir
      <4>1. none \o t.payload = t.payload
        BY <1>1, ConcatEmptySeq DEF none, TxType
      <4> QED
        BY <1>2, <1>3, <1>7, <3>1, <4>1
    <3>2. CASE ~seg.fir
      BY <1>2, <1>3, <1>6, <1>7, <1>11, <3>2
    <3> QED
      BY <3>1, <3>2
  <2>3. j \o b = full /\ (seg.fin => j = full)
    <3>0. q.buffer \in Seq(Byte) /\ a \in Seq(Byte) /\ b \in Seq(Byte)
      BY <1>1, <2>2
    <3>1. (q.buffer \o a) \o b = q.buffer \o (a \o b)
      <4> HIDE DEF j, y, z
      <4> QED
        BY <3>0, Associative
    <3> QED
      BY <1>1, <2>2, <3>1
  <2> HIDE DEF j
  <2>4. y.buffer = (IF seg.fin THEN none ELSE j) /\ y.expectedSeq = u.sequence
        /\ y.lastSource = addr
    BY <1>2
  <2>5. Joins(y, u, full, addr)
    BY <1>8, <2>3, <2>4
  <2>6. z # none => z = full /\ b = none
    BY <1>1, <2>3
  <2> HIDE DEF y, z
  <2> QED
    BY <2>1, <2>5, <2>6 DEF none, u, b
<1> QED
  BY <1>9, <1>10, <1>11

-------------------------------------------------------------------------------
(* The fragments passed up and the fragments submitted.                     *)

FragmentType == [asdu : Seq(Byte), excused : BOOLEAN]
Good(frs) == {i \in DOMAIN frs : ~frs[i].excused}
Numbered(subs) == \A k \in DOMAIN subs : subs[k] # <<>> /\ subs[k][1][1] = k
Ordered(frs, subs) ==
    /\ \A i \in Good(frs) : \E k \in DOMAIN subs : frs[i].asdu = subs[k]
    /\ \A i, j \in Good(frs) : i < j => frs[i].asdu[1][1] < frs[j].asdu[1][1]
Told(frs, subs) == Numbered(subs) /\ Ordered(frs, subs)
Fresh(frs, k) == \A i \in Good(frs) : frs[i].asdu[1][1] < k

Submits(subs, f, more) ==
    /\ f \in Seq(Byte) /\ f # <<>> /\ f[1][1] = Len(subs) + 1
    /\ more = Append(subs, f)

\* A fragment is submitted: none of those passed up is it.
LEMMA OrderedSubmit ==
    ASSUME NEW frs, NEW subs \in Seq(Seq(Byte)), Numbered(subs), Ordered(frs, subs),
           NEW f, NEW more, Submits(subs, f, more)
    PROVE  /\ Numbered(more) /\ Ordered(frs, more) /\ Fresh(frs, Len(more))
           /\ more # <<>> /\ more[Len(more)] = f
<1> /\ f \in Seq(Byte) /\ f # <<>> /\ f[1][1] = Len(subs) + 1
    /\ more = Append(subs, f)
  BY DEF Submits
<1>1. /\ more \in Seq(Seq(Byte))
      /\ \A i \in DOMAIN more : \/ i \in DOMAIN subs /\ more[i] = subs[i]
                                \/ i = Len(subs) + 1 /\ more[i] = f
      /\ \A i \in DOMAIN subs : i \in DOMAIN more /\ more[i] = subs[i]
  BY AppendIndex
<1>2. Len(more) = Len(subs) + 1 /\ more[Len(subs) + 1] = f /\ Len(subs) \in Nat
  BY AppendProperties, LenProperties
<1>3. more # <<>>
  BY <1>2
<1>4. Numbered(more)
  BY <1>1 DEF Numbered
<1>5. Ordered(frs, more)
  <2>1. ASSUME NEW i \in Good(frs) PROVE \E k \in DOMAIN more : frs[i].asdu = more[k]
    <3>1. PICK k \in DOMAIN subs : frs[i].asdu = subs[k]
      BY DEF Ordered
    <3>2. k \in DOMAIN more /\ frs[i].asdu = more[k]
      BY <1>1, <3>1, Zenon
    <3> QED
      BY <3>2, Zenon
  <2> QED
    BY <2>1, Zenon DEF Ordered
<1>6. Fresh(frs, Len(more))
  <2>1. \A k \in DOMAIN subs : k \in Nat /\ k < Len(subs) + 1
    BY LenProperties
  <2>2. ASSUME NEW i \in Good(frs) PROVE frs[i].asdu[1][1] < Len(subs) + 1
    <3>1. PICK k \in DOMAIN subs : frs[i].asdu = subs[k]
      BY DEF Ordered
    <3>2. frs[i].asdu[1][1] = k
      BY <3>1 DEF Numbered
    <3> QED
      BY <2>1, <3>1, <3>2
  <2> QED
    BY <1>2, <2>2 DEF Fresh
<1> QED
  BY <1>2, <1>3, <1>4, <1>5, <1>6

\* The fragment submitted last is passed up.
LEMMA OrderedPass ==
    ASSUME NEW frs \in Seq(FragmentType), NEW subs \in Seq(Seq(Byte)), Ordered(frs, subs),
           subs # <<>>, Numbered(subs), Fresh(frs, Len(subs)),
           NEW p \in FragmentType, p.asdu = subs[Len(subs)],
           NEW more, more = Append(frs, p)
    PROVE  Ordered(more, subs)
<1>1. /\ \A i \in DOMAIN more : \/ i \in DOMAIN frs /\ more[i] = frs[i] /\ i < Len(frs) + 1
                                \/ i = Len(frs) + 1 /\ more[i] = p
  BY AppendIndex
<1>2. /\ DOMAIN frs = 1 .. Len(frs) /\ Len(frs) \in Nat
      /\ DOMAIN subs = 1 .. Len(subs) /\ Len(subs) \in Nat \ {0}
  BY LenProperties, EmptySeq
<1>3. Len(subs) \in DOMAIN subs /\ p.asdu[1][1] = Len(subs)
  <2>1. Len(subs) \in DOMAIN subs
    BY <1>2
  <2>2. subs[Len(subs)][1][1] = Len(subs)
    BY <2>1, Zenon DEF Numbered
  <2> QED
    BY <2>1, <2>2, Zenon
<1>4. \A i \in Good(more) : i \in Good(frs) \/ i = Len(frs) + 1
  BY <1>1 DEF Good
<1>5. \A i \in Good(frs) : i \in DOMAIN frs /\ i < Len(frs) + 1
  BY <1>2 DEF Good
<1>6. \A i \in Good(more) : \/ i \in Good(frs) /\ more[i] = frs[i]
                            \/ i = Len(frs) + 1 /\ more[i] = p
  BY <1>1 DEF Good
<1>7. ASSUME NEW i \in Good(more), NEW j \in Good(more), i < j
      PROVE  more[i].asdu[1][1] < more[j].asdu[1][1]
  <2>1. i \in Good(frs) /\ more[i] = frs[i]
    <3>1. CASE i = Len(frs) + 1
      <4>1. j \in Nat /\ j <= Len(frs) + 1
        BY <1>2, <1>4, <1>5
      <4> QED
        BY <1>2, <1>7, <3>1, <4>1
    <3> QED
      BY <1>6, <3>1
  <2>2. CASE j \in Good(frs) /\ more[j] = frs[j]
    BY <1>7, <2>1, <2>2 DEF Ordered
  <2>3. CASE j = Len(frs) + 1 /\ more[j] = p
    BY <1>3, <2>1, <2>3 DEF Fresh
  <2> QED
    BY <1>6, <2>2, <2>3
<1>8. ASSUME NEW i \in Good(more)
      PROVE  \E k \in DOMAIN subs : more[i].asdu = subs[k]
  BY <1>3, <1>6 DEF Ordered
<1> QED
  BY <1>7, <1>8 DEF Ordered

\* A fragment is passed up after the retries of a segment ran out.
LEMMA OrderedBad ==
    ASSUME NEW frs \in Seq(FragmentType), NEW subs, Ordered(frs, subs),
           NEW p \in FragmentType, p.excused, NEW more, more = Append(frs, p)
    PROVE  Ordered(more, subs)
<1>1. \A i \in DOMAIN more : \/ i \in DOMAIN frs /\ more[i] = frs[i]
                             \/ i = Len(frs) + 1 /\ more[i] = p
  BY AppendIndex
<1>2. \A i \in Good(more) : i \in Good(frs) /\ more[i] = frs[i]
  BY <1>1 DEF Good
<1> QED
  BY <1>2 DEF Ordered

-------------------------------------------------------------------------------
(* The fragment under way.  It has come as far as the transmitter's segment  *)
(* or, when the receiver has that segment and the sender not its             *)
(* acknowledgement, one segment further.                                     *)

Come(P, S) == Sending(P) /\ Listening(S) /\ S.fcb # P.fcb
UpTo(P, S, t) == IF Come(P, S) THEN TxAdvance(t) ELSE t

InHand(P, S, t, x, frs, subs) ==
    /\ subs # <<>> /\ t.payload # <<>> /\ P.segs = Segmentation(t)
    /\ Joins(x, UpTo(P, S, t), subs[Len(subs)], P.addr)
    /\ UpTo(P, S, t).payload # <<>> => Fresh(frs, Len(subs))

Carried(P, S, t, x, frs, subs, gave) ==
    /\ Numbered(subs) /\ Ordered(frs, subs)
    /\ ~gave /\ P.segs # <<>> => InHand(P, S, t, x, frs, subs)

LEMMA CarriedKept ==
    ASSUME NEW P, NEW S, NEW t, NEW x, NEW frs, NEW subs, NEW gave,
           Carried(P, S, t, x, frs, subs, gave),
           NEW Q, NEW R, NEW gave2, Q.segs = P.segs, Q.addr = P.addr,
           ~gave2 => ~gave /\ (Come(Q, R) <=> Come(P, S))
    PROVE  Carried(Q, R, t, x, frs, subs, gave2)
  BY DEF Carried, InHand, UpTo

LEMMA CarriedSame ==
    ASSUME NEW P, NEW S, NEW t, NEW x, NEW frs, NEW subs, NEW gave,
           Carried(P, S, t, x, frs, subs, gave),
           NEW Q, NEW R, Q.segs = P.segs, Q.addr = P.addr, Come(Q, R) <=> Come(P, S)
    PROVE  Carried(Q, R, t, x, frs, subs, gave)
  BY DEF Carried, InHand, UpTo

LEMMA CarriedNothing ==
    ASSUME NEW P, NEW S, NEW t, NEW x, NEW frs, NEW subs, NEW gave,
           Carried(P, S, t, x, frs, subs, gave),
           NEW Q, NEW R, NEW u, NEW y, NEW gave2, Q.segs = <<>>
    PROVE  Carried(Q, R, u, y, frs, subs, gave2)
  BY DEF Carried

LEMMA ThenCarried ==
    ASSUME NEW P, NEW S, NEW req, NEW ans, NEW gave, Exchange(P, S, req, ans, gave),
           NEW t, NEW x, NEW frs, NEW subs, Carried(P, S, t, x, frs, subs, gave),
           NEW R, Then(P, R)
    PROVE  Carried(R, S, t, x, frs, subs, gave)
<1>1. CASE R = P
  BY <1>1
<1>2. CASE Starts(P, R)
  <2>1. R.segs = P.segs /\ R.addr = P.addr /\ R.fcb = P.fcb /\ ~Sending(P)
        /\ (Sending(R) => P.reset)
    BY <1>2 DEF Starts, Sending
  <2>2. ~gave => ~Come(R, S) /\ ~Come(P, S)
    BY <2>1 DEF Come, Exchange, InStep
  <2> QED
    BY <2>1, <2>2, CarriedKept
<1> QED
  BY <1>1, <1>2 DEF Then

\* The primary station and its acknowledgement: the transmitter advances when the
\* one of a segment arrives.
LEMMA AckCarried ==
    ASSUME NEW P, NEW S, NEW req, NEW ans, NEW gave, Exchange(P, S, req, ans, gave),
           NEW t \in TxType, NEW x, NEW frs, NEW subs, Carried(P, S, t, x, frs, subs, gave),
           ans # <<>>, Head(ans).func = "SEC_ACK", NEW Q, AckStep(P, Q),
           NEW u, u = IF P.state = "ConfDataWait" THEN TxAdvance(t) ELSE t
    PROVE  Carried(Q, S, u, x, frs, subs, gave)
<1>1. /\ P.state = "ConfDataWait" => P.reset /\ Listening(S) /\ S.fcb # P.fcb
      /\ P.state = "ResetLinkWait" => Listening(S) /\ S.fcb
  BY ReceiveAck
<1>2. DirType(P, S, req, ans, gave) /\ States(P)
  BY DEF Exchange
<1>3. CASE P.state = "ResetLinkWait"
  <2>1. u = t /\ Q.segs = P.segs /\ Q.fcb = TRUE /\ S.fcb = TRUE /\ ~Sending(P)
        /\ Q.addr = P.addr
    BY <1>1, <1>2, <1>3 DEF AckStep, Sending, DirType
  <2>2. ~Come(P, S) /\ ~Come(Q, S)
    BY <2>1 DEF Come
  <2> QED
    BY <2>1, <2>2, CarriedKept
<1>4. CASE P.state = "ConfDataWait"
  <2>1. /\ Q.fcb = ~P.fcb /\ Q.addr = P.addr
        /\ \/ Q.segs = <<>>
           \/ Q.segs = Tail(P.segs) /\ Len(P.segs) > 1
    BY <1>4 DEF AckStep
  <2>2. S.fcb = Q.fcb /\ Sending(P) /\ P.segs # <<>>
    BY <1>1, <1>2, <1>4, <2>1 DEF States, Sending, DirType
  <2>3. Come(P, S) /\ ~Come(Q, S)
    BY <1>1, <1>4, <2>2 DEF Come
  <2>4. CASE Q.segs = <<>>
    BY <2>4, CarriedNothing
  <2>5. CASE Q.segs = Tail(P.segs) /\ Len(P.segs) > 1
    <3>1. CASE gave
      BY <3>1 DEF Carried
    <3>2. CASE ~gave
      <4>1. InHand(P, S, t, x, frs, subs) /\ Numbered(subs) /\ Ordered(frs, subs)
        BY <2>2, <3>2 DEF Carried
      <4>2. /\ subs # <<>> /\ t.payload # <<>> /\ P.segs = Segmentation(t)
            /\ Joins(x, TxAdvance(t), subs[Len(subs)], P.addr)
            /\ TxAdvance(t).payload # <<>> => Fresh(frs, Len(subs))
        BY <2>3, <4>1 DEF InHand, UpTo
      <4>3. Q.segs = Segmentation(u) /\ u.payload # <<>> /\ u = TxAdvance(t)
        BY <1>4, <2>5, <4>2, SegmentationTail
      <4>4. UpTo(Q, S, u) = u
        BY <2>3 DEF UpTo
      <4>5. InHand(Q, S, u, x, frs, subs)
        BY <2>1, <4>2, <4>3, <4>4 DEF InHand
      <4> QED
        BY <4>1, <4>5 DEF Carried
    <3> QED
      BY <3>1, <3>2
  <2> QED
    BY <2>1, <2>4, <2>5
<1>5. CASE P.state \notin {"ResetLinkWait", "ConfDataWait"}
  <2>1. Q = P /\ u = t
    BY <1>5 DEF AckStep
  <2> QED
    BY <2>1
<1> QED
  BY <1>3, <1>4, <1>5

LEMMA AnswerCarried ==
    ASSUME NEW P, NEW S, NEW req, NEW ans, NEW gave, Exchange(P, S, req, ans, gave),
           NEW t \in TxType, NEW x, NEW frs, NEW subs, Carried(P, S, t, x, frs, subs, gave),
           ans # <<>>, NEW R, AnswerStep(P, R, Head(ans)),
           NEW advances,
           advances => /\ Head(ans).func = "SEC_ACK" /\ P.state = "ConfDataWait"
                       /\ \E Q : AckStep(P, Q) /\ Then(Q, R),
           ~advances => R = P \/ Head(ans).func # "SEC_ACK" \/ P.state # "ConfDataWait",
           NEW u, u = IF advances THEN TxAdvance(t) ELSE t
    PROVE  Carried(R, S, u, x, frs, subs, gave)
<1>1. CASE R = P /\ ~advances
  BY <1>1
<1>2. ASSUME Head(ans).func = "SEC_ACK", NEW Q, AckStep(P, Q), Then(Q, R),
             u = IF P.state = "ConfDataWait" THEN TxAdvance(t) ELSE t
      PROVE  Carried(R, S, u, x, frs, subs, gave)
  <2>1. Exchange(Q, S, req, Tail(ans), gave)
    BY <1>2, ReceiveAck
  <2>2. Carried(Q, S, u, x, frs, subs, gave)
    BY <1>2, AckCarried
  <2> QED
    BY <1>2, <2>1, <2>2, ThenCarried
<1>3. ASSUME Head(ans).func = "SEC_LINK_STATUS", NEW Q,
             P.state \in {"ResetLinkWait", "ConfDataWait"} \/ StatusStep(P, Q), Then(Q, R)
      PROVE  Carried(R, S, u, x, frs, subs, gave)
  <2>1. Exchange(Q, S, req, Tail(ans), gave)
    BY <1>3, ReceiveStatus
  <2>2. AnswerTo(P, S, Head(ans))
    BY <1>3, AnswerAlone DEF SecFunction
  <2>3. Asking(P)
    BY <1>3, <2>2 DEF AnswerTo
  <2>4. ~Sending(P) /\ ~Sending(Q) /\ Q.segs = P.segs /\ Q.addr = P.addr
    BY <1>3, <2>3 DEF Asking, Sending, StatusStep
  <2>5. u = t
    BY <1>3
  <2>6. Carried(Q, S, t, x, frs, subs, gave)
    BY <2>4, CarriedKept DEF Come
  <2> QED
    BY <1>3, <2>1, <2>5, <2>6, ThenCarried
<1>4. CASE advances
  <2>1. PICK Q : AckStep(P, Q) /\ Then(Q, R)
    BY <1>4
  <2>2. Head(ans).func = "SEC_ACK" /\ u = IF P.state = "ConfDataWait" THEN TxAdvance(t) ELSE t
    BY <1>4
  <2> QED
    BY <1>2, <2>1, <2>2
<1>5. CASE ~advances /\ R # P
  <2>1. CASE Head(ans).func = "SEC_ACK" /\ \E Q : AckStep(P, Q) /\ Then(Q, R)
    <3>1. u = IF P.state = "ConfDataWait" THEN TxAdvance(t) ELSE t
      BY <1>5, <2>1
    <3> QED
      BY <1>2, <2>1, <3>1
  <2>2. CASE /\ Head(ans).func = "SEC_LINK_STATUS"
             /\ \E Q : (P.state \in {"ResetLinkWait", "ConfDataWait"} \/ StatusStep(P, Q)) /\ Then(Q, R)
    BY <1>3, <2>2
  <2> QED
    BY <1>5, <2>1, <2>2 DEF AnswerStep
<1> QED
  BY <1>1, <1>4, <1>5

\* The secondary station and the receiver above it.
LEMMA RequestCarried ==
    ASSUME NEW P, NEW S, NEW req, NEW ans, NEW gave, Exchange(P, S, req, ans, gave),
           NEW t \in TxType, NEW x \in RxType, NEW frs \in Seq(FragmentType),
           NEW subs \in Seq(Seq(Byte)), Carried(P, S, t, x, frs, subs, gave),
           req # <<>>, NEW R, NEW up, RequestStep(S, R, Head(req), up),
           NEW out, out.asdu \in Seq(Byte),
           up = <<>> => out.rx = x /\ out.asdu = <<>>,
           up # <<>> => out = ProcessReceive(x, Head(req).src, Head(up)),
           NEW frs2, frs2 = IF out.asdu = <<>> THEN frs
                            ELSE Append(frs, [asdu |-> out.asdu, excused |-> gave])
    PROVE  Carried(P, R, t, out.rx, frs2, subs, gave)
<1> DEFINE f == Head(req)
<1>1. DirType(P, S, req, ans, gave) /\ States(P)
  BY DEF Exchange
<1>2. CASE up = <<>>
  <2>1. out.rx = x /\ frs2 = frs
    BY <1>2
  <2>2. Come(P, R) <=> Come(P, S)
    <3>1. CASE R = S
      BY <3>1
    <3>2. CASE f.func = "PRI_RESET_LINK_STATES"
      <4>1. RequestOf(P, f)
        BY <3>2, RequestAlone DEF PriFunction
      <4>2. ~Sending(P)
        BY <3>2, <4>1 DEF RequestOf, Resetting, Sending
      <4> QED
        BY <4>2 DEF Come
    <3>3. CASE (Listening(R) <=> Listening(S)) /\ R.fcb = S.fcb
      BY <3>3 DEF Come
    <3>4. CASE S.state = "Reset" /\ R.state = "TransmitWaitReset" /\ R.fcb = S.fcb
      BY <3>4 DEF Come, Listening
    <3> QED
      BY <1>2, <3>1, <3>2, <3>3, <3>4 DEF RequestStep
  <2> QED
    BY <2>1, <2>2, CarriedKept
<1>3. CASE up # <<>>
  <2>1. /\ f.func = "PRI_CONFIRMED_USER_DATA" /\ S.state = "Reset" /\ f.fcb = S.fcb
        /\ up = <<f.data>>
        /\ R.state = "TransmitWaitReset" /\ R.fcb = ~S.fcb /\ Answers(R, "SEC_ACK")
    BY <1>3 DEF RequestStep
  <2>2. /\ Sending(P) /\ P.segs # <<>> /\ f.data = Head(P.segs) /\ f.fcb = P.fcb
        /\ f.src = P.addr /\ R.fcb # P.fcb
    BY <2>1, ReceiveData
  <2>3. ~Come(P, S) /\ Come(P, R) /\ Head(up) = f.data
    BY <2>1, <2>2 DEF Come, Listening
  <2> DEFINE p == [asdu |-> out.asdu, excused |-> gave]
  <2>4. p \in FragmentType /\ p.asdu = out.asdu /\ p.excused = gave
    BY <1>1 DEF FragmentType, DirType
  <2>5. frs2 = IF out.asdu = <<>> THEN frs ELSE Append(frs, p)
    OBVIOUS
  <2> HIDE DEF p, f
  <2>6. CASE gave
    <3>1. Numbered(subs) /\ Ordered(frs, subs)
      BY DEF Carried
    <3>2. Ordered(Append(frs, p), subs)
      BY <2>4, <2>6, <3>1, OrderedBad
    <3> QED
      BY <2>5, <2>6, <3>1, <3>2 DEF Carried
  <2>7. CASE ~gave
    <3> DEFINE full == subs[Len(subs)]
    <3>1. InHand(P, S, t, x, frs, subs) /\ Numbered(subs) /\ Ordered(frs, subs)
      BY <2>2, <2>7 DEF Carried
    <3>2. /\ subs # <<>> /\ t.payload # <<>> /\ P.segs = Segmentation(t)
          /\ Joins(x, t, full, P.addr) /\ Fresh(frs, Len(subs))
      BY <2>3, <3>1 DEF InHand, UpTo
    <3>3. full \in Seq(Byte)
      BY <3>2
    <3> HIDE DEF full
    <3>4. out = ProcessReceive(x, P.addr, GetSegment(t))
      BY <1>3, <2>2, <2>3, <3>2, SegmentationTail DEF f
    <3>5. /\ Joins(out.rx, TxAdvance(t), full, P.addr)
          /\ out.asdu # <<>> => out.asdu = full /\ TxAdvance(t).payload = <<>>
      BY <3>2, <3>3, <3>4, JoinsReceive
    <3>6. Ordered(frs2, subs)
      <4>1. CASE out.asdu = <<>>
        BY <2>5, <3>1, <4>1
      <4>2. CASE out.asdu # <<>>
        <5>1. p.asdu = subs[Len(subs)] /\ frs2 = Append(frs, p)
          BY <2>4, <2>5, <3>5, <4>2 DEF full
        <5> QED
          BY <2>4, <3>1, <3>2, <5>1, OrderedPass
      <4> QED
        BY <4>1, <4>2
    <3>7. TxAdvance(t).payload # <<>> => Fresh(frs2, Len(subs))
      BY <2>5, <3>2, <3>5
    <3>8. InHand(P, R, t, out.rx, frs2, subs)
      BY <2>3, <3>2, <3>5, <3>7 DEF InHand, UpTo, full
    <3> QED
      BY <3>1, <3>6, <3>8 DEF Carried
  <2> QED
    BY <2>6, <2>7
<1> QED
  BY <1>2, <1>3

LEMMA TimeoutCarried ==
    ASSUME NEW P, NEW S, NEW t, NEW x, NEW frs, NEW subs, NEW gave,
           Carried(P, S, t, x, frs, subs, gave), NEW Q, TimeoutStep(P, Q),
           NEW gave2, gave => gave2
    PROVE  Carried(Q, S, t, x, frs, subs, gave2)
<1>1. Q.fcb = P.fcb /\ Q.addr = P.addr
  BY DEF TimeoutStep
<1>2. CASE Q.segs = <<>>
  BY <1>2, CarriedNothing
<1>3. CASE Q.segs = P.segs /\ (Sending(Q) <=> Sending(P))
  BY <1>1, <1>3, CarriedKept DEF Come
<1> QED
  BY <1>2, <1>3 DEF TimeoutStep, Sending

\* A fragment is submitted and given to the link layer.
LEMMA SendCarried ==
    ASSUME NEW P, NEW S, NEW req, NEW ans, NEW gave, Exchange(P, S, req, ans, gave),
           P.segs = <<>>,
           NEW t, NEW x, NEW frs, NEW subs \in Seq(Seq(Byte)),
           Carried(P, S, t, x, frs, subs, gave),
           NEW f, NEW more, Submits(subs, f, more),
           NEW u \in TxType, u.tpduCount = 0, u.payload = f,
           NEW Q, Q.state = P.state, Q.segs = Segmentation(u)
    PROVE  Carried(Q, S, u, x, frs, more, gave)
<1>1. Numbered(subs) /\ Ordered(frs, subs)
  BY DEF Carried
<1>2. /\ Numbered(more) /\ Ordered(frs, more) /\ Fresh(frs, Len(more))
      /\ more # <<>> /\ more[Len(more)] = f
  BY <1>1, OrderedSubmit
<1>3. ~Come(Q, S)
  BY DEF Exchange, States, Sending, Come
<1>4. UpTo(Q, S, u) = u
  BY <1>3 DEF UpTo
<1>5. InHand(Q, S, u, x, frs, more)
  <2> DEFINE full == more[Len(more)]
  <2>1. full = u.payload
    BY <1>2
  <2> HIDE DEF full
  <2>2. Joins(x, u, full, Q.addr)
    BY <2>1 DEF Joins
  <2>3. u.payload # <<>>
    BY DEF Submits
  <2> QED
    BY <1>2, <1>4, <2>2, <2>3, Zenon DEF InHand, full
<1> QED
  BY <1>2, <1>5 DEF Carried

-------------------------------------------------------------------------------
(* The inductive invariant of the stack whose ends confirm.                  *)

\* Both ends send with confirmation (LinkConfig::UseConfirms).
BothConfirm == \A n \in Node : NodeConfig[n].UseConfirms

\* Nothing is under way at an end without a connection.
Off(c, w, inbound) ==
    ~w /\ inbound = <<>> /\ c.tx = <<>> /\ c.pPriState = "Idle" /\ ~c.isRemoteReset

EndIs(c, w, inbound, config, online) ==
    /\ c.config = config /\ c.up = <<>> /\ Live(c)
    /\ ~online => Off(c, w, inbound)

\* Whether n gave up: the receiver has nothing to give up.
Gave(n, g) == IF n = sender THEN g ELSE FALSE

Linked(lk, wr, wi, g, n, m) ==
    Exchange(Pri(lk[n], wr[n]), Sec(lk[m], wr[m]), wi[m], wi[n], Gave(n, g))

CarriedOn(lk, wr, t, x, frs, subs, g) ==
    Carried(Pri(lk[sender], wr[sender]), Sec(lk[receiver], wr[receiver]), t, x, frs, subs, g)

FragInv ==
    /\ \A n \in Node : EndIs(link[n], written[n], wire[n], NodeConfig[n], transport.isOnline)
    /\ \A n \in Node : Linked(link, written, wire, gaveUp, n, Peer(n))
    /\ ~HasSegments(link[receiver])
    /\ CarriedOn(link, written, transmitter, rx, fragments, submitted, gaveUp)

LEMMA TwoEnds ==
    ASSUME NEW n \in Node, NEW m, m = Peer(n)
    PROVE  /\ m \in Node /\ m # n /\ Peer(m) = n /\ \A k \in Node : k = n \/ k = m
           /\ sender \in Node /\ receiver \in Node
           /\ \/ n = sender /\ m = receiver
              \/ n = receiver /\ m = sender
  BY EndsAssumption DEF Node, Peer

\* The invariant, said of one end and its peer.
LEMMA FragUse ==
    ASSUME StackInv, FragInv, NEW n \in Node, NEW m, m = Peer(n)
    PROVE  /\ EndIs(link[n], written[n], wire[n], NodeConfig[n], transport.isOnline)
           /\ EndIs(link[m], written[m], wire[m], NodeConfig[m], transport.isOnline)
           /\ Exchange(Pri(link[n], written[n]), Sec(link[m], written[m]), wire[m], wire[n],
                       Gave(n, gaveUp))
           /\ Exchange(Pri(link[m], written[m]), Sec(link[n], written[n]), wire[n], wire[m],
                       Gave(m, gaveUp))
           /\ n = sender => Carried(Pri(link[n], written[n]), Sec(link[m], written[m]),
                                    transmitter, rx, fragments, submitted, gaveUp)
           /\ n = receiver => /\ Carried(Pri(link[m], written[m]), Sec(link[n], written[n]),
                                         transmitter, rx, fragments, submitted, gaveUp)
                              /\ ~HasSegments(link[n])
<1>1. /\ m \in Node /\ Peer(m) = n /\ m # n
      /\ \/ n = sender /\ m = receiver
         \/ n = receiver /\ m = sender
  BY TwoEnds
<1>2. /\ Linked(link, written, wire, gaveUp, n, m) /\ Linked(link, written, wire, gaveUp, m, n)
      /\ CarriedOn(link, written, transmitter, rx, fragments, submitted, gaveUp)
      /\ ~HasSegments(link[receiver])
  BY <1>1 DEF FragInv
<1>3. /\ EndIs(link[n], written[n], wire[n], NodeConfig[n], transport.isOnline)
      /\ EndIs(link[m], written[m], wire[m], NodeConfig[m], transport.isOnline)
  BY <1>1 DEF FragInv
<1> QED
  BY <1>1, <1>2, <1>3 DEF Linked, CarriedOn

LEMMA FragBuild ==
    ASSUME NEW n \in Node, NEW m, m = Peer(n),
           EndIs(link'[n], written'[n], wire'[n], NodeConfig[n], transport'.isOnline),
           EndIs(link'[m], written'[m], wire'[m], NodeConfig[m], transport'.isOnline),
           Exchange(Pri(link'[n], written'[n]), Sec(link'[m], written'[m]), wire'[m], wire'[n],
                    Gave(n, gaveUp')),
           Exchange(Pri(link'[m], written'[m]), Sec(link'[n], written'[n]), wire'[n], wire'[m],
                    Gave(m, gaveUp')),
           ~HasSegments(link'[receiver]),
           n = sender => Carried(Pri(link'[n], written'[n]), Sec(link'[m], written'[m]),
                                 transmitter', rx', fragments', submitted', gaveUp'),
           n = receiver => Carried(Pri(link'[m], written'[m]), Sec(link'[n], written'[n]),
                                   transmitter', rx', fragments', submitted', gaveUp')
    PROVE  FragInv'
<1>1. /\ m \in Node /\ Peer(m) = n /\ m # n /\ \A k \in Node : k = n \/ k = m
      /\ \/ n = sender /\ m = receiver
         \/ n = receiver /\ m = sender
  BY TwoEnds
<1>2. /\ Linked(link', written', wire', gaveUp', n, m)
      /\ Linked(link', written', wire', gaveUp', m, n)
  BY DEF Linked
<1>3. CarriedOn(link', written', transmitter', rx', fragments', submitted', gaveUp')
  BY <1>1 DEF CarriedOn
<1>4. \A k \in Node : EndIs(link'[k], written'[k], wire'[k], NodeConfig[k], transport'.isOnline)
  BY <1>1
<1>5. \A k \in Node : Linked(link', written', wire', gaveUp', k, Peer(k))
  BY <1>1, <1>2
<1> QED
  BY <1>3, <1>4, <1>5 DEF FragInv

\* What an end gives to the lemmas about its handlers.
LEMMA EndFacts ==
    ASSUME StackInv, FragInv, BothConfirm, NEW n \in Node
    PROVE  /\ Full(link[n]) /\ Live(link[n]) /\ link[n] \in LinkContextType
           /\ link[n].up = <<>> /\ link[n].config = NodeConfig[n] /\ link[n].config.UseConfirms
           /\ Base(link[n]) /\ SecAccounting(link[n]) /\ Work(link[n])
           /\ written[n] \in BOOLEAN /\ wire[n] \in Seq(Frame)
           /\ link[n].isOnline = transport.isOnline
           /\ transport.isOnline => Open(link[n], written[n])
           /\ ~transport.isOnline => Off(link[n], written[n], wire[n])
<1>1. /\ Full(link[n]) /\ link[n].isOnline = transport.isOnline
      /\ written[n] => link[n].tx # <<>>
  BY NodeFacts
<1>2. EndIs(link[n], written[n], wire[n], NodeConfig[n], transport.isOnline)
  BY FragUse
<1>3. written[n] \in BOOLEAN /\ wire[n] \in Seq(Frame)
  BY DEF StackInv, TypeOK
<1>4. NodeConfig[n].UseConfirms
  BY DEF BothConfirm
<1> QED
  BY <1>1, <1>2, <1>3, <1>4 DEF EndIs, Open, Full, Base

\* The segments that a handler passed up are taken out of the context.
LEMMA UpTaken ==
    ASSUME NEW r, Full(r), Live(r), NEW w, NEW e, e = [r EXCEPT !.up = <<>>]
    PROVE  /\ Live(e) /\ e.config = r.config /\ e.up = <<>> /\ e.tx = r.tx
           /\ e.pPriState = r.pPriState /\ e.isRemoteReset = r.isRemoteReset
           /\ Pri(e, w) = Pri(r, w) /\ Sec(e, w) = Sec(r, w)
           /\ HasSegments(e) <=> HasSegments(r)
<1> DEFINE none == <<>>
<1>1. r \in LinkContextType /\ e = [r EXCEPT !.up = none]
  BY DEF Full, Base
<1> HIDE DEF none
<1>2. /\ e.config = r.config /\ e.up = none /\ e.tx = r.tx /\ e.txMode = r.txMode
      /\ e.pPriState = r.pPriState /\ e.isRemoteReset = r.isRemoteReset
      /\ e.pSecState = r.pSecState /\ e.nextReadFCB = r.nextReadFCB
      /\ e.nextWriteFCB = r.nextWriteFCB /\ e.pSegments = r.pSegments
      /\ e.pendingPriTx = r.pendingPriTx /\ e.pendingSecTx = r.pendingSecTx
  BY <1>1 DEF LinkContextType
<1> QED
  BY <1>2 DEF Live, Pri, Sec, PriOut, SecOut, HasSegments, none

\* A handler has run at n.
LEMMA HandlerFrag ==
    ASSUME StackInv, FragInv, BothConfirm, NEW n \in Node, NEW m, m = Peer(n),
           NEW r, Become(n, r), Full(r), Live(r), r.config = NodeConfig[n],
           n = receiver => ~HasSegments(r),
           NEW w, written' = [written EXCEPT ![n] = w],
           NEW in, wire' = [wire EXCEPT ![n] = in],
           transport'.isOnline = transport.isOnline, ~transport.isOnline => Off(r, w, in),
           Exchange(Pri(r, w), Sec(link[m], written[m]), wire[m], in, Gave(n, gaveUp')),
           Exchange(Pri(link[m], written[m]), Sec(r, w), in, wire[m], Gave(m, gaveUp')),
           n = sender => Carried(Pri(r, w), Sec(link[m], written[m]),
                                 transmitter', rx', fragments', submitted', gaveUp'),
           n = receiver => Carried(Pri(link[m], written[m]), Sec(r, w),
                                   transmitter', rx', fragments', submitted', gaveUp')
    PROVE  FragInv'
<1> DEFINE e == [r EXCEPT !.up = <<>>]
<1>1. /\ Live(e) /\ e.config = r.config /\ e.up = <<>> /\ e.tx = r.tx
      /\ e.pPriState = r.pPriState /\ e.isRemoteReset = r.isRemoteReset
      /\ Pri(e, w) = Pri(r, w) /\ Sec(e, w) = Sec(r, w)
      /\ HasSegments(e) <=> HasSegments(r)
  BY UpTaken
<1>2. link' = [link EXCEPT ![n] = e]
  BY DEF Become
<1> HIDE DEF e
<1>3. /\ m \in Node /\ Peer(m) = n /\ m # n
      /\ \/ n = sender /\ m = receiver
         \/ n = receiver /\ m = sender
  BY TwoEnds
<1>4. TypeOK
  BY DEF StackInv
<1>5. link'[n] = e /\ link'[m] = link[m]
  BY <1>2, <1>3, <1>4 DEF TypeOK
<1>6. written'[n] = w /\ written'[m] = written[m] /\ wire'[n] = in /\ wire'[m] = wire[m]
  BY <1>3, <1>4 DEF TypeOK
<1>7. EndIs(link'[n], written'[n], wire'[n], NodeConfig[n], transport'.isOnline)
  BY <1>1, <1>5, <1>6 DEF EndIs, Off
<1>8. EndIs(link'[m], written'[m], wire'[m], NodeConfig[m], transport'.isOnline)
  BY <1>5, <1>6, FragUse
<1>9. ~HasSegments(link'[receiver])
  BY <1>1, <1>3, <1>5 DEF FragInv
<1> QED
  BY <1>1, <1>3, <1>5, <1>6, <1>7, <1>8, <1>9, FragBuild

-------------------------------------------------------------------------------
\* Each action keeps it.

\* The completion of a send reaches the transport layer.
LEMMA RunPostedFrag ==
    ASSUME StackInv, FragInv, BothConfirm, RunPosted
    PROVE  FragInv'
<1> DEFINE n == sender
           m == Peer(n)
           c == link[n]
           w == written[n]
           k == c.posted - 1
           r == [c EXCEPT !.posted = k]
<1>1. /\ n \in Node /\ m = receiver /\ n # receiver
  BY EndsAssumption DEF Node, Peer
<1>2. /\ Full(c) /\ Live(c) /\ c \in LinkContextType /\ c.config = NodeConfig[n]
      /\ ~transport.isOnline => Off(c, w, wire[n])
  BY <1>1, EndFacts
<1>3. /\ Exchange(Pri(c, w), Sec(link[m], written[m]), wire[m], wire[n], Gave(n, gaveUp))
      /\ Exchange(Pri(link[m], written[m]), Sec(c, w), wire[n], wire[m], Gave(m, gaveUp))
      /\ Carried(Pri(c, w), Sec(link[m], written[m]),
                 transmitter, rx, fragments, submitted, gaveUp)
  BY <1>1, FragUse
<1>4. /\ Become(n, r) /\ k \in Nat
      /\ transport' = LayerTxReady(transport)
      /\ UNCHANGED <<transmitter, rx, written, wire, submitted, fragments, gaveUp>>
  BY <1>2 DEF RunPosted, LinkContextType
<1>5. TypeOK
  BY DEF StackInv
<1>6. transport'.isOnline = transport.isOnline
  BY <1>4, <1>5, LayerFacts DEF TypeOK
<1>7. written' = [written EXCEPT ![n] = w] /\ wire' = [wire EXCEPT ![n] = wire[n]]
  BY <1>1, <1>4, <1>5 DEF TypeOK
<1> HIDE DEF k
<1>8. Full(r)
  BY <1>2, <1>4, PlainUpdate, EmptyTyped
<1>9. /\ Alike(c, r) /\ r.pPriState = c.pPriState
  BY <1>2 DEF Alike, LinkContextType
<1> HIDE DEF n, m, c, w, r
<1>10. /\ Pri(r, w) = Pri(c, w) /\ Sec(r, w) = Sec(c, w)
  BY <1>9, AlikeFacts
<1>11. /\ Live(r) /\ r.config = NodeConfig[n]
       /\ ~transport.isOnline => Off(r, w, wire[n])
  BY <1>2, <1>9 DEF Alike, Live, Off
<1>12. /\ Exchange(Pri(r, w), Sec(link[m], written[m]), wire[m], wire[n], Gave(n, gaveUp'))
       /\ Exchange(Pri(link[m], written[m]), Sec(r, w), wire[n], wire[m], Gave(m, gaveUp'))
       /\ Carried(Pri(r, w), Sec(link[m], written[m]),
                  transmitter', rx', fragments', submitted', gaveUp')
  BY <1>3, <1>4, <1>10
<1>13. m = Peer(n) /\ Become(n, r)
  BY <1>4 DEF m
<1> QED
  BY <1>1, <1>6, <1>7, <1>8, <1>11, <1>12, <1>13, HandlerFrag

\* The frame at the head of n's queue leaves.  It is no unconfirmed segment.
LEMMA WriteCompleteFrag ==
    ASSUME StackInv, FragInv, BothConfirm, NEW n \in Node, WriteComplete(n)
    PROVE  FragInv'
<1> DEFINE m == Peer(n)
           c == link[n]
           e == link[m]
           v == written[m]
           r == OnWriteComplete(c)
<1>1. TypeOK /\ written[n] = TRUE
  BY DEF WriteComplete, StackInv, TypeOK
<1>2. /\ Full(c) /\ Live(c) /\ c.config = NodeConfig[n] /\ c.config.UseConfirms
      /\ c.up = <<>> /\ transport.isOnline /\ Open(c, TRUE)
  BY <1>1, EndFacts DEF Off
<1>3. /\ Exchange(Pri(c, TRUE), Sec(e, v), wire[m], wire[n], Gave(n, gaveUp))
      /\ Exchange(Pri(e, v), Sec(c, TRUE), wire[n], wire[m], Gave(m, gaveUp))
      /\ n = sender => Carried(Pri(c, TRUE), Sec(e, v),
                               transmitter, rx, fragments, submitted, gaveUp)
      /\ n = receiver => /\ Carried(Pri(e, v), Sec(c, TRUE),
                                    transmitter, rx, fragments, submitted, gaveUp)
                         /\ ~HasSegments(c)
  BY <1>1, FragUse
<1>4. c.pPriState # "SendUnconfirmedTransmitWait"
  BY <1>3 DEF Exchange, States, Pri
<1>5. /\ Become(n, r) /\ written' = [written EXCEPT ![n] = FALSE]
      /\ UNCHANGED <<transport, transmitter, rx, wire, submitted, fragments, gaveUp>>
  BY <1>4 DEF WriteComplete, WriteAdvances
<1>6. wire' = [wire EXCEPT ![n] = wire[n]] /\ c.tx # <<>>
  BY <1>1, <1>2, <1>5 DEF TypeOK, Open
<1> HIDE DEF m, c, e, v, r
<1>7. /\ \E Q : SameKind(Pri(c, TRUE), Q) /\ Then(Q, Pri(r, FALSE))
      /\ SameEar(Sec(c, TRUE), Sec(r, FALSE)) /\ Steady(c, r, FALSE)
  BY <1>2, <1>4, WriteEffect DEF r
<1>8. Steps(c, r)
  BY <1>2, <1>6, WriteStep DEF r
<1>9. /\ Full(r) /\ Live(r) /\ r.config = NodeConfig[n]
      /\ n = receiver => ~HasSegments(r)
  BY <1>2, <1>3, <1>7, <1>8 DEF Steady, Open, Steps, Completes
<1>10. PICK Q : SameKind(Pri(c, TRUE), Q) /\ Then(Q, Pri(r, FALSE))
  BY <1>7
<1>11. Exchange(Q, Sec(e, v), wire[m], wire[n], Gave(n, gaveUp))
  BY <1>3, <1>10, SameKindExchange
<1>12. Exchange(Pri(r, FALSE), Sec(e, v), wire[m], wire[n], Gave(n, gaveUp))
  BY <1>10, <1>11, ThenExchange
<1>13. Exchange(Pri(e, v), Sec(r, FALSE), wire[n], wire[m], Gave(m, gaveUp))
  BY <1>3, <1>7, SameEarExchange
<1>14. ASSUME n = sender
       PROVE  Carried(Pri(r, FALSE), Sec(e, v),
                      transmitter, rx, fragments, submitted, gaveUp)
  <2>1. Q.segs = Pri(c, TRUE).segs /\ Q.addr = Pri(c, TRUE).addr
        /\ (Come(Q, Sec(e, v)) <=> Come(Pri(c, TRUE), Sec(e, v)))
    BY <1>10 DEF SameKind, Come
  <2>2. Carried(Q, Sec(e, v), transmitter, rx, fragments, submitted, gaveUp)
    BY <1>3, <1>14, <2>1, CarriedSame
  <2>3. Gave(n, gaveUp) = gaveUp
    BY <1>1, <1>14 DEF Gave, TypeOK
  <2> QED
    BY <1>10, <1>11, <2>2, <2>3, ThenCarried
<1>15. ASSUME n = receiver
       PROVE  Carried(Pri(e, v), Sec(r, FALSE),
                      transmitter, rx, fragments, submitted, gaveUp)
  <2>1. Come(Pri(e, v), Sec(r, FALSE)) <=> Come(Pri(e, v), Sec(c, TRUE))
    BY <1>7 DEF SameEar, Come
  <2> QED
    BY <1>3, <1>15, <2>1, CarriedSame
<1>16. /\ transmitter' = transmitter /\ rx' = rx /\ fragments' = fragments
       /\ submitted' = submitted /\ gaveUp' = gaveUp /\ transport' = transport
  BY <1>5
<1> QED
  BY <1>2, <1>5, <1>6, <1>9, <1>12, <1>13, <1>14, <1>15, <1>16, HandlerFrag DEF m, e, v

\* The first byte of a fragment carries its number.
LEMMA FirstByte ==
    ASSUME NEW k \in 1..MaxFragments, NEW len \in Lengths, NEW f, f = Bytes(k, len)
    PROVE  f # <<>> /\ f[1][1] = k
<1>1. len \in Nat \ {0}
  BY LengthsAssumption
<1>2. f = [i \in 1..len |-> <<k, i>>]
  BY DEF Bytes
<1>3. 1 \in 1..len
  BY <1>1
<1>4. f[1] = <<k, 1>> /\ DOMAIN f = 1..len
  BY <1>2, <1>3
<1>5. 1 \notin DOMAIN <<>>
  OBVIOUS
<1>6. f # <<>>
  BY <1>3, <1>4, <1>5, Zenon
<1>7. f[1][1] = k
  BY <1>4
<1> QED
  BY <1>6, <1>7

\* A fragment is submitted.  The link layer holds none.
LEMMA BeginTransmitFrag ==
    ASSUME StackInv, FragInv, BothConfirm, ~late, AppBeginTransmit
    PROVE  FragInv'
<1> DEFINE n == sender
           m == Peer(n)
           c == link[n]
           w == written[n]
           k == Len(submitted) + 1
<1>1. /\ n \in Node /\ m = receiver /\ n # receiver /\ TypeOK
      /\ Agree(c, transport, late)
  BY EndsAssumption DEF Node, Peer, StackInv
<1>2. PICK len \in Lengths :
        /\ transmitter' = Configure(transmitter, Bytes(k, len))
        /\ Become(n, SendTransmitter(c, transmitter'))
        /\ submitted' = Append(submitted, Bytes(k, len))
  BY DEF AppBeginTransmit
<1> DEFINE f == Bytes(k, len)
           u == transmitter'
           s == [destination |-> c.config.RemoteAddr, segs |-> Segmentation(u)]
           r == Send(c, s)
<1>3. /\ AcceptsSend(transport) /\ transport' = StartSend(transport)
      /\ Len(submitted) < MaxFragments
      /\ UNCHANGED <<rx, written, wire, fragments, gaveUp>>
  BY DEF AppBeginTransmit
<1>4. transport.isOnline /\ ~HasSegments(c)
  BY <1>1, <1>3 DEF AcceptsSend, Agree
<1>5. /\ Full(c) /\ Live(c) /\ c \in LinkContextType /\ c.config = NodeConfig[n]
      /\ c.config.UseConfirms /\ Open(c, w) /\ c.isOnline
  BY <1>1, <1>4, EndFacts
<1>6. /\ Exchange(Pri(c, w), Sec(link[m], written[m]), wire[m], wire[n], Gave(n, gaveUp))
      /\ Exchange(Pri(link[m], written[m]), Sec(c, w), wire[n], wire[m], Gave(m, gaveUp))
      /\ Carried(Pri(c, w), Sec(link[m], written[m]),
                 transmitter, rx, fragments, submitted, gaveUp)
  BY <1>1, FragUse
<1>7. Become(n, r)
  BY <1>2, <1>4 DEF SendTransmitter
<1>8. k \in 1..MaxFragments /\ transmitter \in TxType /\ submitted \in Seq(Seq(Byte))
  BY <1>1, <1>3, LengthsAssumption DEF TypeOK
<1>9. u = Configure(transmitter, f) /\ submitted' = Append(submitted, f)
  BY <1>2
<1>10. transport'.isOnline = transport.isOnline /\ Gave(n, gaveUp) = gaveUp
  BY <1>1, <1>3, LayerFacts DEF TypeOK, Gave
<1>11. written' = [written EXCEPT ![n] = w] /\ wire' = [wire EXCEPT ![n] = wire[n]]
  BY <1>1, <1>3 DEF TypeOK
<1>12. c.config.RemoteAddr \in Address
  BY <1>5, RemoteAddrType
<1> HIDE DEF k
<1>13. f \in Seq(Byte) /\ u \in TxType /\ u.payload # <<>> /\ f # <<>> /\ f[1][1] = k
  <2> HIDE DEF f, u
  <2>1. f = Bytes(k, len)
    BY DEF f
  <2>2. f \in Seq(Byte) /\ Configure(transmitter, f) \in TxType
        /\ Configure(transmitter, f).payload # <<>>
    BY <1>8, <2>1, FragmentFacts
  <2>3. f # <<>> /\ f[1][1] = k
    BY <1>8, <2>1, FirstByte
  <2> QED
    BY <1>9, <2>2, <2>3
<1> HIDE DEF f
<1>14. u.tpduCount = 0 /\ u.payload = f
  BY <1>8, <1>9 DEF Configure, TxType
<1> HIDE DEF u
<1>15. Segmentation(u) \in Seq(Segment) \ {<<>>}
  BY <1>13, SegmentationFacts
<1>16. s \in Segments /\ s.segs = Segmentation(u)
  BY <1>12, <1>15 DEF Segments
<1> HIDE DEF n, m, c, w, s, r
<1>17. /\ \E Q : /\ Q.state = Pri(c, w).state /\ Q.fcb = Pri(c, w).fcb
                 /\ Q.reset = Pri(c, w).reset /\ Q.out = Pri(c, w).out
                 /\ Q.addr = Pri(c, w).addr /\ Q.segs = s.segs /\ Then(Q, Pri(r, w))
       /\ Sec(r, w) = Sec(c, w) /\ Steady(c, r, w)
  BY <1>4, <1>5, <1>16, SendEffect DEF r
<1>18. Full(r)
  BY <1>4, <1>5, <1>16, SendFacts, KeptSession DEF r, Full
<1>19. Live(r) /\ r.config = NodeConfig[n]
  BY <1>5, <1>17 DEF Steady, Open
<1>20. PICK Q : /\ Q.state = Pri(c, w).state /\ Q.fcb = Pri(c, w).fcb
                /\ Q.reset = Pri(c, w).reset /\ Q.out = Pri(c, w).out
                /\ Q.addr = Pri(c, w).addr /\ Q.segs = s.segs /\ Then(Q, Pri(r, w))
  BY <1>17
<1>21. Pri(c, w).segs = <<>>
  BY <1>4, <1>5, SegmentsHeld DEF Pri
<1>22. Q.segs = Segmentation(u) /\ Q.segs \in Seq(Segment)
  BY <1>15, <1>16, <1>20
<1>23. Exchange(Q, Sec(link[m], written[m]), wire[m], wire[n], gaveUp)
  BY <1>6, <1>10, <1>20, <1>21, <1>22, SendExchange
<1>24. Carried(Q, Sec(link[m], written[m]), u, rx, fragments, submitted', gaveUp)
  <2>1. Submits(submitted, f, submitted')
    BY <1>9, <1>13, <1>14 DEF k, Submits
  <2> QED
    BY <1>6, <1>8, <1>9, <1>10, <1>13, <1>14, <1>20, <1>21, <1>22, <2>1, SendCarried
<1>25. Exchange(Pri(r, w), Sec(link[m], written[m]), wire[m], wire[n], gaveUp)
  BY <1>20, <1>23, ThenExchange
<1>26. Carried(Pri(r, w), Sec(link[m], written[m]), u, rx, fragments, submitted', gaveUp)
  BY <1>20, <1>23, <1>24, ThenCarried
<1>27. /\ rx' = rx /\ fragments' = fragments /\ gaveUp' = gaveUp /\ u = transmitter'
       /\ Gave(n, gaveUp') = gaveUp /\ Gave(m, gaveUp') = Gave(m, gaveUp) /\ m = Peer(n)
  BY <1>3, <1>10 DEF u, m
<1> QED
  BY <1>1, <1>4, <1>6, <1>7, <1>10, <1>11, <1>17, <1>18, <1>19, <1>25, <1>26, <1>27, HandlerFrag

\* Nothing is under way between n and a quiet peer.
LEMMA QuietPeer ==
    ASSUME StackInv, FragInv, BothConfirm, NEW n \in Node, NEW m, m = Peer(n), Quiet(n)
    PROVE  /\ Sec(link[m], written[m]).out = <<>>
           /\ None(wire[m], PriFunction) /\ None(wire[n], SecFunction)
<1> DEFINE e == link[m]
           v == written[m]
<1>1. m \in Node
  BY TwoEnds
<1>2. /\ Full(e) /\ Live(e) /\ e.tx = <<>> /\ wire[n] = <<>> /\ wire[m] = <<>>
  BY <1>1, EndFacts DEF Quiet
<1> HIDE DEF e, v
<1>3. e.txMode = "Idle" /\ e.pendingSecTx = <<>>
  BY <1>2 DEF Full, Base, Chan, Live
<1>4. Sec(e, v).out = <<>>
  BY <1>3 DEF Sec, SecOut
<1>5. \A F : None(<<>>, F)
  BY DEF None
<1> QED
  BY <1>2, <1>4, <1>5 DEF e, v

\* The sender's response timer expires.
LEMMA ResponseTimeoutFrag ==
    ASSUME StackInv, FragInv, BothConfirm, ResponseTimeout
    PROVE  FragInv'
<1> DEFINE n == sender
           m == Peer(n)
           c == link[n]
           w == written[n]
           t == CurrentCallback(c.rspTimeoutTimer)
           d == [c EXCEPT !.rspTimeoutTimer = t]
           r == OnResponseTimeout(d)
           final == c.pPriState = "ConfDataWait" /\ c.numRetryRemaining = 0
           gave == gaveUp'
<1>1. n \in Node /\ m = receiver /\ n # receiver /\ TypeOK
  BY EndsAssumption DEF Node, Peer, StackInv
<1>2. /\ IsActive(c.rspTimeoutTimer) /\ Quiet(n) /\ Become(n, r)
      /\ gaveUp' = (gaveUp \/ final)
      /\ UNCHANGED <<transport, transmitter, rx, written, wire, submitted, fragments>>
  BY DEF ResponseTimeout
<1>3. c.pPriState \in PriResponseWait
  BY <1>1, <1>2, EndFacts DEF Base, Waits
<1>4. /\ Full(c) /\ Live(c) /\ c \in LinkContextType /\ c.config = NodeConfig[n]
      /\ c.config.UseConfirms /\ transport.isOnline /\ Open(c, w)
  BY <1>1, <1>3, EndFacts DEF Off, PriResponseWait
<1>5. /\ Exchange(Pri(c, w), Sec(link[m], written[m]), wire[m], wire[n], Gave(n, gaveUp))
      /\ Exchange(Pri(link[m], written[m]), Sec(c, w), wire[n], wire[m], Gave(m, gaveUp))
      /\ Carried(Pri(c, w), Sec(link[m], written[m]),
                 transmitter, rx, fragments, submitted, gaveUp)
  BY <1>1, FragUse
<1>6. t \in TimerRefType /\ ~IsActive(t)
  BY <1>4, TimerFacts DEF LinkContextType
<1>7. gave \in BOOLEAN /\ (gaveUp => gave) /\ (final => gave) /\ gaveUp \in BOOLEAN
  BY <1>1, <1>2 DEF TypeOK
<1>8. written' = [written EXCEPT ![n] = w] /\ wire' = [wire EXCEPT ![n] = wire[n]]
  BY <1>1, <1>2 DEF TypeOK
<1>9. /\ Gave(n, gaveUp) = gaveUp /\ Gave(n, gave) = gave
      /\ Gave(m, gave) = Gave(m, gaveUp)
  BY <1>1 DEF Gave
<1>10. /\ Sec(link[m], written[m]).out = <<>>
       /\ None(wire[m], PriFunction) /\ None(wire[n], SecFunction)
  BY <1>1, <1>2, QuietPeer
<1> HIDE DEF n, m, c, w, t, r, gave
<1>11. /\ \E Q : /\ TimeoutStep(Pri(c, w), Q) /\ Then(Q, Pri(r, w))
                 /\ c.pPriState = "ConfDataWait" /\ Q.state = "Idle" => c.numRetryRemaining = 0
       /\ Sec(r, w) = Sec(c, w) /\ Steady(c, r, w)
  BY <1>3, <1>4, <1>6, TimeoutEffect DEF r
<1>12. Full(r)
  BY <1>4, <1>6, ResponseHandler DEF r
<1>13. Live(r) /\ r.config = NodeConfig[n]
  BY <1>4, <1>11 DEF Steady, Open
<1>14. PICK Q : /\ TimeoutStep(Pri(c, w), Q) /\ Then(Q, Pri(r, w))
                /\ c.pPriState = "ConfDataWait" /\ Q.state = "Idle" => c.numRetryRemaining = 0
  BY <1>11
<1>15. Pri(c, w).state = "ConfDataWait" /\ Q.state = "Idle" => gave
  BY <1>7, <1>14 DEF Pri
<1>16. Exchange(Q, Sec(link[m], written[m]), wire[m], wire[n], gave)
  BY <1>5, <1>7, <1>9, <1>10, <1>14, <1>15, TimeoutExchange
<1>17. Exchange(Pri(r, w), Sec(link[m], written[m]), wire[m], wire[n], gave)
  BY <1>14, <1>16, ThenExchange
<1>18. Carried(Q, Sec(link[m], written[m]), transmitter, rx, fragments, submitted, gave)
  BY <1>5, <1>7, <1>14, TimeoutCarried
<1>19. Carried(Pri(r, w), Sec(link[m], written[m]), transmitter, rx, fragments, submitted, gave)
  BY <1>14, <1>16, <1>18, ThenCarried
<1>20. /\ transport' = transport /\ transmitter' = transmitter /\ rx' = rx
       /\ fragments' = fragments /\ submitted' = submitted /\ gaveUp' = gave /\ m = Peer(n)
       /\ Become(n, r)
  BY <1>2 DEF gave, m
<1>21. /\ Exchange(Pri(r, w), Sec(link[m], written[m]), wire[m], wire[n], Gave(n, gaveUp'))
       /\ Exchange(Pri(link[m], written[m]), Sec(r, w), wire[n], wire[m], Gave(m, gaveUp'))
       /\ Carried(Pri(r, w), Sec(link[m], written[m]),
                  transmitter', rx', fragments', submitted', gaveUp')
  BY <1>5, <1>9, <1>11, <1>17, <1>19, <1>20
<1> QED
  BY <1>1, <1>4, <1>8, <1>12, <1>13, <1>20, <1>21, HandlerFrag

\* The frame that n gave to the channel goes on the wire.
LEMMA PutOnWireFrag ==
    ASSUME StackInv, FragInv, BothConfirm, NEW n \in Node, PutOnWire(n)
    PROVE  FragInv'
<1> DEFINE m == Peer(n)
           c == link[n]
           e == link[m]
           v == written[m]
           f == Head(c.tx).frame
           g == Gave(n, gaveUp)
           h == Gave(m, gaveUp)
           out == Append(wire[m], f)
<1>1. TypeOK /\ written[n] = FALSE
  BY DEF PutOnWire, StackInv, TypeOK
<1>2. /\ c.tx # <<>> /\ written' = [written EXCEPT ![n] = TRUE]
      /\ wire' = [wire EXCEPT ![m] = out]
      /\ UNCHANGED <<link, transport, transmitter, rx, submitted, fragments, gaveUp>>
  BY DEF PutOnWire
<1>3. Full(c) /\ transport.isOnline
  BY <1>2, EndFacts DEF Off
<1>4. /\ EndIs(c, FALSE, wire[n], NodeConfig[n], transport.isOnline)
      /\ EndIs(e, v, wire[m], NodeConfig[m], transport.isOnline)
      /\ Exchange(Pri(c, FALSE), Sec(e, v), wire[m], wire[n], g)
      /\ Exchange(Pri(e, v), Sec(c, FALSE), wire[n], wire[m], h)
      /\ n = sender => Carried(Pri(c, FALSE), Sec(e, v),
                               transmitter, rx, fragments, submitted, gaveUp)
      /\ n = receiver => Carried(Pri(e, v), Sec(c, FALSE),
                                 transmitter, rx, fragments, submitted, gaveUp)
  BY <1>1, FragUse
<1>5. m \in Node /\ m # n
  BY TwoEnds
<1>6. ~HasSegments(link[receiver])
  BY DEF FragInv
<1>7. f = Head(c.tx).frame
  OBVIOUS
<1> HIDE DEF m, c, e, v, f, g, h
<1>8. /\ \/ /\ c.txMode = "Primary" /\ PriOut(c, FALSE) = <<f>> /\ PriOut(c, TRUE) = <<>>
            /\ SecOut(c, TRUE) = SecOut(c, FALSE)
         \/ /\ c.txMode = "Secondary" /\ SecOut(c, FALSE) = <<f>> /\ SecOut(c, TRUE) = <<>>
            /\ PriOut(c, TRUE) = PriOut(c, FALSE)
      /\ f \in Frame
  BY <1>2, <1>3, <1>7, ChannelFrame
<1> DEFINE Result == /\ Exchange(Pri(c, TRUE), Sec(e, v), out, wire[n], g)
                     /\ Exchange(Pri(e, v), Sec(c, TRUE), wire[n], out, h)
<1>9. ASSUME PriOut(c, FALSE) = <<f>>, PriOut(c, TRUE) = <<>>,
             SecOut(c, TRUE) = SecOut(c, FALSE)
      PROVE  Result
  <2> DEFINE P == Pri(c, FALSE)
             Q == Pri(c, TRUE)
  <2>1. /\ P.out = <<f>> /\ Q.state = P.state /\ Q.segs = P.segs /\ Q.fcb = P.fcb
        /\ Q.reset = P.reset /\ Q.addr = P.addr /\ Q.out = <<>>
    BY <1>9 DEF Pri
  <2>2. Sec(c, TRUE) = Sec(c, FALSE)
    BY <1>9 DEF Sec
  <2> HIDE DEF P, Q
  <2>3. Exchange(P, Sec(e, v), wire[m], wire[n], g)
    BY <1>4 DEF P
  <2>4. Exchange(Q, Sec(e, v), out, wire[n], g)
    BY <1>8, <2>1, <2>3, PutRequest
  <2>5. RequestOf(P, f)
    BY <2>1, <2>3 DEF Exchange, Matching
  <2>6. f.func \notin SecFunction
    BY <2>5 DEF RequestOf, SecFunction
  <2>7. Exchange(Pri(e, v), Sec(c, FALSE), wire[n], out, h)
    BY <1>4, <1>8, <2>6, OtherAnswer
  <2> QED
    BY <2>2, <2>4, <2>7 DEF Q
<1>10. ASSUME SecOut(c, FALSE) = <<f>>, SecOut(c, TRUE) = <<>>,
              PriOut(c, TRUE) = PriOut(c, FALSE)
       PROVE  Result
  <2> DEFINE S == Sec(c, FALSE)
             R == Sec(c, TRUE)
             P == Pri(e, v)
  <2>1. S.out = <<f>> /\ R.state = S.state /\ R.fcb = S.fcb /\ R.out = <<>>
    BY <1>10 DEF Sec
  <2>2. Pri(c, TRUE) = Pri(c, FALSE)
    BY <1>10 DEF Pri
  <2> HIDE DEF S, R, P
  <2>3. Exchange(P, S, wire[n], wire[m], h)
    BY <1>4 DEF S, P
  <2>4. Exchange(P, R, wire[n], out, h)
    BY <1>8, <2>1, <2>3, PutAnswer
  <2>5. AnswerTo(P, S, f)
    BY <2>1, <2>3 DEF Exchange, Matching
  <2>6. f.func \notin PriFunction
    BY <2>5 DEF AnswerTo, PriFunction
  <2>7. Exchange(Pri(c, FALSE), Sec(e, v), out, wire[n], g)
    BY <1>4, <1>8, <2>6, OtherRequest
  <2> QED
    BY <2>2, <2>4, <2>7 DEF R, P
<1>11. Result
  BY <1>8, <1>9, <1>10
<1>12. ASSUME n = sender
       PROVE  Carried(Pri(c, TRUE), Sec(e, v), transmitter, rx, fragments, submitted, gaveUp)
  <2>1. /\ Pri(c, TRUE).segs = Pri(c, FALSE).segs /\ Pri(c, TRUE).addr = Pri(c, FALSE).addr
        /\ Come(Pri(c, TRUE), Sec(e, v)) <=> Come(Pri(c, FALSE), Sec(e, v))
    BY DEF Pri, Come, Sending
  <2> QED
    BY <1>4, <1>12, <2>1, CarriedSame
<1>13. ASSUME n = receiver
       PROVE  Carried(Pri(e, v), Sec(c, TRUE), transmitter, rx, fragments, submitted, gaveUp)
  <2>1. Come(Pri(e, v), Sec(c, TRUE)) <=> Come(Pri(e, v), Sec(c, FALSE))
    BY DEF Sec, Come, Listening
  <2> QED
    BY <1>4, <1>13, <2>1, CarriedSame
<1>14. /\ EndIs(c, TRUE, wire[n], NodeConfig[n], transport.isOnline)
       /\ EndIs(e, v, out, NodeConfig[m], transport.isOnline)
  BY <1>3, <1>4 DEF EndIs
<1>15. /\ written'[n] = TRUE /\ written'[m] = v /\ wire'[n] = wire[n] /\ wire'[m] = out
       /\ link'[n] = c /\ link'[m] = e /\ link' = link
  BY <1>1, <1>2, <1>5 DEF TypeOK, c, e, v
<1>16. /\ transport' = transport /\ transmitter' = transmitter /\ rx' = rx
       /\ fragments' = fragments /\ submitted' = submitted /\ gaveUp' = gaveUp
       /\ Gave(n, gaveUp') = g /\ Gave(m, gaveUp') = h /\ m = Peer(n)
  BY <1>2 DEF g, h, m
<1> HIDE DEF out
<1> QED
  BY <1>6, <1>11, <1>12, <1>13, <1>14, <1>15, <1>16, FragBuild

\* A frame is lost on its way to n.
LEMMA LoseFrameFrag ==
    ASSUME StackInv, FragInv, BothConfirm, NEW n \in Node, LoseFrame(n)
    PROVE  FragInv'
<1> DEFINE m == Peer(n)
           c == link[n]
           e == link[m]
           w == written[n]
           v == written[m]
           g == Gave(n, gaveUp)
           h == Gave(m, gaveUp)
           in == Tail(wire[n])
<1>1. TypeOK
  BY DEF StackInv
<1>2. /\ wire[n] # <<>> /\ wire' = [wire EXCEPT ![n] = in]
      /\ UNCHANGED <<link, transport, transmitter, rx, written, submitted, fragments, gaveUp>>
  BY DEF LoseFrame
<1>3. transport.isOnline
  BY <1>2, EndFacts DEF Off
<1>4. /\ EndIs(c, w, wire[n], NodeConfig[n], transport.isOnline)
      /\ EndIs(e, v, wire[m], NodeConfig[m], transport.isOnline)
      /\ Exchange(Pri(c, w), Sec(e, v), wire[m], wire[n], g)
      /\ Exchange(Pri(e, v), Sec(c, w), wire[n], wire[m], h)
      /\ n = sender => Carried(Pri(c, w), Sec(e, v),
                               transmitter, rx, fragments, submitted, gaveUp)
      /\ n = receiver => Carried(Pri(e, v), Sec(c, w),
                                 transmitter, rx, fragments, submitted, gaveUp)
  BY <1>1, FragUse
<1>5. m \in Node /\ m # n
  BY TwoEnds
<1>6. ~HasSegments(link[receiver])
  BY DEF FragInv
<1> HIDE DEF m, c, e, w, v, g, h
<1>7. /\ Exchange(Pri(c, w), Sec(e, v), wire[m], in, g)
      /\ Exchange(Pri(e, v), Sec(c, w), in, wire[m], h)
  BY <1>2, <1>4, DropRequest, DropAnswer
<1>8. EndIs(c, w, in, NodeConfig[n], transport.isOnline)
  BY <1>3, <1>4 DEF EndIs
<1>9. /\ written'[n] = w /\ written'[m] = v /\ wire'[n] = in /\ wire'[m] = wire[m]
      /\ link'[n] = c /\ link'[m] = e /\ link' = link
  BY <1>1, <1>2, <1>5 DEF TypeOK, c, e, w, v
<1>10. /\ transport' = transport /\ transmitter' = transmitter /\ rx' = rx
       /\ fragments' = fragments /\ submitted' = submitted /\ gaveUp' = gaveUp
       /\ Gave(n, gaveUp') = g /\ Gave(m, gaveUp') = h /\ m = Peer(n)
  BY <1>2 DEF g, h, m
<1> HIDE DEF in
<1> QED
  BY <1>4, <1>6, <1>7, <1>8, <1>9, <1>10, FragBuild

\* What is passed up goes through the receiving transport layer.
LEMMA PassedUpFacts ==
    ASSUME NEW c, NEW f, NEW out, out = PassedUp(c, f)
    PROVE  /\ c.up = <<>> => out.rx = rx /\ out.asdu = <<>>
           /\ c.up # <<>> => out = ProcessReceive(rx, f.src, Head(c.up))
<1> DEFINE none == <<>>
<1>1. CASE c.up = <<>>
  <2>1. out = [rx |-> rx, asdu |-> none]
    BY <1>1 DEF PassedUp
  <2> HIDE DEF none
  <2>2. out.rx = rx /\ out.asdu = none
    BY <2>1
  <2> QED
    BY <1>1, <2>2 DEF none
<1>2. CASE c.up # <<>>
  BY <1>2 DEF PassedUp
<1> QED
  BY <1>1, <1>2

\* A request arrives at n.  The receiver has nothing to send, so that nothing is
\* passed up at the sender.
LEMMA ArrivedRequest ==
    ASSUME StackInv, FragInv, BothConfirm, ~late, NEW n \in Node, NEW m, m = Peer(n),
           Receive(n), Head(wire[n]).func \in PriFunction,
           NEW r, r = OnFrame(link[n], Head(wire[n]), NoSegments)
    PROVE  FragInv'
<1> DEFINE c == link[n]
           w == written[n]
           e == link[m]
           v == written[m]
           f == Head(wire[n])
           in == Tail(wire[n])
           g == Gave(n, gaveUp)
           h == Gave(m, gaveUp)
           out == PassedUp(r, f)
<1>1. TypeOK /\ wire[n] # <<>>
  BY DEF StackInv, Receive
<1>2. /\ Full(c) /\ Live(c) /\ c.up = <<>> /\ c.config = NodeConfig[n] /\ c.config.UseConfirms
      /\ transport.isOnline /\ Open(c, w)
  BY <1>1, EndFacts DEF Off
<1>3. /\ Exchange(Pri(c, w), Sec(e, v), wire[m], wire[n], g)
      /\ Exchange(Pri(e, v), Sec(c, w), wire[n], wire[m], h)
      /\ n = sender => Carried(Pri(c, w), Sec(e, v),
                               transmitter, rx, fragments, submitted, gaveUp)
      /\ n = receiver => /\ Carried(Pri(e, v), Sec(c, w),
                                    transmitter, rx, fragments, submitted, gaveUp)
                         /\ ~HasSegments(c)
  BY FragUse
<1>4. RequestOf(Pri(e, v), f)
  BY <1>1, <1>3, RequestAlone
<1>5. /\ f \in Frame
      /\ f.func \in {"PRI_RESET_LINK_STATES", "PRI_REQUEST_LINK_STATUS",
                     "PRI_CONFIRMED_USER_DATA"}
  BY <1>4 DEF RequestOf
<1>6. /\ Become(n, r) /\ rx' = out.rx
      /\ fragments' = IF out.asdu = <<>> THEN fragments
                      ELSE Append(fragments, [asdu |-> out.asdu, excused |-> gaveUp \/ late])
      /\ wire' = [wire EXCEPT ![n] = in]
      /\ transport' = transport /\ written' = written /\ submitted' = submitted
      /\ gaveUp' = gaveUp
  BY DEF Receive
<1>7. transmitter' = transmitter
  BY <1>5 DEF Receive, AckAdvances
<1>8. written' = [written EXCEPT ![n] = w]
  BY <1>1, <1>6 DEF TypeOK
<1>9. r = OnFrame(c, f, NoSegments) /\ out = PassedUp(r, f) /\ f = Head(wire[n])
  OBVIOUS
<1>10. /\ \/ n = sender /\ m = receiver /\ g = gaveUp /\ n # receiver
          \/ n = receiver /\ m = sender /\ h = gaveUp /\ n # sender
       /\ m \in Node
  BY TwoEnds, EndsAssumption DEF Gave
<1>11. n = sender => ~HasSegments(e) /\ e \in LinkContextType
  BY <1>10, NodeFacts DEF FragInv
<1>12. g = Gave(n, gaveUp') /\ h = Gave(m, gaveUp')
  BY <1>6
<1> HIDE DEF c, w, e, v, f, g, h, out
<1>13. /\ RequestStep(Sec(c, w), Sec(r, w), f, r.up) /\ Then(Pri(c, w), Pri(r, w))
       /\ r.config = c.config /\ Open(r, w)
  BY <1>2, <1>5, <1>9, RequestFrameEffect
<1>14. Full(r) /\ Live(r) /\ r.config = NodeConfig[n] /\ r \in LinkContextType
       /\ (n = receiver => ~HasSegments(r))
  <2>1. Steps(c, r)
    BY <1>2, <1>5, <1>9, FrameStep
  <2> QED
    BY <1>2, <1>3, <1>13, <2>1 DEF Open, Steps, Completes, Full, Base
<1>15. Exchange(Pri(c, w), Sec(e, v), wire[m], in, g)
  BY <1>1, <1>3, DropAnswer
<1>16. Exchange(Pri(r, w), Sec(e, v), wire[m], in, g)
  BY <1>13, <1>15, ThenExchange
<1>17. Exchange(Pri(e, v), Sec(r, w), in, wire[m], h)
  BY <1>1, <1>3, <1>9, <1>13, RequestExchange
<1>18. /\ out.asdu \in Seq(Byte)
       /\ r.up = <<>> => out.rx = rx /\ out.asdu = <<>>
       /\ r.up # <<>> => out = ProcessReceive(rx, f.src, Head(r.up))
  BY <1>1, <1>5, <1>9, <1>14, PassedUpType, PassedUpFacts
<1>19. ASSUME n = sender
       PROVE  Carried(Pri(r, w), Sec(e, v), transmitter', rx', fragments', submitted', gaveUp')
  <2>1. ~Sending(Pri(e, v))
    <3>1. Pri(e, v).segs = <<>>
      BY <1>11, <1>19, SegmentsHeld DEF Pri
    <3> QED
      BY <1>3, <3>1 DEF Exchange, States
  <2>2. r.up = <<>>
    BY <1>4, <1>13, <2>1 DEF RequestStep, RequestOf
  <2>3. rx' = rx /\ fragments' = fragments
    BY <1>6, <1>18, <2>2
  <2>4. g = gaveUp
    BY <1>10, <1>19
  <2>5. Carried(Pri(r, w), Sec(e, v), transmitter, rx, fragments, submitted, gaveUp)
    BY <1>3, <1>13, <1>19, <2>4, ThenCarried
  <2> QED
    BY <1>6, <1>7, <2>3, <2>5
<1>20. ASSUME n = receiver
       PROVE  Carried(Pri(e, v), Sec(r, w), transmitter', rx', fragments', submitted', gaveUp')
  <2>1. /\ transmitter \in TxType /\ rx \in RxType /\ fragments \in Seq(FragmentType)
        /\ submitted \in Seq(Seq(Byte))
    BY <1>1 DEF TypeOK, FragmentType
  <2>2. Exchange(Pri(e, v), Sec(c, w), wire[n], wire[m], gaveUp)
    BY <1>3, <1>10, <1>20
  <2> DEFINE up == r.up
             frs2 == fragments'
  <2>3. /\ Carried(Pri(e, v), Sec(c, w), transmitter, rx, fragments, submitted, gaveUp)
        /\ RequestStep(Sec(c, w), Sec(r, w), Head(wire[n]), up)
        /\ up = <<>> => out.rx = rx /\ out.asdu = <<>>
        /\ up # <<>> => out = ProcessReceive(rx, Head(wire[n]).src, Head(up))
    BY <1>3, <1>9, <1>13, <1>18, <1>20
  <2>4. frs2 = IF out.asdu = <<>> THEN fragments
               ELSE Append(fragments, [asdu |-> out.asdu, excused |-> gaveUp])
    <3>1. (gaveUp \/ late) = gaveUp
      BY <1>1 DEF TypeOK
    <3> QED
      BY <1>6, <3>1
  <2> HIDE DEF up, frs2
  <2>5. out.asdu \in Seq(Byte) /\ wire[n] # <<>>
    BY <1>1, <1>18
  <2>6. Carried(Pri(e, v), Sec(r, w), transmitter, out.rx, frs2, submitted, gaveUp)
    BY <2>1, <2>2, <2>3, <2>4, <2>5, RequestCarried
  <2>7. Carried(Pri(e, v), Sec(r, w), transmitter, out.rx, fragments', submitted, gaveUp)
    BY <2>6 DEF frs2
  <2> QED
    BY <1>6, <1>7, <2>7
<1>21. Become(n, r) /\ wire' = [wire EXCEPT ![n] = in] /\ transport' = transport
  BY <1>6
<1> HIDE DEF in
<1>22. /\ Exchange(Pri(r, w), Sec(link[m], written[m]), wire[m], in, Gave(n, gaveUp'))
       /\ Exchange(Pri(link[m], written[m]), Sec(r, w), in, wire[m], Gave(m, gaveUp'))
       /\ n = sender => Carried(Pri(r, w), Sec(link[m], written[m]),
                                transmitter', rx', fragments', submitted', gaveUp')
       /\ n = receiver => Carried(Pri(link[m], written[m]), Sec(r, w),
                                  transmitter', rx', fragments', submitted', gaveUp')
  BY <1>12, <1>16, <1>17, <1>19, <1>20 DEF e, v
<1> QED
  BY <1>2, <1>8, <1>14, <1>21, <1>22, HandlerFrag

\* An answer arrives at n.
LEMMA ArrivedAnswer ==
    ASSUME StackInv, FragInv, BothConfirm, NEW n \in Node, NEW m, m = Peer(n),
           Receive(n), Head(wire[n]).func \in SecFunction,
           NEW r, r = OnFrame(link[n], Head(wire[n]), NoSegments)
    PROVE  FragInv'
<1> DEFINE c == link[n]
           w == written[n]
           e == link[m]
           v == written[m]
           f == Head(wire[n])
           in == Tail(wire[n])
           g == Gave(n, gaveUp)
           h == Gave(m, gaveUp)
           out == PassedUp(r, f)
           advances == AckAdvances(n, f)
<1>1. TypeOK /\ wire[n] # <<>>
  BY DEF StackInv, Receive
<1>2. /\ Full(c) /\ Live(c) /\ c.up = <<>> /\ c.config = NodeConfig[n] /\ c.config.UseConfirms
      /\ transport.isOnline /\ Open(c, w)
  BY <1>1, EndFacts DEF Off
<1>3. /\ Exchange(Pri(c, w), Sec(e, v), wire[m], wire[n], g)
      /\ Exchange(Pri(e, v), Sec(c, w), wire[n], wire[m], h)
      /\ n = sender => Carried(Pri(c, w), Sec(e, v),
                               transmitter, rx, fragments, submitted, gaveUp)
      /\ n = receiver => /\ Carried(Pri(e, v), Sec(c, w),
                                    transmitter, rx, fragments, submitted, gaveUp)
                         /\ ~HasSegments(c)
  BY FragUse
<1>4. AnswerTo(Pri(c, w), Sec(e, v), f)
  BY <1>1, <1>3, AnswerAlone
<1>5. f \in Frame /\ f.func \in {"SEC_ACK", "SEC_LINK_STATUS"}
  BY <1>4 DEF AnswerTo
<1>6. /\ Become(n, r) /\ rx' = out.rx
      /\ fragments' = IF out.asdu = <<>> THEN fragments
                      ELSE Append(fragments, [asdu |-> out.asdu, excused |-> gaveUp \/ late])
      /\ wire' = [wire EXCEPT ![n] = in]
      /\ transport' = transport /\ written' = written /\ submitted' = submitted
      /\ gaveUp' = gaveUp
      /\ transmitter' = IF advances THEN TxAdvance(transmitter) ELSE transmitter
  BY DEF Receive
<1>7. /\ advances <=> /\ n = sender /\ Accepts(c, f)
                      /\ f.func = "SEC_ACK" /\ c.pPriState = "ConfDataWait"
  BY DEF AckAdvances
<1>8. written' = [written EXCEPT ![n] = w]
  BY <1>1, <1>6 DEF TypeOK
<1>9. r = OnFrame(c, f, NoSegments) /\ out = PassedUp(r, f) /\ f = Head(wire[n])
  OBVIOUS
<1>10. \/ n = sender /\ m = receiver /\ g = gaveUp /\ n # receiver
       \/ n = receiver /\ m = sender /\ h = gaveUp /\ n # sender
  BY TwoEnds, EndsAssumption DEF Gave
<1>11. g = Gave(n, gaveUp') /\ h = Gave(m, gaveUp')
  BY <1>6
<1> HIDE DEF c, w, e, v, f, g, h, out, advances
<1>12. /\ AnswerStep(Pri(c, w), Pri(r, w), f)
       /\ Sec(r, w) = Sec(c, w) /\ Steady(c, r, w)
       /\ ~Accepts(c, f) => r = c
       /\ Accepts(c, f) /\ f.func = "SEC_ACK" =>
             \E Q : AckStep(Pri(c, w), Q) /\ Then(Q, Pri(r, w))
  BY <1>2, <1>5, <1>9, AnswerFrameEffect
<1>13. /\ Full(r) /\ Live(r) /\ r.config = NodeConfig[n] /\ r.up = <<>>
       /\ (n = receiver => ~HasSegments(r))
  <2>1. Steps(c, r)
    BY <1>2, <1>5, <1>9, FrameStep
  <2> QED
    BY <1>2, <1>3, <1>12, <2>1 DEF Steady, Open, Steps, Completes
<1>14. Exchange(Pri(r, w), Sec(e, v), wire[m], in, g)
  BY <1>1, <1>3, <1>9, <1>12, AnswerExchange
<1>15. Exchange(Pri(e, v), Sec(r, w), in, wire[m], h)
  <2>1. Exchange(Pri(e, v), Sec(c, w), in, wire[m], h)
    BY <1>1, <1>3, DropRequest
  <2> QED
    BY <1>12, <2>1
<1>16. rx' = rx /\ fragments' = fragments
  <2>1. out.rx = rx /\ out.asdu = <<>>
    BY <1>9, <1>13, PassedUpFacts
  <2> QED
    BY <1>6, <2>1
<1>17. ASSUME n = sender
       PROVE  Carried(Pri(r, w), Sec(e, v), transmitter', rx, fragments, submitted, gaveUp)
  <2> DEFINE P == Pri(c, w)
             R == Pri(r, w)
  <2>1. P.state = c.pPriState
    BY DEF Pri
  <2>2. ~Accepts(c, f) => R = P
    BY <1>12
  <2> HIDE DEF P, R
  <2>3. advances => /\ f.func = "SEC_ACK" /\ P.state = "ConfDataWait"
                    /\ \E Q : AckStep(P, Q) /\ Then(Q, R)
    BY <1>7, <1>12, <2>1 DEF P, R
  <2>4. ~advances => R = P \/ f.func # "SEC_ACK" \/ P.state # "ConfDataWait"
    BY <1>7, <1>17, <2>1, <2>2
  <2>5. /\ Exchange(P, Sec(e, v), wire[m], wire[n], gaveUp)
        /\ Carried(P, Sec(e, v), transmitter, rx, fragments, submitted, gaveUp)
        /\ AnswerStep(P, R, f)
    BY <1>3, <1>10, <1>12, <1>17 DEF P, R
  <2>6. transmitter \in TxType
    BY <1>1 DEF TypeOK
  <2>7. Carried(R, Sec(e, v), transmitter', rx, fragments, submitted, gaveUp)
    BY <1>1, <1>6, <1>9, <2>3, <2>4, <2>5, <2>6, AnswerCarried
  <2> QED
    BY <2>7 DEF R
<1>18. ASSUME n = receiver
       PROVE  Carried(Pri(e, v), Sec(r, w), transmitter', rx, fragments, submitted, gaveUp)
  <2>1. transmitter' = transmitter
    BY <1>6, <1>7, <1>10, <1>18
  <2> QED
    BY <1>3, <1>12, <1>18, <2>1
<1>19. Become(n, r) /\ wire' = [wire EXCEPT ![n] = in] /\ transport' = transport
  BY <1>6
<1> HIDE DEF in
<1>20. /\ Exchange(Pri(r, w), Sec(link[m], written[m]), wire[m], in, Gave(n, gaveUp'))
       /\ Exchange(Pri(link[m], written[m]), Sec(r, w), in, wire[m], Gave(m, gaveUp'))
       /\ n = sender => Carried(Pri(r, w), Sec(link[m], written[m]),
                                transmitter', rx', fragments', submitted', gaveUp')
       /\ n = receiver => Carried(Pri(link[m], written[m]), Sec(r, w),
                                  transmitter', rx', fragments', submitted', gaveUp')
  BY <1>6, <1>11, <1>14, <1>15, <1>16, <1>17, <1>18 DEF e, v
<1> QED
  BY <1>2, <1>8, <1>13, <1>19, <1>20, HandlerFrag

\* n takes a frame from the wire.
LEMMA ReceiveFrag ==
    ASSUME StackInv, FragInv, BothConfirm, ~late, NEW n \in Node, Receive(n)
    PROVE  FragInv'
<1> DEFINE f == Head(wire[n])
<1>1. TypeOK /\ wire[n] # <<>>
  BY DEF StackInv, Receive
<1>2. f.func \in PriFunction \/ f.func \in SecFunction
  <2>1. wire[n] \in Seq(Frame)
    BY <1>1 DEF TypeOK
  <2>2. f \in Frame
    BY <1>1, <2>1, TailIndex
  <2> QED
    BY <2>2 DEF Frame, LinkHeader
<1> QED
  BY <1>2, ArrivedRequest, ArrivedAnswer

\* An end without a send and without frames.
Resting(c) ==
    /\ c.txMode = "Idle" /\ c.tx = <<>> /\ c.pendingPriTx = <<>> /\ c.pendingSecTx = <<>>
    /\ c.pPriState = "Idle" /\ c.pSegments = NoSegments /\ c.isRemoteReset = FALSE

LEMMA RestingFacts ==
    ASSUME NEW c \in LinkContextType, Resting(c), NEW d \in LinkContextType, Resting(d),
           NEW gave \in BOOLEAN
    PROVE  /\ Live(c) /\ Off(c, FALSE, <<>>) /\ ~HasSegments(c) /\ Pri(c, FALSE).segs = <<>>
           /\ Exchange(Pri(c, FALSE), Sec(d, FALSE), <<>>, <<>>, gave)
<1> DEFINE Q == Pri(c, FALSE)
           R == Sec(d, FALSE)
<1>1. Live(c) /\ Off(c, FALSE, <<>>) /\ ~HasSegments(c)
  BY DEF Resting, Live, Off, HasSegments
<1>2. /\ Q.state = "Idle" /\ Q.segs = <<>> /\ Q.reset = FALSE /\ Q.out = <<>>
  BY DEF Resting, Pri, PriOut, NoSegments
<1>3. Q.fcb \in BOOLEAN
  BY DEF Pri, LinkContextType
<1>4. R.out = <<>>
  BY DEF Resting, Sec, SecOut
<1>5. R.fcb \in BOOLEAN
  BY DEF Sec, LinkContextType
<1> HIDE DEF Q, R
<1>6. Exchange(Q, R, <<>>, <<>>, gave)
  <2>1. DirType(Q, R, <<>>, <<>>, gave)
    BY <1>2, <1>3, <1>5, EmptyTyped DEF DirType
  <2>2. States(Q) /\ InStep(Q, R, gave)
    BY <1>2 DEF States, InStep, Resetting, Sending
  <2>3. None(<<>>, PriFunction) /\ None(<<>>, SecFunction)
    BY DEF None
  <2> QED
    BY <1>2, <1>4, <2>1, <2>2, <2>3, FreshExchange
<1> QED
  BY <1>1, <1>2, <1>6 DEF Q, R

\* Both ends rest.
LEMMA RestingFrag ==
    ASSUME StackInv', NEW n \in Node,
           \A k \in Node : Resting(link'[k]) /\ written'[k] = FALSE /\ wire'[k] = <<>>,
           Told(fragments', submitted')
    PROVE  FragInv'
<1>1. link' \in [Node -> LinkContextType] /\ gaveUp' \in BOOLEAN
  BY DEF StackInv, TypeOK
<1> DEFINE s == sender
           q == receiver
           c == link'[s]
           e == link'[q]
<1>2. s \in Node /\ q \in Node /\ q = Peer(s) /\ s # q
  BY EndsAssumption DEF Node, Peer
<1>3. /\ c \in LinkContextType /\ Resting(c) /\ e \in LinkContextType /\ Resting(e)
  BY <1>1, <1>2
<1>4. Gave(s, gaveUp') \in BOOLEAN /\ Gave(q, gaveUp') \in BOOLEAN
  BY <1>1 DEF Gave
<1>5. /\ written'[s] = FALSE /\ written'[q] = FALSE /\ wire'[s] = <<>> /\ wire'[q] = <<>>
      /\ c.config = NodeConfig[s] /\ e.config = NodeConfig[q] /\ c.up = <<>> /\ e.up = <<>>
  BY <1>2 DEF StackInv, EndInOrder
<1>6. s = sender /\ q = receiver
  OBVIOUS
<1> HIDE DEF s, q, c, e
<1>7. /\ Live(c) /\ Off(c, FALSE, <<>>) /\ Pri(c, FALSE).segs = <<>>
      /\ Exchange(Pri(c, FALSE), Sec(e, FALSE), <<>>, <<>>, Gave(s, gaveUp'))
  BY <1>3, <1>4, RestingFacts
<1>8. /\ Live(e) /\ Off(e, FALSE, <<>>) /\ ~HasSegments(e)
      /\ Exchange(Pri(e, FALSE), Sec(c, FALSE), <<>>, <<>>, Gave(q, gaveUp'))
  BY <1>3, <1>4, RestingFacts
<1>9. /\ EndIs(c, FALSE, <<>>, NodeConfig[s], transport'.isOnline)
      /\ EndIs(e, FALSE, <<>>, NodeConfig[q], transport'.isOnline)
  BY <1>5, <1>7, <1>8 DEF EndIs
<1>10. Carried(Pri(c, FALSE), Sec(e, FALSE), transmitter', rx', fragments', submitted', gaveUp')
  BY <1>7 DEF Carried, Told
<1>11. c = link'[s] /\ e = link'[q]
  BY DEF c, e
<1>12. /\ EndIs(link'[s], written'[s], wire'[s], NodeConfig[s], transport'.isOnline)
       /\ EndIs(link'[q], written'[q], wire'[q], NodeConfig[q], transport'.isOnline)
       /\ ~HasSegments(link'[receiver])
  BY <1>5, <1>6, <1>8, <1>9, <1>11
<1>13. /\ Exchange(Pri(link'[s], written'[s]), Sec(link'[q], written'[q]), wire'[q], wire'[s],
                   Gave(s, gaveUp'))
       /\ Exchange(Pri(link'[q], written'[q]), Sec(link'[s], written'[s]), wire'[s], wire'[q],
                   Gave(q, gaveUp'))
       /\ Carried(Pri(link'[s], written'[s]), Sec(link'[q], written'[q]),
                  transmitter', rx', fragments', submitted', gaveUp')
  BY <1>5, <1>7, <1>8, <1>10, <1>11
<1> QED
  BY <1>2, <1>6, <1>12, <1>13, FragBuild

\* An end that is online goes down.
LEMMA DownRests ==
    ASSUME NEW c, Full(c), c.isOnline, NEW d, d = OnLowerLayerDown(c)
    PROVE  Resting(d) /\ Full(d) /\ ~d.isOnline
<1>1. d = DownState(c) /\ c \in LinkContextType
  BY DEF OnLowerLayerDown, Full, Base
<1>2. /\ d.txMode = "Idle" /\ d.tx = <<>> /\ d.pPriState = "Idle"
      /\ d.pendingPriTx = <<>> /\ d.pendingSecTx = <<>> /\ Full(d) /\ ~d.isOnline
  BY <1>1, DownHandler
<1>3. d.isRemoteReset = FALSE /\ d.pSegments = NoSegments
  BY <1>1 DEF DownState, LinkContextType
<1> QED
  BY <1>2, <1>3 DEF Resting

\* An end that rests comes up.
LEMMA UpRests ==
    ASSUME NEW c, Full(c), ~c.isOnline, Resting(c), NEW d, d = OnLowerLayerUp(c, NoSegments)
    PROVE  Resting(d)
<1> DEFINE t == TimerStart(c.keepAliveTimer)
<1>1. /\ d = [c EXCEPT !.isOnline = TRUE, !.keepAliveTimer = t, !.linkStatus = "UNRESET"]
      /\ c \in LinkContextType
  BY DEF OnLowerLayerUp, Reply, Full, Base
<1> HIDE DEF t
<1>2. /\ d.txMode = c.txMode /\ d.tx = c.tx
      /\ d.pendingPriTx = c.pendingPriTx /\ d.pendingSecTx = c.pendingSecTx
      /\ d.pPriState = c.pPriState /\ d.pSegments = c.pSegments
      /\ d.isRemoteReset = c.isRemoteReset
  BY <1>1 DEF LinkContextType
<1> QED
  BY <1>2 DEF Resting

\* The connection is lost, whatever was under way on it.
LEMMA ConnectionLostFrag ==
    ASSUME StackInv, StackInv', Told(fragments, submitted), ConnectionLost
    PROVE  FragInv'
<1>1. /\ link' = [k \in Node |-> OnLowerLayerDown(link[k])]
      /\ written' = [k \in Node |-> FALSE] /\ wire' = [k \in Node |-> <<>>]
      /\ submitted' = submitted /\ fragments' = fragments /\ link[sender].isOnline
  BY DEF ConnectionLost
<1>2. sender \in Node
  BY DEF Node
<1>3. ASSUME NEW k \in Node
      PROVE  Resting(link'[k]) /\ written'[k] = FALSE /\ wire'[k] = <<>>
  <2>1. Full(link[k]) /\ link[k].isOnline
    BY <1>1, <1>2, NodeFacts
  <2> QED
    BY <1>1, <2>1, DownRests
<1> QED
  BY <1>1, <1>2, <1>3, RestingFrag

\* Another connection replaces the open one, whatever was under way on it.
LEMMA NewChannelFrag ==
    ASSUME StackInv, StackInv', Told(fragments, submitted), NewChannel
    PROVE  FragInv'
<1>1. /\ link' = [k \in Node |-> OnLowerLayerUp(OnLowerLayerDown(link[k]), NoSegments)]
      /\ written' = [k \in Node |-> FALSE] /\ wire' = [k \in Node |-> <<>>]
      /\ submitted' = submitted /\ fragments' = fragments /\ link[sender].isOnline
  BY DEF NewChannel
<1>2. sender \in Node
  BY DEF Node
<1>3. ASSUME NEW k \in Node
      PROVE  Resting(link'[k]) /\ written'[k] = FALSE /\ wire'[k] = <<>>
  <2> DEFINE d == OnLowerLayerDown(link[k])
  <2>1. Full(link[k]) /\ link[k].isOnline
    BY <1>1, <1>2, NodeFacts
  <2>2. Resting(d) /\ Full(d) /\ ~d.isOnline
    BY <2>1, DownRests
  <2>3. /\ link'[k] = OnLowerLayerUp(d, NoSegments)
        /\ written'[k] = FALSE /\ wire'[k] = <<>>
    BY <1>1
  <2> HIDE DEF d
  <2> QED
    BY <2>2, <2>3, UpRests
<1> QED
  BY <1>1, <1>2, <1>3, RestingFrag

\* A connection is there again.
LEMMA ConnectedFrag ==
    ASSUME StackInv, StackInv', FragInv, BothConfirm, Connected
    PROVE  FragInv'
<1>1. /\ link' = [k \in Node |-> OnLowerLayerUp(link[k], NoSegments)]
      /\ written' = written /\ wire' = wire
      /\ submitted' = submitted /\ fragments' = fragments /\ ~link[sender].isOnline
  BY DEF Connected
<1>2. sender \in Node /\ Agree(link[sender], transport, late)
  BY DEF Node, StackInv
<1>3. ~transport.isOnline /\ link[sender].pSegments = NoSegments
  BY <1>1, <1>2 DEF Agree, HasSegments
<1>4. link[receiver].pSegments = NoSegments
  BY DEF FragInv, HasSegments
<1>5. ASSUME NEW k \in Node
      PROVE  Resting(link'[k]) /\ written'[k] = FALSE /\ wire'[k] = <<>>
  <2> DEFINE c == link[k]
  <2>1. /\ Full(c) /\ Live(c) /\ c \in LinkContextType /\ ~c.isOnline
        /\ Off(c, written[k], wire[k]) /\ written[k] \in BOOLEAN
    BY <1>3, EndFacts
  <2>2. c.pSegments = NoSegments
    BY <1>3, <1>4 DEF Node
  <2>3. link'[k] = OnLowerLayerUp(c, NoSegments)
    BY <1>1
  <2> HIDE DEF c
  <2>4. c.txMode = "Idle" /\ c.pendingPriTx = <<>> /\ c.pendingSecTx = <<>>
    BY <2>1 DEF Off, Live, Full, Base, Chan
  <2>5. c.isRemoteReset = FALSE /\ c.tx = <<>> /\ c.pPriState = "Idle"
    BY <2>1 DEF Off, LinkContextType
  <2>6. Resting(c)
    BY <2>2, <2>4, <2>5 DEF Resting
  <2>7. written'[k] = FALSE /\ wire'[k] = <<>>
    BY <1>1, <2>1 DEF Off
  <2> QED
    BY <2>1, <2>3, <2>6, <2>7, UpRests
<1>6. Told(fragments', submitted')
  BY <1>1 DEF FragInv, CarriedOn, Carried, Told
<1> QED
  BY <1>2, <1>5, <1>6, RestingFrag

LEMMA FragStutter == FragInv /\ UNCHANGED vars => FragInv'
<1> SUFFICES ASSUME FragInv, UNCHANGED vars PROVE FragInv'
  OBVIOUS
<1>1. /\ link' = link /\ transport' = transport /\ transmitter' = transmitter /\ rx' = rx
      /\ written' = written /\ wire' = wire /\ submitted' = submitted
      /\ fragments' = fragments /\ gaveUp' = gaveUp
  BY DEF vars
<1> QED
  BY <1>1 DEF FragInv

\* Both ends have just come up for the first time.
LEMMA FragInit == Init => FragInv
<1> SUFFICES ASSUME Init PROVE FragInv
  OBVIOUS
<1> DEFINE Up(k) == OnLowerLayerUp(InitContext(NodeConfig[k]), NoSegments)
           s == sender
           q == receiver
<1>1. /\ link = [k \in Node |-> Up(k)] /\ transport = LayerUp(LayerInit)
      /\ written = [k \in Node |-> FALSE] /\ wire = [k \in Node |-> <<>>]
      /\ submitted = <<>> /\ fragments = <<>> /\ gaveUp = FALSE
  BY DEF Init
<1>2. s \in Node /\ q \in Node /\ Peer(s) = q /\ Peer(q) = s /\ \A k \in Node : k = s \/ k = q
  BY EndsAssumption DEF Node, Peer
<1>3. transport.isOnline
  BY <1>1, LayerFacts DEF LayerUp, LayerInit
<1>4. ASSUME NEW k \in Node
      PROVE  /\ Resting(Up(k)) /\ Up(k).config = NodeConfig[k] /\ Up(k).up = <<>>
             /\ Up(k) \in LinkContextType
  <2> DEFINE c == InitContext(NodeConfig[k])
             r == Up(k)
             t == TimerStart(c.keepAliveTimer)
  <2>1. NodeConfig[k] \in LinkLayerConfig
    BY EndsAssumption
  <2>2. c = InitContext(NodeConfig[k]) /\ r = OnLowerLayerUp(c, NoSegments)
    OBVIOUS
  <2> HIDE DEF c, r
  <2>3. /\ Full(c) /\ c.config = NodeConfig[k] /\ ~c.isOnline /\ c.up = <<>>
        /\ c.txMode = "Idle" /\ c.tx = <<>> /\ c.pendingPriTx = <<>> /\ c.pendingSecTx = <<>>
        /\ c.pPriState = "Idle" /\ c.pSegments = NoSegments /\ c.isRemoteReset = FALSE
    BY <2>1, <2>2, InitContextFacts
  <2>4. Full(r)
    BY <2>2, <2>3, UpHandler
  <2>5. c \in LinkContextType /\ r \in LinkContextType
    BY <2>3, <2>4 DEF Full, Base
  <2>6. r = [c EXCEPT !.isOnline = TRUE, !.keepAliveTimer = t, !.linkStatus = "UNRESET"]
    BY <2>2, <2>3 DEF OnLowerLayerUp, Reply
  <2> HIDE DEF t
  <2>7. /\ r.config = NodeConfig[k] /\ r.up = <<>>
        /\ r.txMode = "Idle" /\ r.tx = <<>> /\ r.pendingPriTx = <<>> /\ r.pendingSecTx = <<>>
        /\ r.pPriState = "Idle" /\ r.pSegments = NoSegments /\ r.isRemoteReset = FALSE
    BY <2>3, <2>5, <2>6 DEF LinkContextType
  <2> QED
    BY <2>5, <2>7 DEF Resting, r
<1> HIDE DEF Up, s, q
<1>5. /\ link[s] = Up(s) /\ link[q] = Up(q) /\ written[s] = FALSE /\ written[q] = FALSE
      /\ wire[s] = <<>> /\ wire[q] = <<>>
  BY <1>1, <1>2
<1>6. Gave(s, gaveUp) \in BOOLEAN /\ Gave(q, gaveUp) \in BOOLEAN
  BY <1>1 DEF Gave
<1>7. /\ Live(Up(s)) /\ Pri(Up(s), FALSE).segs = <<>>
      /\ Exchange(Pri(Up(s), FALSE), Sec(Up(q), FALSE), <<>>, <<>>, Gave(s, gaveUp))
  BY <1>2, <1>4, <1>6, RestingFacts
<1>8. /\ Live(Up(q)) /\ ~HasSegments(Up(q))
      /\ Exchange(Pri(Up(q), FALSE), Sec(Up(s), FALSE), <<>>, <<>>, Gave(q, gaveUp))
  BY <1>2, <1>4, <1>6, RestingFacts
<1>9. \A k \in Node : EndIs(link[k], written[k], wire[k], NodeConfig[k], transport.isOnline)
  BY <1>2, <1>3, <1>4, <1>5, <1>7, <1>8 DEF EndIs
<1>10. \A k \in Node : Linked(link, written, wire, gaveUp, k, Peer(k))
  BY <1>2, <1>5, <1>7, <1>8 DEF Linked
<1>11. ~HasSegments(link[receiver])
  BY <1>5, <1>8 DEF q
<1>12. CarriedOn(link, written, transmitter, rx, fragments, submitted, gaveUp)
  <2> DEFINE none == <<>>
  <2>1. DOMAIN none = {} /\ submitted = none /\ fragments = none
    BY <1>1
  <2> HIDE DEF none
  <2>2. Numbered(submitted) /\ Ordered(fragments, submitted)
    BY <2>1 DEF Numbered, Ordered, Good
  <2>3. Pri(link[sender], written[sender]).segs = <<>>
    BY <1>5, <1>7 DEF s
  <2> QED
    BY <2>2, <2>3 DEF CarriedOn, Carried
<1> QED
  BY <1>9, <1>10, <1>11, <1>12 DEF FragInv

-------------------------------------------------------------------------------
(* What holds however a connection came up: fragments are numbered as they   *)
(* are submitted, and those passed up without excuse are among them.         *)

\* Another fragment is submitted.
LEMMA BeginTransmitTold ==
    ASSUME StackInv, Told(fragments, submitted), AppBeginTransmit
    PROVE  Told(fragments', submitted') /\ late' = late
<1> DEFINE k == Len(submitted) + 1
<1>1. PICK len \in Lengths : submitted' = Append(submitted, Bytes(k, len))
  BY DEF AppBeginTransmit
<1> DEFINE f == Bytes(k, len)
<1>2. /\ Len(submitted) < MaxFragments /\ fragments' = fragments /\ late' = late
      /\ submitted \in Seq(Seq(Byte)) /\ transmitter \in TxType
  BY DEF AppBeginTransmit, StackInv, TypeOK
<1>3. k \in 1..MaxFragments
  BY <1>2, LengthsAssumption
<1>4. f = Bytes(k, len) /\ submitted' = Append(submitted, f)
  BY <1>1
<1> HIDE DEF k, f
<1>5. f \in Seq(Byte) /\ f # <<>> /\ f[1][1] = k
  BY <1>2, <1>3, <1>4, FragmentFacts, FirstByte
<1>6. Submits(submitted, f, submitted')
  BY <1>4, <1>5 DEF k, Submits
<1>7. Numbered(submitted) /\ Ordered(fragments, submitted)
  BY DEF Told
<1>8. Numbered(submitted') /\ Ordered(fragments, submitted')
  BY <1>2, <1>6, <1>7, OrderedSubmit
<1> QED
  BY <1>2, <1>8 DEF Told

\* What is passed up on such a connection is excused.
LEMMA ReceiveTold ==
    ASSUME StackInv, StackInv', Told(fragments, submitted), late, NEW n \in Node, Receive(n)
    PROVE  Told(fragments', submitted') /\ late' = late
<1> DEFINE f == Head(wire[n])
           out == PassedUp(OnFrame(link[n], f, NoSegments), f)
           p == [asdu |-> out.asdu, excused |-> gaveUp \/ late]
<1>1. /\ fragments' = fragments \/ fragments' = Append(fragments, p)
      /\ submitted' = submitted /\ late' = late
  BY DEF Receive
<1>2. p.excused
  OBVIOUS
<1> HIDE DEF p
<1>3. fragments' \in Seq(FragmentType) /\ fragments \in Seq(FragmentType)
  BY DEF StackInv, TypeOK, FragmentType
<1>4. CASE fragments' = Append(fragments, p)
  <2>1. p \in FragmentType
    <3>1. fragments'[Len(fragments) + 1] = p /\ Len(fragments) + 1 \in DOMAIN fragments'
      BY <1>3, <1>4
    <3> QED
      BY <1>3, <3>1
  <2>2. Ordered(fragments', submitted)
    BY <1>2, <1>3, <1>4, <2>1, OrderedBad DEF Told
  <2> QED
    BY <1>1, <2>2 DEF Told
<1> QED
  BY <1>1, <1>4

\* A step on such a connection that does not end it.
LEMMA LateStep ==
    ASSUME StackInv, StackInv', Told(fragments, submitted), late, [Next]_vars,
           ~ConnectionLost, ~Connected, ~NewChannel
    PROVE  Told(fragments', submitted') /\ late' = late
<1>1. CASE AppBeginTransmit
  BY <1>1, BeginTransmitTold
<1>2. CASE \E n \in Node : Receive(n)
  BY <1>2, ReceiveTold
<1>3. CASE \/ RunPosted \/ ResponseTimeout \/ Done \/ UNCHANGED vars
           \/ \E n \in Node : PutOnWire(n) \/ LoseFrame(n) \/ WriteComplete(n)
  <2>1. fragments' = fragments /\ submitted' = submitted /\ late' = late
    BY <1>3 DEF RunPosted, ResponseTimeout, Done, vars, PutOnWire, LoseFrame, WriteComplete
  <2> QED
    BY <2>1
<1> QED
  BY <1>1, <1>2, <1>3 DEF Next

\* Every action keeps the invariant, or is a step on such a connection.
LEMMA FragNext ==
    ASSUME BothConfirm, StackInv, StackInv', ~late, FragInv, [Next]_vars
    PROVE  FragInv'
<1>0. Told(fragments, submitted)
  BY DEF FragInv, CarriedOn, Carried, Told
<1>1. CASE AppBeginTransmit
  BY <1>1, BeginTransmitFrag
<1>2. CASE RunPosted
  BY <1>2, RunPostedFrag
<1>3. CASE ResponseTimeout
  BY <1>3, ResponseTimeoutFrag
<1>4. CASE \E n \in Node : PutOnWire(n) \/ LoseFrame(n) \/ WriteComplete(n) \/ Receive(n)
  BY <1>4, PutOnWireFrag, LoseFrameFrag, WriteCompleteFrag, ReceiveFrag
<1>5. CASE ConnectionLost \/ NewChannel
  BY <1>0, <1>5, ConnectionLostFrag, NewChannelFrag
<1>6. CASE Connected
  BY <1>6, ConnectedFrag
<1>7. CASE UNCHANGED vars
  BY <1>7, FragStutter
<1>8. Done => UNCHANGED vars
  BY DEF Done
<1> QED
  BY <1>1, <1>2, <1>3, <1>4, <1>5, <1>6, <1>7, <1>8 DEF Next

\* The exception is one of a connection, and gone with it.
LEMMA LateIsOpen ==
    ASSUME StackInv, Connected
    PROVE  ~late
<1>1. Agree(link[sender], transport, late) /\ ~link[sender].isOnline
  BY DEF StackInv, Connected
<1> QED
  BY <1>1 DEF Agree

\* Where both ends confirm, the fragments passed up are submitted fragments,
\* whole, in order and at most once, as long as on the connection no segment's
\* retries ran out and no completion of an earlier connection was still queued
\* when it came up: whatever the wire loses, whenever the connection is lost or
\* replaced, and whatever earlier connections left behind, TransportRx never joins
\* segments of two fragments.  Without confirmation only the sequence numbers
\* guard that, and they come round: SeqModulus segments lost in a row go unnoticed.
THEOREM FragmentsArriveIntact ==
    ASSUME BothConfirm
    PROVE  Spec => []FragmentsIntact
<1> DEFINE Held == StackInv /\ Told(fragments, submitted) /\ (~late => FragInv)
<1>1. Init => Held
  <2>1. FragInv => Told(fragments, submitted)
    BY DEF FragInv, CarriedOn, Carried, Told
  <2>2. Init => ~late
    BY DEF Init
  <2> QED
    BY <2>1, <2>2, StackInit, FragInit
<1>2. Held /\ [Next]_vars => Held'
  <2> SUFFICES ASSUME Held, [Next]_vars PROVE Held'
    OBVIOUS
  <2>1. StackInv'
    BY StackNext
  <2>2. FragInv' => Told(fragments', submitted')
    BY DEF FragInv, CarriedOn, Carried, Told
  <2>3. CASE ~late
    BY <2>1, <2>2, <2>3, FragNext
  <2>4. CASE late /\ (ConnectionLost \/ NewChannel)
    BY <2>1, <2>2, <2>4, ConnectionLostFrag, NewChannelFrag
  <2>5. CASE late /\ ~ConnectionLost /\ ~NewChannel
    <3>1. ~Connected
      BY <2>5, LateIsOpen
    <3>2. Told(fragments', submitted') /\ late' = late
      BY <2>1, <2>5, <3>1, LateStep
    <3> QED
      BY <2>1, <2>5, <3>2
  <2> QED
    BY <2>3, <2>4, <2>5
<1>3. Held => FragmentsIntact
  BY DEF FragmentsIntact, Told, Ordered, InOrder, Good
<1> QED
  BY <1>1, <1>2, <1>3, PTL DEF Spec
===============================================================================
