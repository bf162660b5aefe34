----------------------------- MODULE ReassemblyProofs -----------------------------
(***************************************************************************)
(* Proofs about Reassembly, for every set of sources, all sizes of         *)
(* fragments, segments, sequence numbers and receive buffer that meet the  *)
(* assumptions, and any number of fragments.                               *)
(*                                                                         *)
(* The heart of the inductive invariant is Behind: a receiver that holds a *)
(* part of a fragment is some number d of segments behind its sender.      *)
(* With d = 0 the part and what the sender has still to send are the       *)
(* sender's current fragment.  Otherwise every segment that is not a first *)
(* one has a number the receiver does not expect: d stays below SeqModulus *)
(* because at most MaxLostFirst fragments lose their first segment in a    *)
(* row, and a first segment that arrives makes the receiver start again.   *)
(***************************************************************************)
EXTENDS Reassembly, SequenceTheorems, TLAPS

Byte == Source \X Nat \X Nat

TxType == [payload : Seq(Byte), tpduCount : Nat, sequence : 0..(SeqModulus - 1)]

RxType == [buffer : Seq(Byte), expectedSeq : 0..(SeqModulus - 1),
           lastSource : Source \cup {"none"}]

\* A fragment has at most this many segments, and MaxLostFirst + 1 fragments in
\* a row fit into the sequence numbers.
MaxSegments == SeqModulus \div (MaxLostFirst + 1)
Window(l) == MaxSegments * l

Current(s) == sent[s][Len(sent[s])]

\* The position of the n-th fragment of s is written in its bytes.
Marked(f, s, n) ==
    /\ f \in Seq(Byte)
    /\ Len(f) \in Lengths
    /\ f[1] = <<s, n, 1>>

Layers(s) ==
    /\ layer[s] \in LayerType
    /\ holding[s] \in BOOLEAN
    /\ layer[s].isOnline
    /\ holding[s] => layer[s].isSending /\ transmitter[s].payload # <<>>

Sender(s) ==
    /\ transmitter[s] \in TxType
    /\ sent[s] \in Seq(Seq(Byte))
    /\ Len(sent[s]) <= Quota[s]
    /\ \A n \in DOMAIN sent[s] : Marked(sent[s][n], s, n)
    /\ sent[s] = <<>> => transmitter[s].payload = <<>>
    /\ sent[s] # <<>> =>
         /\ transmitter[s].tpduCount <= NumSegments(Len(Current(s)))
         /\ transmitter[s].tpduCount = 0 => transmitter[s].payload = Current(s)
         /\ transmitter[s].payload # <<>> =>
               Len(transmitter[s].payload) + transmitter[s].tpduCount * MaxTpduPayload
                  = Len(Current(s))

\* What was passed up was submitted, and completely transmitted before.
PassedUp ==
    /\ delivered \in Seq([source : Source, asdu : Seq(Byte)])
    /\ \A j \in DOMAIN delivered :
         \E i \in DOMAIN sent[delivered[j].source] :
            /\ delivered[j].asdu = sent[delivered[j].source][i]
            /\ i = Len(sent[delivered[j].source]) =>
                  transmitter[delivered[j].source].payload = <<>>
    /\ \A s \in Source : \E l \in {0} \cup DeliveredIndices(s) :
          \A i \in DeliveredIndices(s) : i <= l

\* The receiver is d segments behind source s.
Behind(s, d) ==
    /\ sent[s] # <<>>
    /\ \/ transmitter[s].sequence = receiver.expectedSeq + d
       \/ transmitter[s].sequence = receiver.expectedSeq + d - SeqModulus
    /\ d + 1 <= Window(lostFirst[s]) + (IF transmitter[s].tpduCount = 0 THEN MaxSegments
                                        ELSE transmitter[s].tpduCount)
    /\ d = 0 => /\ holding[s]
                /\ transmitter[s].tpduCount > 0
                /\ receiver.buffer \o transmitter[s].payload = Current(s)

Receiving ==
    /\ receiver \in RxType
    /\ Len(receiver.buffer) <= MaxRxFragSize
    /\ receiver.buffer # <<>> =>
          /\ receiver.lastSource \in Source
          /\ \E d \in 0..(SeqModulus - 1) : Behind(receiver.lastSource, d)

\* A fragment of which everything sent so far has arrived is what the receiver
\* holds, as long as it fits.
Partial(s) ==
    /\ holding[s]
    /\ transmitter[s].tpduCount > 0
    /\ arrived[s] \o transmitter[s].payload = Current(s)
    /\ Len(arrived[s]) <= MaxRxFragSize =>
          /\ receiver.lastSource = s
          /\ receiver.buffer = arrived[s]
          /\ receiver.expectedSeq = transmitter[s].sequence

Whole(s) ==
    /\ ~holding[s] \/ transmitter[s].tpduCount = 0
    /\ \E i \in DOMAIN sent[s] :
          /\ arrived[s] = sent[s][i]
          /\ Len(sent[s][i]) <= MaxRxFragSize => i \in DeliveredIndices(s)

Gapless(s) ==
    /\ arrived[s] \in Seq(Byte)
    /\ arrived[s] # <<>> => sent[s] # <<>> /\ (Partial(s) \/ Whole(s))

Shape ==
    /\ layer = [s \in Source |-> layer[s]]
    /\ transmitter = [s \in Source |-> transmitter[s]]
    /\ holding = [s \in Source |-> holding[s]]
    /\ sent = [s \in Source |-> sent[s]]
    /\ lostFirst = [s \in Source |-> lostFirst[s]]
    /\ arrived = [s \in Source |-> arrived[s]]

Inv ==
    /\ Shape
    /\ \A s \in Source : Layers(s) /\ Sender(s) /\ Gapless(s)
    /\ \A s \in Source : lostFirst[s] \in 0..MaxLostFirst
    /\ PassedUp
    /\ Receiving

-------------------------------------------------------------------------------
\* Sequence numbers, sizes and sequences.

LEMMA NextSeqFacts ==
    ASSUME NEW n \in 0..(SeqModulus - 1)
    PROVE  /\ NextSeq(n) \in 0..(SeqModulus - 1)
           /\ n + 1 < SeqModulus => NextSeq(n) = n + 1
           /\ n + 1 = SeqModulus => NextSeq(n) = 0
BY TransportAssumption DEF NextSeq

LEMMA MaxSegmentsFacts ==
    /\ MaxSegments \in Nat
    /\ MaxSegments * (MaxLostFirst + 1) <= SeqModulus
    /\ \A n \in Nat : (MaxLostFirst + 1) * n <= SeqModulus => n <= MaxSegments
<1> DEFINE m == MaxLostFirst + 1
           q == SeqModulus \div m
<1>1. m \in Nat /\ m > 0 /\ SeqModulus \in Nat
  BY BoundsAssumption, TransportAssumption
<1> HIDE DEF m
<1>2. q \in Nat /\ q * m <= SeqModulus /\ SeqModulus < q * m + m
  BY <1>1
<1> HIDE DEF q
<1>3. ASSUME NEW n \in Nat, m * n <= SeqModulus
      PROVE  n <= q
  <2>1. SUFFICES ASSUME n >= q + 1 PROVE FALSE
    BY <1>2
  <2>2. m * n >= m * (q + 1)
    BY <1>1, <1>2, <2>1
  <2> QED
    BY <1>1, <1>2, <1>3, <2>2
<1> QED
  BY <1>2, <1>3 DEF MaxSegments, q, m

LEMMA NumSegmentsFacts ==
    ASSUME NEW len \in Lengths
    PROVE  /\ NumSegments(len) \in Nat
           /\ NumSegments(len) <= MaxSegments
           /\ \A t \in Nat : t * MaxTpduPayload < len => t + 1 <= NumSegments(len)
<1> DEFINE P == MaxTpduPayload
           N == (len + P - 1) \div P
<1>1. P \in Nat /\ P > 0 /\ len \in Nat /\ len > 0
  BY BoundsAssumption, TransportAssumption
<1> HIDE DEF P
<1>2. N \in Nat /\ N * P <= len + P - 1 /\ len + P - 1 < N * P + P
  BY <1>1
<1> HIDE DEF N
<1>3. ASSUME NEW t \in Nat, t * P < len
      PROVE  t + 1 <= N
  <2>1. SUFFICES ASSUME N <= t PROVE FALSE
    BY <1>2
  <2>2. N * P <= t * P
    BY <1>1, <1>2, <2>1
  <2> QED
    BY <1>1, <1>2, <1>3, <2>2
<1>4. N = NumSegments(len)
  BY DEF N, P, NumSegments
<1>5. N <= MaxSegments
  BY <1>2, <1>4, NoWrapAssumption, MaxSegmentsFacts
<1> QED
  BY <1>2, <1>3, <1>4, <1>5 DEF P

LEMMA WindowFacts ==
    ASSUME NEW l \in 0..MaxLostFirst
    PROVE  /\ Window(0) = 0
           /\ Window(l) \in Nat
           /\ Window(l) + MaxSegments <= SeqModulus
           /\ Window(l + 1) = Window(l) + MaxSegments
<1> DEFINE K == MaxSegments
           M == MaxLostFirst
<1>1. K \in Nat /\ K * (M + 1) <= SeqModulus /\ M \in Nat /\ SeqModulus \in Nat
  BY MaxSegmentsFacts, BoundsAssumption, TransportAssumption
<1> HIDE DEF K, M
<1>2. l \in Nat /\ l <= M
  BY <1>1 DEF M
<1>3. K * 0 = 0 /\ K * l \in Nat /\ K * (l + 1) = K * l + K
  BY <1>1, <1>2
<1>4. K * (l + 1) <= K * (M + 1)
  BY <1>1, <1>2
<1>5. K * l + K <= SeqModulus
  BY <1>1, <1>2, <1>3, <1>4
<1> QED
  BY <1>3, <1>5 DEF Window, K

LEMMA Associative ==
    \A a, b, c \in Seq(Byte) : (a \o b) \o c = a \o (b \o c)
BY ConcatAssociative

LEMMA Concatenation ==
    ASSUME NEW a \in Seq(Byte), NEW b \in Seq(Byte), NEW c \in Seq(Byte)
    PROVE  /\ a \o b \in Seq(Byte)
           /\ Len(a \o b) = Len(a) + Len(b)
           /\ Len(a) \in Nat
           /\ (a \o b) \o c = a \o (b \o c)
           /\ a # <<>> => (a \o b)[1] = a[1] /\ a \o b # <<>>
           /\ a \o <<>> = a
           /\ a = <<>> <=> Len(a) = 0
<1>1. /\ a \o b \in Seq(Byte)
      /\ Len(a \o b) = Len(a) + Len(b)
      /\ Len(a) \in Nat
      /\ a = <<>> <=> Len(a) = 0
  OBVIOUS
<1>2. (a \o b) \o c = a \o (b \o c)
  BY ConcatAssociative
<1>3. a # <<>> => (a \o b)[1] = a[1] /\ a \o b # <<>>
  OBVIOUS
<1>4. a \o <<>> = a
  BY ConcatEmptySeq
<1> QED
  BY <1>1, <1>2, <1>3, <1>4

\* A segment and what is left after it are what there was before it.
Cut(t, seg, r) ==
    /\ r \in TxType
    /\ r.tpduCount = t.tpduCount + 1
    /\ r.sequence = NextSeq(t.sequence)
    /\ seg.payload \in Seq(Byte)
    /\ seg.payload # <<>>
    /\ seg.payload \o r.payload = t.payload
    /\ seg.fir = (t.tpduCount = 0)
    /\ seg.fin = (r.payload = <<>>)
    /\ seg.seq = t.sequence
    /\ r.payload # <<>> => Len(r.payload) + MaxTpduPayload = Len(t.payload)

LEMMA SegmentFacts ==
    ASSUME NEW t \in TxType, t.payload # <<>>
    PROVE  Cut(t, GetSegment(t), TxAdvance(t))
<1> DEFINE p == t.payload
           k == NumToSend(t)
           a == SubSeq(p, 1, k)
           b == SubSeq(p, k + 1, Len(p))
           r == TxAdvance(t)
           seg == GetSegment(t)
<1>1. p \in Seq(Byte) /\ p # <<>> /\ Len(p) \in Nat /\ Len(p) > 0
  BY DEF TxType
<1>2. k \in 1..Len(p) /\ (k = Len(p) \/ k = MaxTpduPayload)
  BY <1>1, TransportAssumption DEF NumToSend
<1> HIDE DEF p, k
<1>3. a \in Seq(Byte) /\ Len(a) = k /\ b \in Seq(Byte) /\ Len(b) = Len(p) - k
  BY <1>1, <1>2
<1>4. a \o b = p
  <2>1. a \o b = SubSeq(p, 1, Len(p))
    BY <1>1, <1>2, ConcatAdjacentSubSeq
  <2> QED
    BY <1>1, <2>1, SubSeqFull
<1>5. /\ r = [payload |-> b, tpduCount |-> t.tpduCount + 1, sequence |-> NextSeq(t.sequence)]
      /\ seg = [fir |-> t.tpduCount = 0, fin |-> k = Len(p), seq |-> t.sequence, payload |-> a]
  BY DEF TxAdvance, GetSegment, p, k
<1>6. NextSeq(t.sequence) \in 0..(SeqModulus - 1)
  BY NextSeqFacts DEF TxType
<1> HIDE DEF a, b, r, seg
<1>7. r \in TxType
  BY <1>3, <1>5, <1>6 DEF TxType
<1>8. a # <<>> /\ (b = <<>> <=> k = Len(p))
  BY <1>1, <1>2, <1>3
<1>9. b # <<>> => Len(b) + MaxTpduPayload = Len(p)
  BY <1>1, <1>2, <1>3, <1>8
<1>10. /\ r.payload = b
       /\ r.tpduCount = t.tpduCount + 1
       /\ r.sequence = NextSeq(t.sequence)
       /\ seg.payload = a
       /\ seg.seq = t.sequence
  BY <1>5
<1>11. seg.fir = (t.tpduCount = 0) /\ seg.fin = (k = Len(p))
  BY <1>5
<1>12. seg.fin = (r.payload = <<>>)
  BY <1>8, <1>10, <1>11, Zenon
<1>13. Cut(t, seg, r)
  BY <1>3, <1>4, <1>7, <1>8, <1>9, <1>10, <1>11, <1>12 DEF Cut, p
<1> QED
  BY <1>13 DEF r, seg

\* What a receiver does with a segment: it ignores it, discards the fragment
\* that became too long, keeps the bytes or passes the fragment up.
Joined(r, seg) == (IF seg.fir THEN <<>> ELSE r.buffer) \o seg.payload

Ignores(r, s, seg, out) ==
    /\ ~seg.fir /\ ~Continues(r, s, seg)
    /\ out.rx = r
    /\ out.asdu = <<>>

Drops(r, s, seg, out) ==
    /\ seg.fir \/ Continues(r, s, seg)
    /\ Len(Joined(r, seg)) > MaxRxFragSize
    /\ out.rx \in RxType
    /\ out.rx.buffer = <<>>
    /\ out.asdu = <<>>

Takes(r, s, seg, out) ==
    /\ seg.fir \/ Continues(r, s, seg)
    /\ Len(Joined(r, seg)) <= MaxRxFragSize
    /\ out.rx \in RxType
    /\ out.rx.expectedSeq = NextSeq(seg.seq)
    /\ out.rx.lastSource = s
    /\ seg.fin => out.rx.buffer = <<>> /\ out.asdu = Joined(r, seg)
    /\ ~seg.fin => out.rx.buffer = Joined(r, seg) /\ out.asdu = <<>>

LEMMA ReceiveFacts ==
    ASSUME NEW r \in RxType, NEW s \in Source, NEW seg,
           seg.payload \in Seq(Byte), seg.payload # <<>>, seg.seq \in 0..(SeqModulus - 1),
           seg.fir \in BOOLEAN, seg.fin \in BOOLEAN
    PROVE  LET out == ProcessReceive(r, s, seg)
           IN  \/ Ignores(r, s, seg, out)
               \/ Drops(r, s, seg, out)
               \/ Takes(r, s, seg, out)
<1> DEFINE q == Discarding(r, seg)
           j == q.buffer \o seg.payload
           out == ProcessReceive(r, s, seg)
<1>0. <<>> \in Seq(Byte)
  OBVIOUS
<1>1. /\ q \in RxType
      /\ q.buffer = IF seg.fir THEN <<>> ELSE r.buffer
      /\ ~seg.fir => q = r
  BY <1>0 DEF Discarding, ClearRxBuffer, RxType
<1>2. j = Joined(r, seg)
  BY <1>1 DEF Joined
<1>3. /\ j \in Seq(Byte)
      /\ Len(j) = Len(q.buffer) + Len(seg.payload)
      /\ Len(j) \in Nat
  <2>1. q.buffer \in Seq(Byte)
    BY <1>1 DEF RxType
  <2> HIDE DEF q
  <2> QED
    BY <2>1, Concatenation
<1>4. Fits(q, seg) <=> Len(j) <= MaxRxFragSize
  BY <1>3, Zenon DEF Fits
<1>5. NextSeq(seg.seq) \in 0..(SeqModulus - 1)
  BY NextSeqFacts
<1> HIDE DEF q, j
<1>6. CASE ~seg.fir /\ ~Continues(r, s, seg)
  <2>1. out = [rx |-> r, asdu |-> <<>>]
    BY <1>1, <1>6 DEF ProcessReceive, q
  <2> HIDE DEF out
  <2>2. Ignores(r, s, seg, out)
    BY <1>6, <2>1 DEF Ignores
  <2> QED
    BY <2>2 DEF out
<1>7. CASE (seg.fir \/ Continues(r, s, seg)) /\ ~Fits(q, seg)
  <2>1. out = [rx |-> ClearRxBuffer(q), asdu |-> <<>>]
    BY <1>1, <1>7 DEF ProcessReceive, q
  <2>2. ClearRxBuffer(q) \in RxType /\ ClearRxBuffer(q).buffer = <<>>
    BY <1>0, <1>1 DEF ClearRxBuffer, RxType
  <2>3. Len(Joined(r, seg)) > MaxRxFragSize
    <3>1. ~(Len(j) <= MaxRxFragSize)
      BY <1>4, <1>7, Zenon
    <3>2. Len(j) \in Nat /\ MaxRxFragSize \in Nat
      BY <1>3, TransportAssumption
    <3>3. Len(j) > MaxRxFragSize
      BY <3>1, <3>2
    <3> QED
      BY <1>2, <3>3, Zenon
  <2> HIDE DEF out
  <2>4. Drops(r, s, seg, out)
    BY <1>7, <2>1, <2>2, <2>3 DEF Drops
  <2> QED
    BY <2>4 DEF out
<1>8. CASE (seg.fir \/ Continues(r, s, seg)) /\ Fits(q, seg)
  <2> DEFINE x == [buffer |-> IF seg.fin THEN <<>> ELSE j,
                   expectedSeq |-> NextSeq(seg.seq), lastSource |-> s]
             y == IF seg.fin THEN j ELSE <<>>
  <2>1. out = [rx |-> x, asdu |-> y]
    BY <1>1, <1>8 DEF ProcessReceive, q, j
  <2>2. x \in RxType
    BY <1>0, <1>3, <1>5 DEF RxType
  <2>3. /\ x.expectedSeq = NextSeq(seg.seq)
        /\ x.lastSource = s
        /\ seg.fin => x.buffer = <<>> /\ y = Joined(r, seg)
        /\ ~seg.fin => x.buffer = Joined(r, seg) /\ y = <<>>
    BY <1>2
  <2> HIDE DEF out, x, y
  <2>4. Len(Joined(r, seg)) <= MaxRxFragSize
    BY <1>2, <1>4, <1>8
  <2>5. Takes(r, s, seg, out)
    BY <1>8, <2>1, <2>2, <2>3, <2>4 DEF Takes
  <2> QED
    BY <2>5 DEF out
<1> QED
  BY <1>6, <1>7, <1>8

\* Fragments are told apart by their first byte.
LEMMA MarkedApart ==
    ASSUME NEW s, NEW f, NEW n, NEW m, Marked(f, s, n), Marked(f, s, m)
    PROVE  n = m
BY DEF Marked

LEMMA MarkedFacts ==
    ASSUME NEW s, NEW f, NEW n, Marked(f, s, n)
    PROVE  f \in Seq(Byte) /\ f # <<>> /\ Len(f) \in Nat \ {0}
<1>1. f \in Seq(Byte) /\ Len(f) \in Nat \ {0}
  BY BoundsAssumption DEF Marked
<1> QED
  BY <1>1

LEMMA BytesMarked ==
    ASSUME NEW s \in Source, NEW n \in Nat, NEW len \in Lengths
    PROVE  Marked(Bytes(s, n, len), s, n)
<1>1. len \in Nat \ {0}
  BY BoundsAssumption
<1> DEFINE f == Bytes(s, n, len)
<1>2. f = [i \in 1..len |-> <<s, n, i>>]
  BY DEF Bytes
<1>3. \A i \in 1..len : <<s, n, i>> \in Byte
  BY <1>1 DEF Byte
<1>4. f \in Seq(Byte) /\ Len(f) = len
  BY <1>1, <1>2, <1>3, IsASeq, LenProperties
<1>5. f[1] = <<s, n, 1>>
  BY <1>1, <1>2
<1> QED
  BY <1>4, <1>5 DEF Marked

-------------------------------------------------------------------------------
\* The initial state and the steps that start a fragment.

LEMMA InitInv == Init => Inv
<1> SUFFICES ASSUME Init PROVE Inv
  OBVIOUS
<1>0. <<>> \in Seq(Byte) /\ <<>> \in Seq(Seq(Byte)) /\ Len(<<>>) = 0 /\ DOMAIN <<>> = {}
  OBVIOUS
<1>s. 0 \in 0..(SeqModulus - 1)
  BY TransportAssumption
<1>1. Shape
  BY DEF Init, Shape
<1>2. ASSUME NEW s \in Source PROVE Layers(s) /\ Sender(s) /\ Gapless(s)
  <2>1. /\ layer[s] = LayerUp(LayerInit)
        /\ transmitter[s] = TxInit
        /\ holding[s] = FALSE
        /\ sent[s] = <<>>
        /\ arrived[s] = <<>>
    BY DEF Init, Broken
  <2>2. Layers(s)
    BY <2>1 DEF Layers, LayerUp, LayerInit, LayerType
  <2>3. TxInit \in TxType /\ TxInit.payload = <<>>
    BY <1>0, <1>s DEF TxInit, TxType
  <2>4. Quota[s] \in Nat
    BY BoundsAssumption
  <2>5. Sender(s)
    BY <1>0, <2>1, <2>3, <2>4 DEF Sender
  <2>6. Gapless(s)
    BY <1>0, <2>1 DEF Gapless
  <2> QED
    BY <2>2, <2>5, <2>6
<1>3. \A s \in Source : lostFirst[s] \in 0..MaxLostFirst
  BY BoundsAssumption DEF Init
<1>4. PassedUp
  <2>1. delivered = <<>>
    BY DEF Init
  <2>2. \A s \in Source : DeliveredIndices(s) = {}
    BY <2>1 DEF DeliveredIndices
  <2>3. delivered \in Seq([source : Source, asdu : Seq(Byte)]) /\ DOMAIN delivered = {}
    BY <2>1
  <2> QED
    BY <2>2, <2>3 DEF PassedUp
<1>5. Receiving
  <2>1. receiver = RxInit
    BY DEF Init
  <2>2. RxInit \in RxType /\ RxInit.buffer = <<>> /\ Len(RxInit.buffer) = 0
    BY <1>0, <1>s DEF RxInit, RxType
  <2> QED
    BY <2>1, <2>2, TransportAssumption DEF Receiving
<1> QED
  BY <1>1, <1>2, <1>3, <1>4, <1>5 DEF Inv

\* What an Inv state knows of one source.
LEMMA OfSource ==
    ASSUME Inv, NEW s \in Source
    PROVE  /\ Layers(s) /\ Sender(s) /\ Gapless(s)
           /\ lostFirst[s] \in 0..MaxLostFirst
           /\ sent[s] # <<>> => Len(sent[s]) \in DOMAIN sent[s] /\ Marked(Current(s), s, Len(sent[s]))
<1>1. Layers(s) /\ Sender(s) /\ Gapless(s) /\ lostFirst[s] \in 0..MaxLostFirst
  BY DEF Inv
<1>2. sent[s] \in Seq(Seq(Byte)) /\ \A n \in DOMAIN sent[s] : Marked(sent[s][n], s, n)
  BY <1>1 DEF Sender
<1>3. sent[s] # <<>> => Len(sent[s]) \in DOMAIN sent[s]
  BY <1>2
<1> QED
  BY <1>1, <1>2, <1>3 DEF Current

\* A delivered position is a position of a fragment that was delivered.
LEMMA DeliveredFacts ==
    ASSUME Inv, NEW s \in Source, NEW i \in DeliveredIndices(s)
    PROVE  /\ i \in DOMAIN sent[s]
           /\ i = Len(sent[s]) => transmitter[s].payload = <<>>
<1>1. PICK j \in DOMAIN delivered : delivered[j] = [source |-> s, asdu |-> sent[s][i]]
  BY DEF DeliveredIndices
<1>2. i \in DOMAIN sent[s]
  BY DEF DeliveredIndices
<1>3. PICK n \in DOMAIN sent[delivered[j].source] :
         /\ delivered[j].asdu = sent[delivered[j].source][n]
         /\ n = Len(sent[delivered[j].source]) =>
               transmitter[delivered[j].source].payload = <<>>
  BY DEF Inv, PassedUp
<1>4. delivered[j].source = s /\ delivered[j].asdu = sent[s][i]
  BY <1>1
<1>5. /\ n \in DOMAIN sent[s] /\ sent[s][i] = sent[s][n]
      /\ n = Len(sent[s]) => transmitter[s].payload = <<>>
  BY <1>3, <1>4
<1>6. Marked(sent[s][i], s, i) /\ Marked(sent[s][n], s, n)
  BY <1>2, <1>5 DEF Inv, Sender
<1>7. n = i
  BY <1>5, <1>6, MarkedApart
<1> QED
  BY <1>2, <1>5, <1>7

\* The source that is not concerned by a step keeps its part of the invariant.
Untouched(u) ==
    /\ layer'[u] = layer[u]
    /\ transmitter'[u] = transmitter[u]
    /\ holding'[u] = holding[u]
    /\ sent'[u] = sent[u]
    /\ lostFirst'[u] = lostFirst[u]

LEMMA UntouchedKeeps ==
    ASSUME NEW u \in Source, Layers(u), Sender(u), Untouched(u)
    PROVE  Layers(u)' /\ Sender(u)'
BY DEF Layers, Sender, Untouched, Current

LEMMA ConfigureFacts ==
    ASSUME NEW t \in TxType, NEW f \in Seq(Byte)
    PROVE  LET r == Configure(t, f)
           IN  /\ r \in TxType
               /\ r.payload = f
               /\ r.tpduCount = 0
               /\ r.sequence = t.sequence
BY DEF Configure, TxType

\* What BeginTransmit does to its source.
Begun(s, f) ==
    /\ Marked(f, s, Len(sent[s]) + 1)
    /\ f = Bytes(s, Len(sent[s]) + 1, Len(f))
    /\ sent'[s] = Append(sent[s], f)
    /\ transmitter'[s] = Configure(transmitter[s], f)
    /\ layer'[s] = [layer[s] EXCEPT !.isSending = TRUE]
    /\ holding'[s] = TRUE
    /\ ~holding[s]
    /\ layer[s].isOnline
    /\ Len(sent[s]) < Quota[s]

LEMMA BeginFacts ==
    ASSUME Inv, NEW s \in Source, BeginTransmit(s)
    PROVE  /\ \E f : Begun(s, f)
           /\ \A u \in Source : u # s => Untouched(u)
           /\ \A u \in Source : lostFirst'[u] = lostFirst[u]
           /\ UNCHANGED <<receiver, delivered, lostFirst, arrived>>
           /\ Shape'
<1>1. PICK len \in Lengths :
         LET payload == Bytes(s, Len(sent[s]) + 1, len)
         IN  /\ transmitter' = [transmitter EXCEPT ![s] = Configure(@, payload)]
             /\ sent' = [sent EXCEPT ![s] = Append(@, payload)]
  BY DEF BeginTransmit
<1> DEFINE f == Bytes(s, Len(sent[s]) + 1, len)
<1>2. /\ transmitter' = [transmitter EXCEPT ![s] = Configure(@, f)]
      /\ sent' = [sent EXCEPT ![s] = Append(@, f)]
      /\ layer' = [layer EXCEPT ![s] = StartSend(@)]
      /\ holding' = [holding EXCEPT ![s] = TRUE]
      /\ UNCHANGED <<receiver, delivered, lostFirst, arrived>>
  BY <1>1 DEF BeginTransmit
<1>3. Len(sent[s]) \in Nat
  BY OfSource DEF Sender
<1>4. Marked(f, s, Len(sent[s]) + 1)
  BY <1>3, BytesMarked
<1>5. Len(f) = len
  <2>1. len \in Nat
    BY BoundsAssumption
  <2> QED
    BY <2>1 DEF Bytes
<1> HIDE DEF f
<1>6. Shape
  BY DEF Inv
<1>7. ~holding[s] /\ layer[s].isOnline /\ Len(sent[s]) < Quota[s]
  BY OfSource DEF BeginTransmit, AcceptsSend, Layers
<1>8. Begun(s, f)
  <2>1. /\ transmitter'[s] = Configure(transmitter[s], f)
        /\ sent'[s] = Append(sent[s], f)
        /\ layer'[s] = StartSend(layer[s])
        /\ holding'[s] = TRUE
    BY <1>2, <1>6 DEF Shape
  <2> QED
    BY <1>4, <1>5, <1>7, <2>1 DEF Begun, StartSend, f
<1>9. \A u \in Source : u # s => Untouched(u)
  BY <1>2, <1>6 DEF Shape, Untouched
<1>10. Shape'
  BY <1>2, <1>6 DEF Shape
<1> QED
  BY <1>2, <1>8, <1>9, <1>10

LEMMA BegunFacts ==
    ASSUME Inv, NEW s \in Source, NEW f, Begun(s, f)
    PROVE  /\ Layers(s)' /\ Sender(s)'
           /\ sent'[s] # <<>>
           /\ Len(sent'[s]) = Len(sent[s]) + 1
           /\ Len(sent[s]) \in Nat
           /\ sent'[s][Len(sent[s]) + 1] = f
           /\ DOMAIN sent[s] = 1..Len(sent[s])
           /\ DOMAIN sent'[s] = 1..(Len(sent[s]) + 1)
           /\ \A n \in DOMAIN sent[s] : sent'[s][n] = sent[s][n]
           /\ transmitter'[s].payload = f
           /\ transmitter'[s].tpduCount = 0
           /\ transmitter'[s].sequence = transmitter[s].sequence
<1> DEFINE n == Len(sent[s])
<1>1. sent[s] \in Seq(Seq(Byte)) /\ n \in Nat /\ DOMAIN sent[s] = 1..n
  BY OfSource DEF Sender
<1>2. f \in Seq(Byte) /\ f # <<>> /\ Len(f) \in Nat \ {0} /\ Marked(f, s, n + 1)
  BY MarkedFacts DEF Begun
<1>3. /\ sent'[s] \in Seq(Seq(Byte))
      /\ Len(sent'[s]) = n + 1
      /\ DOMAIN sent'[s] = 1..(n + 1)
      /\ sent'[s][n + 1] = f
      /\ \A i \in 1..n : sent'[s][i] = sent[s][i]
  <2>1. sent'[s] = Append(sent[s], f)
    BY DEF Begun
  <2> HIDE DEF n
  <2> QED
    BY <1>1, <1>2, <2>1, AppendProperties, LenProperties
<1>4. sent'[s] # <<>>
  BY <1>1, <1>3, EmptySeq
<1>5. /\ transmitter'[s] \in TxType
      /\ transmitter'[s].payload = f
      /\ transmitter'[s].tpduCount = 0
      /\ transmitter'[s].sequence = transmitter[s].sequence
  <2>1. transmitter[s] \in TxType
    BY OfSource DEF Sender
  <2>2. transmitter'[s] = Configure(transmitter[s], f)
    BY DEF Begun
  <2> QED
    BY <1>2, <2>1, <2>2, ConfigureFacts
<1>6. ASSUME NEW i \in DOMAIN sent'[s]
      PROVE  Marked(sent'[s][i], s, i)
  <2>1. i \in 1..n \/ i = n + 1
    BY <1>1, <1>3
  <2>2. \A j \in 1..n : Marked(sent[s][j], s, j)
    BY <1>1, OfSource DEF Sender
  <2> HIDE DEF n
  <2> QED
    BY <1>2, <1>3, <2>1, <2>2
<1>7. Layers(s)'
  <2>1. layer'[s] \in LayerType /\ layer'[s].isSending /\ layer'[s].isOnline
    BY OfSource DEF Begun, Layers, LayerType
  <2>2. holding'[s] = TRUE
    BY DEF Begun
  <2> QED
    BY <1>2, <1>5, <2>1, <2>2 DEF Layers
<1>8. Sender(s)'
  <2>1. NumSegments(Len(f)) \in Nat
    BY <1>2, NumSegmentsFacts DEF Marked
  <2>2. Current(s)' = f
    BY <1>3 DEF Current
  <2>3. Quota[s] \in Nat /\ n < Quota[s] /\ MaxTpduPayload \in Nat
    BY BoundsAssumption, TransportAssumption DEF Begun
  <2>4. Len(sent'[s]) <= Quota[s]
    BY <1>1, <1>3, <2>3
  <2>5. Len(f) + 0 * MaxTpduPayload = Len(f)
    BY <1>2, <2>3
  <2> QED
    BY <1>3, <1>4, <1>5, <1>6, <2>1, <2>2, <2>4, <2>5 DEF Sender
<1> QED
  BY <1>1, <1>3, <1>4, <1>5, <1>7, <1>8

LEMMA BegunIndices ==
    ASSUME Inv, NEW s \in Source, NEW f, Begun(s, f), NEW u \in Source,
           \A v \in Source : v # s => Untouched(v), delivered' = delivered
    PROVE  DeliveredIndices(u)' = DeliveredIndices(u)
<1>1. CASE u # s
  BY <1>1 DEF DeliveredIndices, Untouched
<1>2. CASE u = s
  <2> DEFINE n == Len(sent[s])
  <2>1. /\ n \in Nat
        /\ DOMAIN sent[s] = 1..n
        /\ DOMAIN sent'[s] = 1..(n + 1)
        /\ \A i \in DOMAIN sent[s] : sent'[s][i] = sent[s][i]
        /\ sent'[s][n + 1] = f
    BY BegunFacts
  <2>2. ASSUME NEW j \in DOMAIN delivered, delivered[j] = [source |-> s, asdu |-> f]
        PROVE  FALSE
    <3>1. delivered[j].source = s /\ delivered[j].asdu = f
      BY <2>2
    <3>2. PICK i \in DOMAIN sent[s] : f = sent[s][i]
      BY <3>1 DEF Inv, PassedUp
    <3>3. Marked(f, s, i) /\ Marked(f, s, n + 1)
      BY <3>2, OfSource DEF Sender, Begun
    <3>4. i = n + 1
      BY <3>3, MarkedApart
    <3> QED
      BY <2>1, <3>2, <3>4
  <2> HIDE DEF n
  <2> QED
    BY <1>2, <2>1, <2>2 DEF DeliveredIndices
<1> QED
  BY <1>1, <1>2

LEMMA PassedUpFacts ==
    ASSUME Inv, NEW j \in DOMAIN delivered
    PROVE  \E u \in Source : \E i \in DOMAIN sent[u] :
              /\ delivered[j].source = u
              /\ delivered[j].asdu = sent[u][i]
              /\ i = Len(sent[u]) => transmitter[u].payload = <<>>
<1> DEFINE R == [source : Source, asdu : Seq(Byte)]
<1>1. delivered \in Seq(R)
  BY DEF Inv, PassedUp
<1> HIDE DEF R
<1>2. delivered[j] \in R
  BY <1>1
<1>3. delivered[j].source \in Source
  BY <1>2 DEF R
<1> QED
  BY <1>3 DEF Inv, PassedUp

LEMMA ReceivingFacts ==
    ASSUME Inv, receiver.buffer # <<>>
    PROVE  \E u \in Source : \E d \in 0..(SeqModulus - 1) :
              receiver.lastSource = u /\ Behind(u, d)
BY DEF Inv, Receiving

LEMMA BehindKeeps ==
    ASSUME NEW u \in Source, NEW d, Behind(u, d), Untouched(u), receiver' = receiver
    PROVE  Behind(u, d)'
BY DEF Behind, Untouched, Current

LEMMA GaplessKeeps ==
    ASSUME NEW u \in Source, Gapless(u), Untouched(u), arrived'[u] = arrived[u],
           receiver' = receiver, DeliveredIndices(u) \subseteq DeliveredIndices(u)'
    PROVE  Gapless(u)'
<1>1. Partial(u) => Partial(u)'
  BY DEF Partial, Untouched, Current
<1>2. Whole(u) => Whole(u)'
  BY DEF Whole, Untouched
<1> QED
  BY <1>1, <1>2 DEF Gapless, Untouched

LEMMA BeginInv ==
    ASSUME Inv, NEW s \in Source, BeginTransmit(s)
    PROVE  Inv'
<1>1. PICK f : Begun(s, f)
  BY BeginFacts
<1>2. /\ \A u \in Source : u # s => Untouched(u)
      /\ \A u \in Source : lostFirst'[u] = lostFirst[u]
      /\ receiver' = receiver
      /\ delivered' = delivered
      /\ arrived' = arrived
      /\ Shape'
  BY BeginFacts
<1> DEFINE n == Len(sent[s])
<1>3. /\ Layers(s)' /\ Sender(s)'
      /\ sent'[s] # <<>>
      /\ n \in Nat /\ Len(sent'[s]) = n + 1
      /\ DOMAIN sent[s] = 1..n
      /\ DOMAIN sent'[s] = 1..(n + 1)
      /\ \A i \in DOMAIN sent[s] : sent'[s][i] = sent[s][i]
      /\ transmitter'[s].tpduCount = 0
      /\ transmitter'[s].sequence = transmitter[s].sequence
  BY <1>1, BegunFacts
<1>4. \A u \in Source : DeliveredIndices(u)' = DeliveredIndices(u)
  BY <1>1, <1>2, BegunIndices
<1>5. ASSUME NEW u \in Source PROVE Layers(u)' /\ Sender(u)'
  BY <1>2, <1>3, OfSource, UntouchedKeeps
<1>6. ASSUME NEW u \in Source PROVE Gapless(u)'
  <2>1. CASE u # s
    BY <1>2, <1>4, <2>1, OfSource, GaplessKeeps
  <2>2. CASE u = s
    <3>1. Gapless(s) /\ ~holding[s]
      BY <1>1, OfSource DEF Begun
    <3>2. Whole(s) => Whole(s)'
      <4>1. 1..n \subseteq 1..(n + 1)
        BY <1>3
      <4> HIDE DEF n
      <4> QED
        BY <1>2, <1>3, <1>4, <4>1 DEF Whole
    <3>3. ~Partial(s)
      BY <3>1 DEF Partial
    <3> QED
      BY <1>2, <1>3, <2>2, <3>1, <3>2, <3>3 DEF Gapless
  <2> QED
    BY <2>1, <2>2
<1>7. PassedUp'
  <2>1. ASSUME NEW j \in DOMAIN delivered
        PROVE  \E i \in DOMAIN sent'[delivered[j].source] :
                  /\ delivered[j].asdu = sent'[delivered[j].source][i]
                  /\ i = Len(sent'[delivered[j].source]) =>
                        transmitter'[delivered[j].source].payload = <<>>
    <3>0. PICK u \in Source : \E i \in DOMAIN sent[u] :
             /\ delivered[j].source = u
             /\ delivered[j].asdu = sent[u][i]
             /\ i = Len(sent[u]) => transmitter[u].payload = <<>>
      BY PassedUpFacts
    <3>1. PICK i \in DOMAIN sent[u] :
             /\ delivered[j].source = u
             /\ delivered[j].asdu = sent[u][i]
             /\ i = Len(sent[u]) => transmitter[u].payload = <<>>
      BY <3>0
    <3>3. CASE u # s
      BY <1>2, <3>1, <3>3 DEF Untouched
    <3>4. CASE u = s
      <4>1. i \in DOMAIN sent'[s] /\ i # Len(sent'[s])
        BY <1>3, <3>1, <3>4
      <4> QED
        BY <1>3, <3>1, <3>4, <4>1
    <3> QED
      BY <3>3, <3>4
  <2> QED
    BY <1>2, <1>4, <2>1 DEF Inv, PassedUp
<1>8. Receiving'
  <2>1. receiver.buffer # <<>> =>
           \E u \in Source, d \in 0..(SeqModulus - 1) : receiver.lastSource = u /\ Behind(u, d)'
    <3> SUFFICES ASSUME receiver.buffer # <<>>
                 PROVE  \E u \in Source, d \in 0..(SeqModulus - 1) :
                           receiver.lastSource = u /\ Behind(u, d)'
      OBVIOUS
    <3>1. PICK u \in Source, d \in 0..(SeqModulus - 1) :
             receiver.lastSource = u /\ Behind(u, d)
      BY ReceivingFacts
    <3>3. CASE u # s
      <4>1. Behind(u, d)'
        BY <1>2, <3>1, <3>3, BehindKeeps
      <4> QED
        BY <3>1, <4>1
    <3>4. CASE u = s
      <4>1. Behind(s, d) /\ d # 0
        BY <1>1, <3>1, <3>4 DEF Begun, Behind
      <4>2. /\ lostFirst[s] \in 0..MaxLostFirst
            /\ transmitter[s].tpduCount \in Nat
            /\ transmitter[s].tpduCount <= NumSegments(Len(Current(s)))
            /\ Len(Current(s)) \in Lengths
        BY <4>1, OfSource DEF Sender, Behind, TxType, Marked
      <4>3. /\ Window(lostFirst[s]) \in Nat
            /\ MaxSegments \in Nat
            /\ transmitter[s].tpduCount <= MaxSegments
        BY <4>2, WindowFacts, NumSegmentsFacts, MaxSegmentsFacts
      <4>4. d + 1 <= Window(lostFirst[s]) + MaxSegments
        BY <4>1, <4>2, <4>3 DEF Behind
      <4>5. Behind(s, d)'
        BY <1>2, <1>3, <4>1, <4>4 DEF Behind
      <4> QED
        BY <3>1, <3>4, <4>5
    <3> QED
      BY <3>3, <3>4
  <2>2. receiver \in RxType /\ Len(receiver.buffer) <= MaxRxFragSize
    BY DEF Inv, Receiving
  <2> QED
    BY <1>2, <2>1, <2>2 DEF Receiving
<1> QED
  BY <1>2, <1>5, <1>6, <1>7, <1>8 DEF Inv

-------------------------------------------------------------------------------
\* A segment is written: what lost and arriving segments have in common.

Written(s, seg) ==
    /\ holding[s]
    /\ transmitter[s].payload # <<>>
    /\ Cut(transmitter[s], seg, transmitter'[s])
    /\ holding'[s] = (transmitter'[s].payload # <<>>)
    /\ layer' = layer
    /\ sent' = sent
    /\ transmitter' = [u \in Source |-> transmitter'[u]]
    /\ holding' = [u \in Source |-> holding'[u]]
    /\ \A u \in Source : u # s => /\ transmitter'[u] = transmitter[u]
                                  /\ holding'[u] = holding[u]

LEMMA TransmittedFacts ==
    ASSUME Inv, NEW s \in Source, Transmitted(s)
    PROVE  Written(s, GetSegment(transmitter[s]))
<1>1. /\ holding[s]
      /\ transmitter' = [transmitter EXCEPT ![s] = TxAdvance(@)]
      /\ holding' = [holding EXCEPT ![s] = HasValue(TxAdvance(transmitter[s]))]
      /\ layer' = layer
      /\ sent' = sent
  BY DEF Transmitted
<1>2. Shape
  BY DEF Inv
<1>3. transmitter[s] \in TxType /\ transmitter[s].payload # <<>>
  BY <1>1, OfSource DEF Layers, Sender
<1>4. Cut(transmitter[s], GetSegment(transmitter[s]), TxAdvance(transmitter[s]))
  BY <1>3, SegmentFacts
<1>5. /\ transmitter'[s] = TxAdvance(transmitter[s])
      /\ holding'[s] = HasValue(TxAdvance(transmitter[s]))
      /\ transmitter' = [u \in Source |-> transmitter'[u]]
      /\ holding' = [u \in Source |-> holding'[u]]
      /\ \A u \in Source : u # s => /\ transmitter'[u] = transmitter[u]
                                    /\ holding'[u] = holding[u]
  BY <1>1, <1>2 DEF Shape
<1>6. holding'[s] = (transmitter'[s].payload # <<>>)
  BY <1>5 DEF HasValue
<1> QED
  BY <1>1, <1>3, <1>4, <1>5, <1>6 DEF Written

LEMMA WrittenFacts ==
    ASSUME Inv, NEW s \in Source, NEW seg, Written(s, seg)
    PROVE  /\ Layers(s)' /\ Sender(s)'
           /\ sent[s] # <<>>
           /\ transmitter[s] \in TxType
           /\ transmitter[s].tpduCount \in Nat
           /\ transmitter'[s].tpduCount = transmitter[s].tpduCount + 1
           /\ transmitter[s].tpduCount + 1 <= MaxSegments
           /\ transmitter'[s].payload \in Seq(Byte)
           /\ seg.fir = (transmitter[s].tpduCount = 0)
           /\ seg.fir => seg.payload \o transmitter'[s].payload = Current(s)
<1> DEFINE t == transmitter[s]
           r == transmitter'[s]
           P == MaxTpduPayload
           L == Len(Current(s))
<1>1. /\ holding[s]
      /\ t.payload # <<>>
      /\ layer' = layer /\ sent' = sent
      /\ holding'[s] = (r.payload # <<>>)
      /\ Cut(t, seg, r)
  BY DEF Written
<1>2. /\ r \in TxType
      /\ r.tpduCount = t.tpduCount + 1
      /\ seg.fir = (t.tpduCount = 0)
      /\ seg.payload \o r.payload = t.payload
      /\ r.payload # <<>> => Len(r.payload) + P = Len(t.payload)
  BY <1>1 DEF Cut
<1>3. Layers(s) /\ Sender(s)
  BY OfSource
<1>4. sent[s] # <<>>
  BY <1>1, <1>3 DEF Sender
<1>5. /\ t \in TxType
      /\ t.tpduCount <= NumSegments(L)
      /\ t.tpduCount = 0 => t.payload = Current(s)
      /\ Len(t.payload) + t.tpduCount * P = L
  BY <1>1, <1>3, <1>4 DEF Sender
<1>6. /\ t.tpduCount \in Nat /\ t.payload \in Seq(Byte) /\ r.payload \in Seq(Byte)
      /\ L \in Lengths
  BY <1>2, <1>4, <1>5, OfSource DEF TxType, Marked
<1>7. Len(t.payload) \in Nat /\ Len(t.payload) > 0 /\ Len(r.payload) \in Nat
  BY <1>1, <1>6
<1>8. P \in Nat /\ L \in Nat
  BY <1>6, TransportAssumption, BoundsAssumption
<1> HIDE DEF t, r, P, L
<1>9. t.tpduCount + 1 <= NumSegments(L)
  <2>1. t.tpduCount * P < L
    BY <1>5, <1>6, <1>7, <1>8
  <2> QED
    BY <1>6, <2>1, NumSegmentsFacts DEF P
<1>10. t.tpduCount + 1 <= MaxSegments
  <2>1. NumSegments(L) \in Nat /\ NumSegments(L) <= MaxSegments /\ MaxSegments \in Nat
    BY <1>6, NumSegmentsFacts, MaxSegmentsFacts
  <2> QED
    BY <1>6, <1>9, <2>1
<1>11. r.payload # <<>> => Len(r.payload) + r.tpduCount * P = L
  <2>1. (t.tpduCount + 1) * P = t.tpduCount * P + P /\ t.tpduCount * P \in Nat
    BY <1>6, <1>8
  <2> QED
    BY <1>2, <1>5, <1>7, <1>8, <2>1
<1>12. Layers(s)'
  <2>1. holding'[s] \in BOOLEAN /\ (holding'[s] => transmitter'[s].payload # <<>>)
    BY <1>1 DEF r
  <2> QED
    BY <1>1, <1>3, <2>1 DEF Layers
<1>13. Sender(s)'
  <2>1. Current(s)' = Current(s) /\ sent'[s] = sent[s]
    BY <1>1 DEF Current
  <2>2. r.tpduCount # 0 /\ r.tpduCount <= NumSegments(L)
    BY <1>2, <1>6, <1>9
  <2>3. /\ transmitter'[s].tpduCount # 0
        /\ transmitter'[s].tpduCount <= NumSegments(Len(Current(s)))
        /\ transmitter'[s] \in TxType
        /\ transmitter'[s].payload # <<>> =>
             Len(transmitter'[s].payload) + transmitter'[s].tpduCount * MaxTpduPayload
                = Len(Current(s))
    BY <1>2, <1>11, <2>2 DEF r, L, P
  <2> QED
    BY <1>3, <1>4, <2>1, <2>3 DEF Sender
<1> QED
  BY <1>2, <1>4, <1>5, <1>6, <1>10, <1>12, <1>13 DEF t, r

\* What was passed up before does not come from the fragment being sent.
LEMMA WrittenPassedUp ==
    ASSUME Inv, NEW s \in Source, NEW seg, Written(s, seg), NEW j \in DOMAIN delivered
    PROVE  \E i \in DOMAIN sent'[delivered[j].source] :
              /\ delivered[j].asdu = sent'[delivered[j].source][i]
              /\ i = Len(sent'[delivered[j].source]) =>
                    transmitter'[delivered[j].source].payload = <<>>
<1>1. PICK u \in Source : \E i \in DOMAIN sent[u] :
         /\ delivered[j].source = u
         /\ delivered[j].asdu = sent[u][i]
         /\ i = Len(sent[u]) => transmitter[u].payload = <<>>
  BY PassedUpFacts
<1>2. PICK i \in DOMAIN sent[u] :
         /\ delivered[j].source = u
         /\ delivered[j].asdu = sent[u][i]
         /\ i = Len(sent[u]) => transmitter[u].payload = <<>>
  BY <1>1
<1>3. i = Len(sent[u]) => transmitter'[u].payload = <<>>
  BY <1>2 DEF Written
<1>4. sent' = sent
  BY DEF Written
<1> QED
  BY <1>2, <1>3, <1>4

\* A segment that does not reach the buffer leaves the receiver further behind.
LEMMA FallsBehind ==
    ASSUME Inv, NEW s \in Source, NEW seg, Written(s, seg), receiver' = receiver,
           NEW d \in 0..(SeqModulus - 1), Behind(s, d),
           IF seg.fir THEN lostFirst[s] < MaxLostFirst /\ lostFirst'[s] = lostFirst[s] + 1
           ELSE lostFirst'[s] = lostFirst[s]
    PROVE  d + 1 \in 0..(SeqModulus - 1) /\ Behind(s, d + 1)'
<1> DEFINE t == transmitter[s]
           r == transmitter'[s]
           W == Window(lostFirst[s])
           K == MaxSegments
           e == receiver.expectedSeq
           l == lostFirst[s]
<1>1. /\ sent[s] # <<>>
      /\ t.tpduCount \in Nat
      /\ r.tpduCount = t.tpduCount + 1
      /\ t.tpduCount + 1 <= K
      /\ seg.fir = (t.tpduCount = 0)
      /\ t.sequence \in 0..(SeqModulus - 1)
  BY WrittenFacts DEF TxType
<1>2. r.sequence = NextSeq(t.sequence)
  BY DEF Written, Cut
<1>3. e \in 0..(SeqModulus - 1)
  BY DEF Inv, Receiving, RxType
<1>4. SeqModulus \in Nat \ {0} /\ MaxLostFirst \in Nat /\ K \in Nat
  BY TransportAssumption, BoundsAssumption, MaxSegmentsFacts
<1>5. l \in 0..MaxLostFirst
  BY OfSource
<1>6. W \in Nat /\ W + K <= SeqModulus /\ Window(l + 1) = W + K
  BY <1>5, WindowFacts
<1>7. t.tpduCount = 0 => W + K + K <= SeqModulus
  <2> SUFFICES ASSUME t.tpduCount = 0 PROVE W + K + K <= SeqModulus
    OBVIOUS
  <2>0. seg.fir
    BY <1>1
  <2>1. l + 1 \in 0..MaxLostFirst
    BY <1>4, <1>5, <2>0
  <2> QED
    BY <1>6, <2>1, WindowFacts
<1>8. /\ t.sequence = e + d \/ t.sequence = e + d - SeqModulus
      /\ d + 1 <= W + (IF t.tpduCount = 0 THEN K ELSE t.tpduCount)
  BY DEF Behind
<1>9. sent' = sent
  BY DEF Written
<1> HIDE DEF t, r, W, K, e, l
<1>10. d \in Nat /\ e \in Nat /\ t.sequence \in Nat /\ r.tpduCount \in Nat
  BY <1>1, <1>3, <1>4
<1>11. d + 1 + 1 <= Window(lostFirst'[s]) + r.tpduCount
  <2>1. CASE t.tpduCount = 0
    <3>1. lostFirst'[s] = l + 1
      BY <1>1, <2>1 DEF l
    <3>2. d + 1 <= W + K
      BY <1>8, <2>1
    <3>3. Window(lostFirst'[s]) = W + K /\ r.tpduCount = 1
      BY <1>1, <1>6, <2>1, <3>1
    <3> QED
      BY <1>4, <1>6, <1>10, <3>2, <3>3
  <2>2. CASE t.tpduCount # 0
    <3>1. lostFirst'[s] = lostFirst[s]
      BY <1>1, <2>2
    <3>2. d + 1 <= W + t.tpduCount
      BY <1>8, <2>2
    <3>3. Window(lostFirst'[s]) = W
      BY <3>1 DEF W
    <3> QED
      BY <1>1, <1>4, <1>6, <1>10, <3>2, <3>3
  <2> QED
    BY <2>1, <2>2
<1>12. d + 1 \in 0..(SeqModulus - 1)
  <2>1. CASE t.tpduCount = 0
    <3>1. d + 1 <= W + K /\ W + K + K <= SeqModulus /\ K >= 1
      BY <1>1, <1>4, <1>7, <1>8, <2>1
    <3> QED
      BY <1>4, <1>6, <1>10, <3>1
  <2>2. CASE t.tpduCount # 0
    <3>1. d + 1 <= W + t.tpduCount
      BY <1>8, <2>2
    <3> QED
      BY <1>1, <1>4, <1>6, <1>10, <3>1
  <2> QED
    BY <2>1, <2>2
<1>13. r.sequence = e + (d + 1) \/ r.sequence = e + (d + 1) - SeqModulus
  <2>1. CASE t.sequence + 1 = SeqModulus
    <3>1. r.sequence = 0
      BY <1>1, <1>2, <2>1, NextSeqFacts
    <3> QED
      BY <1>4, <1>8, <1>10, <1>12, <1>3, <2>1, <3>1
  <2>2. CASE t.sequence + 1 # SeqModulus
    <3>1. t.sequence + 1 < SeqModulus
      BY <1>1, <1>4, <2>2
    <3>2. r.sequence = t.sequence + 1
      BY <1>1, <1>2, <3>1, NextSeqFacts
    <3> QED
      BY <1>4, <1>8, <1>10, <3>2
  <2> QED
    BY <2>1, <2>2
<1>14. r.tpduCount # 0 /\ d + 1 # 0
  BY <1>1, <1>4
<1> QED
  BY <1>1, <1>9, <1>11, <1>12, <1>13, <1>14 DEF Behind, r, e

LEMMA LostInv ==
    ASSUME Inv, NEW s \in Source, SegmentLost(s)
    PROVE  Inv'
<1> DEFINE seg == GetSegment(transmitter[s])
<1>1. Written(s, seg)
  BY TransmittedFacts DEF SegmentLost
<1>2. /\ seg.fir => lostFirst[s] < MaxLostFirst
      /\ lostFirst' = IF seg.fir THEN [lostFirst EXCEPT ![s] = @ + 1] ELSE lostFirst
      /\ arrived' = [arrived EXCEPT ![s] = Broken]
      /\ receiver' = receiver
      /\ delivered' = delivered
  BY DEF SegmentLost
<1> HIDE DEF seg
<1>3. Shape
  BY DEF Inv
<1>4. /\ IF seg.fir THEN lostFirst[s] < MaxLostFirst /\ lostFirst'[s] = lostFirst[s] + 1
         ELSE lostFirst'[s] = lostFirst[s]
      /\ \A u \in Source : u # s => lostFirst'[u] = lostFirst[u]
      /\ lostFirst' = [u \in Source |-> lostFirst'[u]]
      /\ arrived' = [u \in Source |-> arrived'[u]]
      /\ arrived'[s] = <<>>
      /\ \A u \in Source : u # s => arrived'[u] = arrived[u]
  BY <1>2, <1>3 DEF Shape, Broken
<1>5. Shape'
  BY <1>1, <1>3, <1>4 DEF Shape, Written
<1>6. \A u \in Source : u # s => Untouched(u)
  BY <1>1, <1>4 DEF Untouched, Written
<1>7. \A u \in Source : DeliveredIndices(u)' = DeliveredIndices(u)
  BY <1>1, <1>2 DEF DeliveredIndices, Written
<1>8. ASSUME NEW u \in Source PROVE Layers(u)' /\ Sender(u)' /\ Gapless(u)'
  <2>1. CASE u = s
    <3>1. Gapless(s)'
      BY <1>4 DEF Gapless
    <3> QED
      BY <1>1, <2>1, <3>1, WrittenFacts
  <2>2. CASE u # s
    BY <1>2, <1>4, <1>6, <1>7, <2>2, OfSource, UntouchedKeeps, GaplessKeeps
  <2> QED
    BY <2>1, <2>2
<1>9. ASSUME NEW u \in Source PROVE lostFirst'[u] \in 0..MaxLostFirst
  <2>1. lostFirst[u] \in 0..MaxLostFirst /\ MaxLostFirst \in Nat
    BY OfSource, BoundsAssumption
  <2> QED
    BY <1>4, <2>1
<1>10. PassedUp'
  <2>1. \A j \in DOMAIN delivered : \E i \in DOMAIN sent'[delivered[j].source] :
              /\ delivered[j].asdu = sent'[delivered[j].source][i]
              /\ i = Len(sent'[delivered[j].source]) =>
                    transmitter'[delivered[j].source].payload = <<>>
    BY <1>1, WrittenPassedUp
  <2> QED
    BY <1>2, <1>7, <2>1 DEF Inv, PassedUp
<1>11. Receiving'
  <2>1. receiver.buffer # <<>> =>
           \E u \in Source, d \in 0..(SeqModulus - 1) : receiver.lastSource = u /\ Behind(u, d)'
    <3> SUFFICES ASSUME receiver.buffer # <<>>
                 PROVE  \E u \in Source, d \in 0..(SeqModulus - 1) :
                           receiver.lastSource = u /\ Behind(u, d)'
      OBVIOUS
    <3>1. PICK u \in Source, d \in 0..(SeqModulus - 1) :
             receiver.lastSource = u /\ Behind(u, d)
      BY ReceivingFacts
    <3>2. CASE u # s
      BY <1>2, <1>6, <3>1, <3>2, BehindKeeps
    <3>3. CASE u = s
      <4>1. d + 1 \in 0..(SeqModulus - 1) /\ Behind(s, d + 1)'
        BY <1>1, <1>2, <1>4, <3>1, <3>3, FallsBehind
      <4> QED
        BY <3>1, <3>3, <4>1
    <3> QED
      BY <3>2, <3>3
  <2>2. receiver \in RxType /\ Len(receiver.buffer) <= MaxRxFragSize
    BY DEF Inv, Receiving
  <2> QED
    BY <1>2, <2>1, <2>2 DEF Receiving
<1> QED
  BY <1>5, <1>8, <1>9, <1>10, <1>11 DEF Inv

-------------------------------------------------------------------------------
\* A segment arrives.

\* What the receiver puts together is the beginning of the sender's fragment.
LEMMA JoinedFacts ==
    ASSUME Inv, NEW s \in Source, NEW seg, Written(s, seg),
           seg.fir \/ Continues(receiver, s, seg)
    PROVE  /\ Joined(receiver, seg) \in Seq(Byte)
           /\ Joined(receiver, seg) # <<>>
           /\ Joined(receiver, seg) \o transmitter'[s].payload = Current(s)
<1> DEFINE p == seg.payload
           b == receiver.buffer
           r == transmitter'[s].payload
<1>1. /\ p \in Seq(Byte) /\ p # <<>>
      /\ p \o r = transmitter[s].payload
      /\ seg.seq = transmitter[s].sequence
  BY DEF Written, Cut
<1>2. r \in Seq(Byte) /\ (seg.fir => p \o r = Current(s))
  BY WrittenFacts
<1>3. b \in Seq(Byte)
  BY DEF Inv, Receiving, RxType
<1>4. CASE seg.fir
  <2>1. Joined(receiver, seg) = p
    BY <1>1, <1>4 DEF Joined
  <2> QED
    BY <1>1, <1>2, <1>4, <2>1
<1>5. CASE ~seg.fir
  <2>1. b # <<>> /\ seg.seq = receiver.expectedSeq /\ receiver.lastSource = s
    BY <1>5 DEF Continues
  <2>2. PICK d \in 0..(SeqModulus - 1) : Behind(s, d)
    BY <2>1, ReceivingFacts
  <2>3. d = 0
    <3>1. receiver.expectedSeq \in 0..(SeqModulus - 1) /\ SeqModulus \in Nat
      BY TransportAssumption DEF Inv, Receiving, RxType
    <3>2. \/ receiver.expectedSeq = receiver.expectedSeq + d
          \/ receiver.expectedSeq = receiver.expectedSeq + d - SeqModulus
      BY <1>1, <2>1, <2>2 DEF Behind
    <3> QED
      BY <3>1, <3>2
  <2>4. b \o transmitter[s].payload = Current(s)
    BY <2>2, <2>3 DEF Behind
  <2>5. Joined(receiver, seg) = b \o p
    BY <1>5 DEF Joined
  <2> HIDE DEF p, b, r
  <2>6. b \o p \in Seq(Byte) /\ b \o p # <<>> /\ (b \o p) \o r = b \o (p \o r)
    <3>1. b \o p \in Seq(Byte) /\ (b # <<>> => b \o p # <<>>)
      BY <1>1, <1>3, Concatenation
    <3>2. (b \o p) \o r = b \o (p \o r)
      <4>1. p \in Seq(Byte) /\ r \in Seq(Byte)
        BY <1>1, <1>2
      <4> QED
        BY <1>3, <4>1, Associative, Zenon
    <3> QED
      BY <2>1, <3>1, <3>2
  <2> QED
    BY <1>1, <2>4, <2>5, <2>6 DEF r
<1> QED
  BY <1>4, <1>5

\* What SegmentArrives does beside the sender's part: the counters, and the
\* four things a receiver may do.
Booked(s, seg) ==
    /\ lostFirst'[s] = IF seg.fir THEN 0 ELSE lostFirst[s]
    /\ \A u \in Source : u # s => lostFirst'[u] = lostFirst[u]
    /\ lostFirst' = [u \in Source |-> lostFirst'[u]]
    /\ arrived'[s] = IF seg.fir THEN seg.payload
                     ELSE IF arrived[s] = <<>> THEN <<>> ELSE arrived[s] \o seg.payload
    /\ \A u \in Source : u # s => arrived'[u] = IF seg.fir THEN <<>> ELSE arrived[u]
    /\ arrived' = [u \in Source |-> arrived'[u]]

Ignored(s, seg) ==
    /\ ~seg.fir /\ ~Continues(receiver, s, seg)
    /\ receiver' = receiver
    /\ delivered' = delivered

Dropped(s, seg) ==
    /\ seg.fir \/ Continues(receiver, s, seg)
    /\ Len(Joined(receiver, seg)) > MaxRxFragSize
    /\ receiver' \in RxType
    /\ receiver'.buffer = <<>>
    /\ delivered' = delivered

Kept(s, seg) ==
    /\ seg.fir \/ Continues(receiver, s, seg)
    /\ Len(Joined(receiver, seg)) <= MaxRxFragSize
    /\ transmitter'[s].payload # <<>>
    /\ receiver' \in RxType
    /\ receiver'.expectedSeq = transmitter'[s].sequence
    /\ receiver'.lastSource = s
    /\ receiver'.buffer = Joined(receiver, seg)
    /\ delivered' = delivered

Passed(s, seg) ==
    /\ seg.fir \/ Continues(receiver, s, seg)
    /\ transmitter'[s].payload = <<>>
    /\ receiver' \in RxType
    /\ receiver'.buffer = <<>>
    /\ delivered' = Append(delivered, [source |-> s, asdu |-> Current(s)])

LEMMA ArriveFacts ==
    ASSUME Inv, NEW s \in Source, SegmentArrives(s)
    PROVE  \E seg : /\ Written(s, seg)
                    /\ Booked(s, seg)
                    /\ Ignored(s, seg) \/ Dropped(s, seg) \/ Kept(s, seg) \/ Passed(s, seg)
<1> DEFINE seg == GetSegment(transmitter[s])
           out == ProcessReceive(receiver, s, seg)
<1>1. Written(s, seg)
  BY TransmittedFacts DEF SegmentArrives
<1>2. /\ receiver' = out.rx
      /\ delivered' = IF out.asdu = <<>> THEN delivered
                      ELSE Append(delivered, [source |-> s, asdu |-> out.asdu])
      /\ lostFirst' = IF seg.fir THEN [lostFirst EXCEPT ![s] = 0] ELSE lostFirst
      /\ arrived' = Arrived(s, seg)
  BY DEF SegmentArrives
<1>3. /\ seg.payload \in Seq(Byte) /\ seg.payload # <<>>
      /\ seg.seq = transmitter[s].sequence
      /\ transmitter'[s].sequence = NextSeq(transmitter[s].sequence)
      /\ seg.fir = (transmitter[s].tpduCount = 0)
      /\ seg.fin = (transmitter'[s].payload = <<>>)
  BY <1>1 DEF Written, Cut
<1>4. transmitter[s].sequence \in 0..(SeqModulus - 1) /\ transmitter'[s].payload \in Seq(Byte)
  BY <1>1, WrittenFacts DEF TxType
<1> HIDE DEF seg
<1>5. /\ receiver \in RxType
      /\ seg.fir \in BOOLEAN /\ seg.fin \in BOOLEAN
      /\ seg.seq \in 0..(SeqModulus - 1)
  BY <1>3, <1>4 DEF Inv, Receiving
<1>6. \/ Ignores(receiver, s, seg, out)
      \/ Drops(receiver, s, seg, out)
      \/ Takes(receiver, s, seg, out)
  BY <1>3, <1>5, ReceiveFacts
<1> HIDE DEF out
<1>7. Booked(s, seg)
  <2>1. Shape
    BY DEF Inv
  <2>2. /\ lostFirst'[s] = IF seg.fir THEN 0 ELSE lostFirst[s]
        /\ \A u \in Source : u # s => lostFirst'[u] = lostFirst[u]
        /\ lostFirst' = [u \in Source |-> lostFirst'[u]]
    BY <1>2, <2>1 DEF Shape
  <2>3. /\ arrived'[s] = IF seg.fir THEN seg.payload
                         ELSE IF arrived[s] = <<>> THEN <<>> ELSE arrived[s] \o seg.payload
        /\ \A u \in Source : u # s => arrived'[u] = IF seg.fir THEN <<>> ELSE arrived[u]
        /\ arrived' = [u \in Source |-> arrived'[u]]
    BY <1>2, <2>1 DEF Shape, Arrived, Broken
  <2> QED
    BY <2>2, <2>3 DEF Booked
<1>8. CASE Ignores(receiver, s, seg, out)
  <2>1. Ignored(s, seg)
    BY <1>2, <1>8 DEF Ignores, Ignored
  <2> QED
    BY <1>1, <1>7, <2>1
<1>9. CASE Drops(receiver, s, seg, out)
  <2>1. Dropped(s, seg)
    BY <1>2, <1>9 DEF Drops, Dropped
  <2> QED
    BY <1>1, <1>7, <2>1
<1>10. CASE Takes(receiver, s, seg, out) /\ ~seg.fin
  <2>1. Kept(s, seg)
    BY <1>2, <1>3, <1>10 DEF Takes, Kept
  <2> QED
    BY <1>1, <1>7, <2>1
<1>11. CASE Takes(receiver, s, seg, out) /\ seg.fin
  <2>1. transmitter'[s].payload = <<>>
    BY <1>3, <1>11
  <2>2. seg.fir \/ Continues(receiver, s, seg)
    BY <1>11 DEF Takes
  <2>3. /\ Joined(receiver, seg) \in Seq(Byte)
        /\ Joined(receiver, seg) # <<>>
        /\ Joined(receiver, seg) \o <<>> = Current(s)
    BY <1>1, <2>1, <2>2, JoinedFacts
  <2>4. Joined(receiver, seg) = Current(s)
    BY <2>3, ConcatEmptySeq
  <2>5. out.asdu = Current(s) /\ out.asdu # <<>>
    BY <1>11, <2>3, <2>4 DEF Takes
  <2>6. Passed(s, seg)
    BY <1>2, <1>11, <2>1, <2>2, <2>5 DEF Takes, Passed
  <2> QED
    BY <1>1, <1>7, <2>6
<1> QED
  BY <1>6, <1>8, <1>9, <1>10, <1>11

\* A fragment that is passed up adds its position to the delivered ones.
LEMMA PassedIndices ==
    ASSUME Inv, NEW s \in Source, NEW seg, Written(s, seg), Passed(s, seg)
    PROVE  /\ Len(sent[s]) \in DOMAIN sent[s]
           /\ DeliveredIndices(s)' = DeliveredIndices(s) \cup {Len(sent[s])}
           /\ \A u \in Source : u # s => DeliveredIndices(u)' = DeliveredIndices(u)
           /\ Len(delivered) \in Nat
           /\ DOMAIN delivered = 1..Len(delivered)
           /\ DOMAIN delivered' = 1..(Len(delivered) + 1)
           /\ \A j \in DOMAIN delivered : delivered'[j] = delivered[j]
           /\ delivered'[Len(delivered) + 1] = [source |-> s, asdu |-> Current(s)]
           /\ delivered' \in Seq([source : Source, asdu : Seq(Byte)])
<1> DEFINE R == [source : Source, asdu : Seq(Byte)]
           e == [source |-> s, asdu |-> Current(s)]
           n == Len(sent[s])
<1>1. n \in DOMAIN sent[s] /\ Marked(Current(s), s, n)
  BY WrittenFacts, OfSource
<1>2. delivered \in Seq(R) /\ e \in R
  BY <1>1 DEF Inv, PassedUp, Marked
<1>3. delivered' = Append(delivered, e)
  BY DEF Passed
<1> HIDE DEF R, e, n
<1>4. /\ Len(delivered) \in Nat
      /\ DOMAIN delivered = 1..Len(delivered)
      /\ DOMAIN delivered' = 1..(Len(delivered) + 1)
      /\ \A j \in DOMAIN delivered : delivered'[j] = delivered[j]
      /\ delivered'[Len(delivered) + 1] = e
      /\ delivered' \in Seq(R)
  BY <1>2, <1>3, AppendProperties, LenProperties
<1>5. sent' = sent
  BY DEF Written
<1>6. ASSUME NEW u \in Source, NEW i \in DOMAIN sent[u]
      PROVE  (\E j \in DOMAIN delivered' : delivered'[j] = [source |-> u, asdu |-> sent[u][i]])
             <=> \/ \E j \in DOMAIN delivered : delivered[j] = [source |-> u, asdu |-> sent[u][i]]
                 \/ e = [source |-> u, asdu |-> sent[u][i]]
  <2>1. \A j : j \in 1..(Len(delivered) + 1) <=> j \in 1..Len(delivered) \/ j = Len(delivered) + 1
    BY <1>4
  <2> QED
    BY <1>4, <2>1, Zenon
<1>7. ASSUME NEW u \in Source, NEW i \in DOMAIN sent[u],
             e = [source |-> u, asdu |-> sent[u][i]]
      PROVE  u = s /\ i = n
  <2>1. e.source = s /\ e.asdu = Current(s) /\ e.source = u /\ e.asdu = sent[u][i]
    BY <1>7 DEF e
  <2>2. Marked(sent[s][i], s, i)
    BY <1>7, <2>1, OfSource DEF Sender
  <2> QED
    BY <1>1, <2>1, <2>2, MarkedApart
<1>8. e = [source |-> s, asdu |-> sent[s][n]]
  BY DEF e, n, Current
<1>9. DeliveredIndices(s)' = DeliveredIndices(s) \cup {n}
  BY <1>1, <1>5, <1>6, <1>7, <1>8 DEF DeliveredIndices
<1>10. \A u \in Source : u # s => DeliveredIndices(u)' = DeliveredIndices(u)
  BY <1>5, <1>6, <1>7 DEF DeliveredIndices
<1> QED
  BY <1>1, <1>4, <1>9, <1>10 DEF n, e, R

Received(s, seg) == Ignored(s, seg) \/ Dropped(s, seg) \/ Kept(s, seg) \/ Passed(s, seg)

LEMMA ArriveIndices ==
    ASSUME Inv, NEW s \in Source, NEW seg, Written(s, seg), Received(s, seg), NEW u \in Source
    PROVE  DeliveredIndices(u) \subseteq DeliveredIndices(u)'
<1>1. CASE delivered' = delivered
  BY <1>1 DEF DeliveredIndices, Written
<1>2. CASE Passed(s, seg)
  BY <1>2, PassedIndices
<1> QED
  BY <1>1, <1>2 DEF Received, Ignored, Dropped, Kept

LEMMA ArrivePassedUp ==
    ASSUME Inv, NEW s \in Source, NEW seg, Written(s, seg), Received(s, seg)
    PROVE  PassedUp'
<1>1. \A j \in DOMAIN delivered : \E i \in DOMAIN sent'[delivered[j].source] :
            /\ delivered[j].asdu = sent'[delivered[j].source][i]
            /\ i = Len(sent'[delivered[j].source]) =>
                  transmitter'[delivered[j].source].payload = <<>>
  BY WrittenPassedUp
<1>2. CASE delivered' = delivered
  <2>1. \A u \in Source : DeliveredIndices(u)' = DeliveredIndices(u)
    BY <1>2 DEF DeliveredIndices, Written
  <2> QED
    BY <1>1, <1>2, <2>1 DEF Inv, PassedUp
<1>3. CASE Passed(s, seg)
  <2> DEFINE n == Len(sent[s])
             m == Len(delivered)
  <2>1. /\ n \in DOMAIN sent[s]
        /\ DeliveredIndices(s)' = DeliveredIndices(s) \cup {n}
        /\ \A u \in Source : u # s => DeliveredIndices(u)' = DeliveredIndices(u)
        /\ m \in Nat
        /\ DOMAIN delivered = 1..m
        /\ DOMAIN delivered' = 1..(m + 1)
        /\ \A j \in DOMAIN delivered : delivered'[j] = delivered[j]
        /\ delivered'[m + 1] = [source |-> s, asdu |-> Current(s)]
        /\ delivered' \in Seq([source : Source, asdu : Seq(Byte)])
    BY <1>3, PassedIndices
  <2>2. sent' = sent /\ transmitter'[s].payload = <<>>
    BY <1>3 DEF Written, Passed
  <2>3. ASSUME NEW j \in DOMAIN delivered'
        PROVE  \E i \in DOMAIN sent'[delivered'[j].source] :
                  /\ delivered'[j].asdu = sent'[delivered'[j].source][i]
                  /\ i = Len(sent'[delivered'[j].source]) =>
                        transmitter'[delivered'[j].source].payload = <<>>
    <3>1. CASE j = m + 1
      <4>1. delivered'[j].source = s /\ delivered'[j].asdu = sent[s][n]
        BY <2>1, <3>1 DEF Current
      <4> HIDE DEF n, m
      <4> QED
        BY <2>1, <2>2, <4>1
    <3>2. CASE j # m + 1
      <4>1. j \in DOMAIN delivered
        BY <2>1, <3>2
      <4> QED
        BY <1>1, <2>1, <4>1
    <3> QED
      BY <3>1, <3>2
  <2>4. ASSUME NEW u \in Source
        PROVE  \E l \in {0} \cup DeliveredIndices(u)' : \A i \in DeliveredIndices(u)' : i <= l
    <3>1. CASE u = s
      <4>1. \A i \in DeliveredIndices(s) : i \in DOMAIN sent[s]
        BY DEF DeliveredIndices
      <4>2. DOMAIN sent[s] = 1..n /\ n \in Nat
        BY OfSource DEF Sender
      <4>3. \A i \in DeliveredIndices(s)' : i <= n
        BY <2>1, <4>1, <4>2
      <4> QED
        BY <2>1, <3>1, <4>3
    <3>2. CASE u # s
      BY <2>1, <3>2 DEF Inv, PassedUp
    <3> QED
      BY <3>1, <3>2
  <2> QED
    BY <2>1, <2>3, <2>4 DEF PassedUp
<1> QED
  BY <1>2, <1>3 DEF Received, Ignored, Dropped, Kept

LEMMA ArriveReceiving ==
    ASSUME Inv, NEW s \in Source, NEW seg, Written(s, seg), Booked(s, seg), Received(s, seg),
           \A u \in Source : u # s => Untouched(u)
    PROVE  Receiving'
<1>0. MaxRxFragSize \in Nat /\ Len(<<>>) = 0
  BY TransportAssumption
<1>1. CASE Ignored(s, seg)
  <2>1. receiver' = receiver /\ ~seg.fir
    BY <1>1 DEF Ignored
  <2>2. lostFirst'[s] = lostFirst[s]
    BY <2>1 DEF Booked
  <2>3. receiver.buffer # <<>> =>
           \E u \in Source, d \in 0..(SeqModulus - 1) : receiver.lastSource = u /\ Behind(u, d)'
    <3> SUFFICES ASSUME receiver.buffer # <<>>
                 PROVE  \E u \in Source, d \in 0..(SeqModulus - 1) :
                           receiver.lastSource = u /\ Behind(u, d)'
      OBVIOUS
    <3>1. PICK u \in Source, d \in 0..(SeqModulus - 1) :
             receiver.lastSource = u /\ Behind(u, d)
      BY ReceivingFacts
    <3>2. CASE u # s
      BY <2>1, <3>1, <3>2, BehindKeeps
    <3>3. CASE u = s
      <4>1. d + 1 \in 0..(SeqModulus - 1) /\ Behind(s, d + 1)'
        BY <2>1, <2>2, <3>1, <3>3, FallsBehind
      <4> QED
        BY <3>1, <3>3, <4>1
    <3> QED
      BY <3>2, <3>3
  <2>4. receiver \in RxType /\ Len(receiver.buffer) <= MaxRxFragSize
    BY DEF Inv, Receiving
  <2> QED
    BY <2>1, <2>3, <2>4 DEF Receiving
<1>2. CASE Dropped(s, seg) \/ Passed(s, seg)
  <2>1. receiver' \in RxType /\ receiver'.buffer = <<>>
    BY <1>2 DEF Dropped, Passed
  <2> QED
    BY <1>0, <2>1 DEF Receiving
<1>3. CASE Kept(s, seg)
  <2>1. /\ receiver' \in RxType
        /\ receiver'.expectedSeq = transmitter'[s].sequence
        /\ receiver'.lastSource = s
        /\ receiver'.buffer = Joined(receiver, seg)
        /\ transmitter'[s].payload # <<>>
        /\ Len(Joined(receiver, seg)) <= MaxRxFragSize
        /\ seg.fir \/ Continues(receiver, s, seg)
    BY <1>3 DEF Kept
  <2>2. Joined(receiver, seg) \o transmitter'[s].payload = Current(s)
    BY <2>1, JoinedFacts
  <2>3. sent' = sent /\ holding'[s] /\ Current(s)' = Current(s)
    BY <2>1 DEF Written, Current
  <2>4. /\ sent[s] # <<>>
        /\ transmitter[s].tpduCount \in Nat
        /\ transmitter'[s].tpduCount = transmitter[s].tpduCount + 1
    BY WrittenFacts
  <2>5. lostFirst'[s] \in 0..MaxLostFirst
    <3>1. lostFirst[s] \in 0..MaxLostFirst /\ 0 \in 0..MaxLostFirst
      BY OfSource, BoundsAssumption
    <3> QED
      BY <3>1 DEF Booked
  <2>6. Window(lostFirst'[s]) \in Nat
    BY <2>5, WindowFacts
  <2>7. transmitter'[s].tpduCount > 0 /\ transmitter'[s].tpduCount # 0
    BY <2>4
  <2>8. 0 + 1 <= Window(lostFirst'[s]) + transmitter'[s].tpduCount
    BY <2>4, <2>6
  <2>9. receiver'.expectedSeq + 0 = receiver'.expectedSeq
    BY <2>1 DEF RxType
  <2>10. Behind(s, 0)'
    BY <2>1, <2>2, <2>3, <2>4, <2>7, <2>8, <2>9 DEF Behind
  <2>11. 0 \in 0..(SeqModulus - 1)
    BY TransportAssumption
  <2> QED
    BY <2>1, <2>10, <2>11 DEF Receiving
<1> QED
  BY <1>1, <1>2, <1>3 DEF Received

\* A segment that follows what has arrived of its fragment is taken, if it fits.
LEMMA ArriveJoins ==
    ASSUME Inv, NEW s \in Source, NEW seg, Written(s, seg), Booked(s, seg),
           arrived'[s] # <<>>
    PROVE  /\ arrived'[s] \in Seq(Byte)
           /\ arrived'[s] \o transmitter'[s].payload = Current(s)
           /\ Len(arrived'[s]) <= MaxRxFragSize =>
                 /\ seg.fir \/ Continues(receiver, s, seg)
                 /\ Joined(receiver, seg) = arrived'[s]
<1> DEFINE p == seg.payload
           a == arrived[s]
           r == transmitter'[s].payload
<1>1. /\ p \in Seq(Byte) /\ p # <<>>
      /\ p \o r = transmitter[s].payload
      /\ seg.seq = transmitter[s].sequence
  BY DEF Written, Cut
<1>2. /\ r \in Seq(Byte)
      /\ seg.fir => p \o r = Current(s)
      /\ seg.fir = (transmitter[s].tpduCount = 0)
  BY WrittenFacts
<1>3. CASE seg.fir
  <2>1. arrived'[s] = p
    BY <1>3 DEF Booked
  <2>2. Joined(receiver, seg) = p
    BY <1>1, <1>3 DEF Joined
  <2> QED
    BY <1>1, <1>2, <1>3, <2>1, <2>2
<1>4. CASE ~seg.fir
  <2>1. a # <<>> /\ arrived'[s] = a \o p
    BY <1>4 DEF Booked
  <2>2. a \in Seq(Byte) /\ (Partial(s) \/ Whole(s))
    BY <2>1, OfSource DEF Gapless
  <2>3. ~Whole(s)
    BY <1>2, <1>4 DEF Whole, Written
  <2>4. /\ a \o transmitter[s].payload = Current(s)
        /\ Len(a) <= MaxRxFragSize =>
              /\ receiver.lastSource = s
              /\ receiver.buffer = a
              /\ receiver.expectedSeq = transmitter[s].sequence
    BY <2>2, <2>3 DEF Partial
  <2>5. Len(a) <= MaxRxFragSize => /\ Continues(receiver, s, seg)
                                   /\ Joined(receiver, seg) = a \o p
    BY <1>1, <1>4, <2>1, <2>4 DEF Continues, Joined
  <2> HIDE DEF p, a, r
  <2>6. p \in Seq(Byte)
    BY <1>1
  <2>7. (a \o p) \o r = a \o (p \o r)
    BY <1>2, <2>2, <2>6, Associative, Zenon
  <2>8. /\ a \o p \in Seq(Byte)
        /\ Len(a \o p) = Len(a) + Len(p)
        /\ Len(a) \in Nat /\ Len(p) \in Nat
    BY <2>2, <2>6
  <2>9. Len(a \o p) <= MaxRxFragSize => Len(a) <= MaxRxFragSize
    BY <2>8, TransportAssumption
  <2>10. (a \o p) \o r = Current(s)
    BY <1>1, <2>4, <2>7
  <2> QED
    BY <2>1, <2>5, <2>8, <2>9, <2>10 DEF r
<1> QED
  BY <1>3, <1>4

LEMMA ArriveGapless ==
    ASSUME Inv, NEW s \in Source, NEW seg, Written(s, seg), Booked(s, seg), Received(s, seg)
    PROVE  Gapless(s)'
<1>0. <<>> \in Seq(Byte)
  OBVIOUS
<1>1. CASE arrived'[s] = <<>>
  BY <1>0, <1>1 DEF Gapless
<1>2. CASE arrived'[s] # <<>>
  <2> DEFINE a == arrived'[s]
             r == transmitter'[s].payload
             n == Len(sent[s])
  <2>1. /\ a \in Seq(Byte)
        /\ a \o r = Current(s)
        /\ Len(a) <= MaxRxFragSize =>
              (seg.fir \/ Continues(receiver, s, seg)) /\ Joined(receiver, seg) = a
    BY <1>2, ArriveJoins
  <2>2. /\ sent' = sent
        /\ Current(s)' = Current(s)
        /\ holding'[s] = (r # <<>>)
    BY DEF Written, Current
  <2>3. /\ sent[s] # <<>> /\ n \in DOMAIN sent[s]
        /\ transmitter[s].tpduCount \in Nat
        /\ transmitter'[s].tpduCount = transmitter[s].tpduCount + 1
    BY WrittenFacts, OfSource
  <2>4. Len(a) <= MaxRxFragSize => Kept(s, seg) \/ Passed(s, seg)
    <3> SUFFICES ASSUME Len(a) <= MaxRxFragSize PROVE Kept(s, seg) \/ Passed(s, seg)
      OBVIOUS
    <3>1. ~Ignored(s, seg)
      BY <2>1 DEF Ignored
    <3>2. ~(Len(a) > MaxRxFragSize)
      <4>1. Len(a) \in Nat /\ MaxRxFragSize \in Nat
        BY <2>1, TransportAssumption
      <4> QED
        BY <4>1
    <3>3. ~Dropped(s, seg)
      BY <2>1, <3>2 DEF Dropped
    <3> QED
      BY <3>1, <3>3 DEF Received
  <2>5. CASE r # <<>>
    <3>1. Len(a) <= MaxRxFragSize =>
             /\ receiver'.lastSource = s
             /\ receiver'.buffer = a
             /\ receiver'.expectedSeq = transmitter'[s].sequence
      BY <2>1, <2>4, <2>5 DEF Kept, Passed
    <3>2. transmitter'[s].tpduCount > 0
      BY <2>3
    <3>3. Partial(s)'
      BY <2>1, <2>2, <2>5, <3>1, <3>2 DEF Partial
    <3> QED
      BY <2>1, <2>2, <2>3, <3>3 DEF Gapless
  <2>6. CASE r = <<>>
    <3>1. a = sent[s][n]
      BY <2>1, <2>6, ConcatEmptySeq DEF Current
    <3>2. Len(a) <= MaxRxFragSize => Passed(s, seg)
      BY <2>4, <2>6 DEF Kept
    <3>3. Len(a) <= MaxRxFragSize => n \in DeliveredIndices(s)'
      BY <3>2, PassedIndices
    <3>4. Whole(s)'
      BY <2>2, <2>3, <2>6, <3>1, <3>3 DEF Whole
    <3> QED
      BY <2>1, <2>2, <2>3, <3>4 DEF Gapless
  <2> QED
    BY <2>5, <2>6
<1> QED
  BY <1>1, <1>2

LEMMA ArriveGaplessOthers ==
    ASSUME Inv, NEW s \in Source, NEW seg, Written(s, seg), Booked(s, seg), Received(s, seg),
           NEW u \in Source, u # s, Untouched(u)
    PROVE  Gapless(u)'
<1>0. <<>> \in Seq(Byte)
  OBVIOUS
<1>1. CASE seg.fir
  <2>1. arrived'[u] = <<>>
    BY <1>1 DEF Booked
  <2> QED
    BY <1>0, <2>1 DEF Gapless
<1>2. CASE ~seg.fir
  <2>1. arrived'[u] = arrived[u]
    BY <1>2 DEF Booked
  <2>2. DeliveredIndices(u) \subseteq DeliveredIndices(u)'
    BY ArriveIndices
  <2>3. Whole(u) => Whole(u)'
    BY <2>1, <2>2 DEF Whole, Untouched
  <2>4. Partial(u) => Partial(u)'
    <3>1. receiver.lastSource = u => receiver' = receiver
      <4>1. receiver.lastSource = u => ~Continues(receiver, s, seg)
        BY DEF Continues
      <4> QED
        BY <1>2, <4>1 DEF Received, Ignored, Dropped, Kept, Passed
    <3> QED
      BY <2>1, <3>1 DEF Partial, Untouched, Current
  <2>5. Gapless(u)
    BY OfSource
  <2> QED
    BY <2>1, <2>3, <2>4, <2>5 DEF Gapless, Untouched
<1> QED
  BY <1>1, <1>2

LEMMA ArriveInv ==
    ASSUME Inv, NEW s \in Source, SegmentArrives(s)
    PROVE  Inv'
<1>1. PICK seg : Written(s, seg) /\ Booked(s, seg) /\ Received(s, seg)
  BY ArriveFacts DEF Received
<1>2. \A u \in Source : u # s => Untouched(u)
  BY <1>1 DEF Untouched, Written, Booked
<1>3. Shape'
  BY <1>1 DEF Inv, Shape, Written, Booked
<1>4. ASSUME NEW u \in Source PROVE Layers(u)' /\ Sender(u)' /\ Gapless(u)'
  <2>1. CASE u = s
    BY <1>1, <2>1, WrittenFacts, ArriveGapless
  <2>2. CASE u # s
    BY <1>1, <1>2, <2>2, OfSource, UntouchedKeeps, ArriveGaplessOthers
  <2> QED
    BY <2>1, <2>2
<1>5. ASSUME NEW u \in Source PROVE lostFirst'[u] \in 0..MaxLostFirst
  <2>1. lostFirst[u] \in 0..MaxLostFirst /\ 0 \in 0..MaxLostFirst
    BY OfSource, BoundsAssumption
  <2> QED
    BY <1>1, <2>1 DEF Booked
<1>6. PassedUp'
  BY <1>1, ArrivePassedUp
<1>7. Receiving'
  BY <1>1, <1>2, ArriveReceiving
<1> QED
  BY <1>3, <1>4, <1>5, <1>6, <1>7 DEF Inv

-------------------------------------------------------------------------------
\* The other steps.

LEMMA PassedUpKeeps ==
    ASSUME PassedUp, delivered' = delivered, sent' = sent, transmitter' = transmitter
    PROVE  PassedUp'
<1>1. \A u \in Source : DeliveredIndices(u)' = DeliveredIndices(u)
  BY DEF DeliveredIndices
<1> QED
  BY <1>1 DEF PassedUp

LEMMA ReadyInv ==
    ASSUME Inv, NEW s \in Source, OnTxReady(s)
    PROVE  Inv'
<1>1. /\ layer[s].isSending /\ ~holding[s]
      /\ layer' = [layer EXCEPT ![s] = LayerTxReady(@)]
      /\ transmitter' = transmitter /\ holding' = holding /\ receiver' = receiver
      /\ sent' = sent /\ delivered' = delivered
      /\ lostFirst' = lostFirst /\ arrived' = arrived
  BY DEF OnTxReady
<1>2. Shape
  BY DEF Inv
<1>3. /\ layer'[s] = LayerTxReady(layer[s])
      /\ \A u \in Source : u # s => Untouched(u)
      /\ Shape'
  BY <1>1, <1>2 DEF Shape, Untouched
<1>4. ASSUME NEW u \in Source PROVE Layers(u)' /\ Sender(u)' /\ Gapless(u)'
  <2>1. CASE u = s
    <3>1. Layers(s) /\ Sender(s) /\ Gapless(s)
      BY OfSource
    <3>2. LayerTxReady(layer[s]) \in LayerType /\ LayerTxReady(layer[s]).isOnline
      BY <3>1 DEF Layers, LayerTxReady, LayerType
    <3>3. Layers(s)'
      BY <1>1, <1>3, <3>1, <3>2 DEF Layers
    <3>4. Sender(s)' /\ Gapless(s)'
      BY <1>1, <3>1 DEF Sender, Gapless, Partial, Whole, Current, DeliveredIndices
    <3> QED
      BY <2>1, <3>3, <3>4
  <2>2. CASE u # s
    <3>1. DeliveredIndices(u)' = DeliveredIndices(u)
      BY <1>1 DEF DeliveredIndices
    <3> QED
      BY <1>1, <1>3, <2>2, <3>1, OfSource, UntouchedKeeps, GaplessKeeps
  <2> QED
    BY <2>1, <2>2
<1>5. \A u \in Source : lostFirst'[u] \in 0..MaxLostFirst
  BY <1>1, OfSource
<1>6. PassedUp'
  BY <1>1, PassedUpKeeps DEF Inv
<1>7. Receiving'
  BY <1>1 DEF Inv, Receiving, Behind, Current
<1> QED
  BY <1>3, <1>4, <1>5, <1>6, <1>7 DEF Inv

LEMMA ReconnectInv ==
    ASSUME Inv, Reconnect
    PROVE  Inv'
<1>0. <<>> \in Seq(Byte) /\ Len(<<>>) = 0 /\ MaxRxFragSize \in Nat
  BY TransportAssumption
<1>1. /\ layer' = [s \in Source |-> LayerUp(LayerDown(layer[s]))]
      /\ holding' = [s \in Source |-> FALSE]
      /\ receiver' = ClearRxBuffer(receiver)
      /\ arrived' = [s \in Source |-> <<>>]
      /\ transmitter' = transmitter /\ sent' = sent /\ delivered' = delivered
      /\ lostFirst' = lostFirst
  BY DEF Reconnect, Broken
<1>2. Shape'
  BY <1>1 DEF Inv, Shape
<1>3. ASSUME NEW u \in Source PROVE Layers(u)' /\ Sender(u)' /\ Gapless(u)'
  <2>1. Layers(u) /\ Sender(u)
    BY OfSource
  <2>2. LayerUp(LayerDown(layer[u])) \in LayerType /\ LayerUp(LayerDown(layer[u])).isOnline
    BY <2>1 DEF Layers, LayerUp, LayerDown, LayerType
  <2>3. /\ layer'[u] = LayerUp(LayerDown(layer[u]))
        /\ holding'[u] = FALSE
        /\ arrived'[u] = <<>>
    BY <1>1
  <2>4. Layers(u)'
    BY <2>2, <2>3 DEF Layers
  <2>5. Sender(u)'
    BY <1>1, <2>1 DEF Sender, Current
  <2>6. Gapless(u)'
    BY <1>0, <2>3 DEF Gapless
  <2> QED
    BY <2>4, <2>5, <2>6
<1>4. \A u \in Source : lostFirst'[u] \in 0..MaxLostFirst
  BY <1>1, OfSource
<1>5. PassedUp'
  BY <1>1, PassedUpKeeps DEF Inv
<1>6. Receiving'
  <2>1. receiver \in RxType
    BY DEF Inv, Receiving
  <2>2. ClearRxBuffer(receiver) \in RxType /\ ClearRxBuffer(receiver).buffer = <<>>
    BY <1>0, <2>1 DEF ClearRxBuffer, RxType
  <2> QED
    BY <1>0, <1>1, <2>2 DEF Receiving
<1> QED
  BY <1>2, <1>3, <1>4, <1>5, <1>6 DEF Inv

LEMMA StutterInv ==
    ASSUME Inv, UNCHANGED vars
    PROVE  Inv'
<1>1. /\ layer' = layer /\ transmitter' = transmitter /\ holding' = holding
      /\ receiver' = receiver /\ sent' = sent /\ delivered' = delivered
      /\ lostFirst' = lostFirst /\ arrived' = arrived
  BY DEF vars
<1>2. \A u \in Source : DeliveredIndices(u)' = DeliveredIndices(u)
  BY <1>1 DEF DeliveredIndices
<1>3. ASSUME NEW u \in Source PROVE Layers(u)' /\ Sender(u)' /\ Gapless(u)'
  <2>1. Untouched(u)
    BY <1>1 DEF Untouched
  <2> QED
    BY <1>1, <1>2, <2>1, OfSource, UntouchedKeeps, GaplessKeeps
<1>4. Shape' /\ \A u \in Source : lostFirst'[u] \in 0..MaxLostFirst
  BY <1>1 DEF Inv, Shape
<1>5. PassedUp' /\ Receiving'
  BY <1>1, PassedUpKeeps DEF Inv, Receiving, Behind, Current
<1> QED
  BY <1>3, <1>4, <1>5 DEF Inv

\* Inv is an inductive invariant of the transport layers.
THEOREM Reassembling == Spec => []Inv
<1>1. Inv /\ [Next]_vars => Inv'
  <2> SUFFICES ASSUME Inv, [Next]_vars PROVE Inv'
    OBVIOUS
  <2>1. CASE \E s \in Source :
                BeginTransmit(s) \/ SegmentArrives(s) \/ SegmentLost(s) \/ OnTxReady(s)
    BY <2>1, BeginInv, ArriveInv, LostInv, ReadyInv
  <2>2. CASE Reconnect
    BY <2>2, ReconnectInv
  <2>3. CASE Done \/ UNCHANGED vars
    BY <2>3, StutterInv DEF Done
  <2> QED
    BY <2>1, <2>2, <2>3 DEF Next
<1> QED
  BY <1>1, InitInv, PTL DEF Spec

\* The receive buffer of TransportRx never holds more than its size, and the flags
\* and numbers stay in their ranges.
THEOREM TypeCorrect == Spec => []TypeOK
<1>1. Inv => TypeOK
  <2> SUFFICES ASSUME Inv PROVE TypeOK
    OBVIOUS
  <2>1. Shape /\ \A s \in Source : /\ layer[s] \in LayerType
                                   /\ holding[s] \in BOOLEAN
                                   /\ lostFirst[s] \in 0..MaxLostFirst
    BY DEF Inv, Layers
  <2>2. /\ layer \in [Source -> LayerType]
        /\ holding \in [Source -> BOOLEAN]
        /\ lostFirst \in [Source -> 0..MaxLostFirst]
    BY <2>1 DEF Shape
  <2>3. Len(receiver.buffer) <= MaxRxFragSize /\ receiver.expectedSeq \in 0..(SeqModulus - 1)
    BY DEF Inv, Receiving, RxType
  <2> QED
    BY <2>2, <2>3 DEF TypeOK
<1> QED
  BY <1>1, Reassembling, PTL

\* However many sources interleave and whatever TransportRx held before, a fragment
\* whose segments all arrived in one piece and that fits the buffer has been passed
\* up: no segment of it was mistaken for one of another fragment.
THEOREM CompleteIsPassedUp == Spec => []CompleteIsDelivered
<1>1. Inv => CompleteIsDelivered
  <2> SUFFICES ASSUME Inv, NEW s \in Source, NEW i \in DOMAIN sent[s],
                      arrived[s] = sent[s][i], Len(sent[s][i]) <= MaxRxFragSize
               PROVE  i \in DeliveredIndices(s)
    BY DEF CompleteIsDelivered
  <2> DEFINE a == arrived[s]
  <2>1. Layers(s) /\ Sender(s) /\ Gapless(s)
    BY OfSource
  <2>2. Marked(a, s, i)
    BY <2>1 DEF Sender
  <2>3. a \in Seq(Byte) /\ a # <<>>
    BY <2>2, MarkedFacts
  <2>4. sent[s] # <<>> /\ (Partial(s) \/ Whole(s))
    BY <2>1, <2>3 DEF Gapless
  <2>5. ASSUME Whole(s) PROVE i \in DeliveredIndices(s)
    <3>1. PICK n \in DOMAIN sent[s] :
             /\ a = sent[s][n]
             /\ Len(sent[s][n]) <= MaxRxFragSize => n \in DeliveredIndices(s)
      BY <2>5 DEF Whole
    <3>2. Marked(a, s, n)
      BY <2>1, <3>1 DEF Sender
    <3>3. n = i
      BY <2>2, <3>2, MarkedApart
    <3> QED
      BY <3>1, <3>3
  <2>6. ASSUME Partial(s) PROVE FALSE
    <3> DEFINE p == transmitter[s].payload
    <3>1. p \in Seq(Byte) /\ p # <<>>
      BY <2>1, <2>6 DEF Partial, Layers, Sender, TxType
    <3>2. a \o p = Current(s)
      BY <2>6 DEF Partial
    <3>3. Marked(Current(s), s, Len(sent[s])) /\ Current(s) = sent[s][Len(sent[s])]
      BY <2>4, OfSource DEF Current
    <3> HIDE DEF p, a
    <3>4. (a \o p)[1] = a[1]
      BY <2>3, <3>1, Concatenation
    <3>5. i = Len(sent[s])
      BY <2>2, <3>2, <3>3, <3>4 DEF Marked
    <3>6. a \o p = a
      BY <3>2, <3>3, <3>5 DEF a
    <3>7. Len(a \o p) = Len(a) + Len(p) /\ Len(a) \in Nat /\ Len(p) \in Nat /\ Len(p) # 0
      BY <2>3, <3>1
    <3> QED
      BY <3>6, <3>7
  <2> QED
    BY <2>4, <2>5, <2>6
<1> QED
  BY <1>1, Reassembling, PTL

-------------------------------------------------------------------------------
\* The refinement of FragmentChannel.

LEMMA GreatestIs ==
    ASSUME NEW D \in SUBSET (Nat \ {0}), NEW l \in {0} \cup D, \A i \in D : i <= l
    PROVE  (CHOOSE i \in {0} \cup D : \A j \in D : j <= i) = l
<1> DEFINE c == CHOOSE i \in {0} \cup D : \A j \in D : j <= i
<1>1. c \in {0} \cup D /\ \A i \in D : i <= c
  OBVIOUS
<1> HIDE DEF c
<1>2. c \in Nat /\ l \in Nat /\ c <= l /\ l <= c
  BY <1>1
<1>3. c = l
  BY <1>2
<1> QED
  BY <1>3 DEF c

LEMMA LastExists ==
    ASSUME Inv, NEW s \in Source
    PROVE  /\ LastDelivered(s) \in {0} \cup DeliveredIndices(s)
           /\ \A i \in DeliveredIndices(s) : i <= LastDelivered(s)
<1>1. \E l \in {0} \cup DeliveredIndices(s) : \A i \in DeliveredIndices(s) : i <= l
  BY DEF Inv, PassedUp
<1> QED
  BY <1>1 DEF LastDelivered

LEMMA LastKept ==
    ASSUME NEW s \in Source, DeliveredIndices(s)' = DeliveredIndices(s)
    PROVE  LastDelivered(s)' = LastDelivered(s)
BY DEF LastDelivered

\* What was passed up is older than the fragment being sent.
LEMMA LastIsOlder ==
    ASSUME Inv, NEW s \in Source, NEW seg, Written(s, seg)
    PROVE  Len(sent[s]) > LastDelivered(s)
<1> DEFINE n == Len(sent[s])
           l == LastDelivered(s)
<1>1. l = 0 \/ l \in DeliveredIndices(s)
  BY LastExists
<1>2. n \in Nat /\ DOMAIN sent[s] = 1..n /\ sent[s] \in Seq(Seq(Byte))
  BY OfSource DEF Sender
<1>3. n \in DOMAIN sent[s]
  BY WrittenFacts, OfSource
<1>4. l \in DeliveredIndices(s) => l \in DOMAIN sent[s] /\ l # n
  BY DeliveredFacts DEF Written
<1> HIDE DEF n, l
<1>5. n > l
  BY <1>1, <1>2, <1>3, <1>4
<1> QED
  BY <1>5 DEF n, l

LEMMA BeginSubmits ==
    ASSUME Inv, NEW s \in Source, BeginTransmit(s)
    PROVE  \E f \in Fragment : Channel!Submit(s, f)
<1>1. PICK f : Begun(s, f)
  BY BeginFacts
<1>2. /\ \A u \in Source : u # s => Untouched(u)
      /\ delivered' = delivered
      /\ Shape' /\ Shape
  BY BeginFacts DEF Inv
<1>3. f \in Fragment
  <2> DEFINE n == Len(sent[s]) + 1
  <2>1. f = Bytes(s, n, Len(f)) /\ Len(f) \in Lengths /\ n \in 1..Quota[s]
    <3>1. Len(sent[s]) \in Nat /\ Quota[s] \in Nat /\ Len(sent[s]) < Quota[s]
      BY <1>1, OfSource, BoundsAssumption DEF Sender, Begun
    <3>2. n \in 1..Quota[s]
      BY <3>1
    <3> QED
      BY <1>1, <3>2 DEF Begun, Marked
  <2> HIDE DEF n
  <2>2. f \in {Bytes(s, m, len) : m \in 1..Quota[s], len \in Lengths}
    BY <2>1
  <2> QED
    BY <2>2 DEF Fragment
<1>4. sent' = [sent EXCEPT ![s] = Append(@, f)]
  <2>1. sent'[s] = Append(sent[s], f) /\ \A u \in Source : u # s => sent'[u] = sent[u]
    BY <1>1, <1>2 DEF Begun, Untouched
  <2>2. sent' = [u \in Source |-> sent'[u]] /\ sent = [u \in Source |-> sent[u]]
    BY <1>2 DEF Shape
  <2> QED
    BY <2>1, <2>2
<1>5. \A u \in Source : LastDelivered(u)' = LastDelivered(u)
  BY <1>1, <1>2, BegunIndices, LastKept
<1>6. [u \in Source |-> LastDelivered(u)]' = [u \in Source |-> LastDelivered(u)]
  BY <1>5
<1> QED
  BY <1>2, <1>3, <1>4, <1>6 DEF Channel!Submit

LEMMA ArriveDelivers ==
    ASSUME Inv, NEW s \in Source, SegmentArrives(s)
    PROVE  \/ UNCHANGED Channel!vars
           \/ \E i \in DOMAIN sent[s] : Channel!Deliver(s, i)
<1>1. PICK seg : Written(s, seg) /\ Booked(s, seg) /\ Received(s, seg)
  BY ArriveFacts DEF Received
<1>2. sent' = sent
  BY <1>1 DEF Written
<1>3. CASE delivered' = delivered
  <2>1. \A u \in Source : DeliveredIndices(u)' = DeliveredIndices(u)
    BY <1>2, <1>3 DEF DeliveredIndices
  <2>2. \A u \in Source : LastDelivered(u)' = LastDelivered(u)
    BY <2>1, LastKept
  <2> QED
    BY <1>2, <1>3, <2>2 DEF Channel!vars
<1>4. CASE Passed(s, seg)
  <2> DEFINE n == Len(sent[s])
  <2>1. /\ n \in DOMAIN sent[s]
        /\ DeliveredIndices(s)' = DeliveredIndices(s) \cup {n}
        /\ \A u \in Source : u # s => DeliveredIndices(u)' = DeliveredIndices(u)
    BY <1>1, <1>4, PassedIndices
  <2>2. n > LastDelivered(s)
    BY <1>1, LastIsOlder
  <2>3. LastDelivered(s)' = n
    <3> DEFINE D == DeliveredIndices(s)'
    <3>1. \A i \in DeliveredIndices(s) : i \in DOMAIN sent[s]
      BY DEF DeliveredIndices
    <3>2. DOMAIN sent[s] = 1..n /\ n \in Nat
      BY OfSource DEF Sender
    <3>3. \A i \in D : i \in Nat \ {0} /\ i <= n
      BY <2>1, <3>1, <3>2
    <3>4. n \in {0} \cup D
      BY <2>1
    <3>5. LastDelivered(s)' = CHOOSE i \in {0} \cup D : \A j \in D : j <= i
      BY DEF LastDelivered
    <3> HIDE DEF D, n
    <3>6. D \in SUBSET (Nat \ {0}) /\ \A i \in D : i <= n
      BY <3>3
    <3> QED
      BY <3>4, <3>5, <3>6, GreatestIs
  <2>4. \A u \in Source : u # s => LastDelivered(u)' = LastDelivered(u)
    BY <2>1, LastKept
  <2>5. delivered' = Append(delivered, [source |-> s, asdu |-> sent[s][n]])
    BY <1>4 DEF Passed, Current
  <2> HIDE DEF n
  <2>6. [u \in Source |-> LastDelivered(u)]'
           = [[u \in Source |-> LastDelivered(u)] EXCEPT ![s] = n]
    BY <2>3, <2>4
  <2>7. Channel!Deliver(s, n)
    BY <1>2, <2>2, <2>5, <2>6 DEF Channel!Deliver
  <2> QED
    BY <2>1, <2>7
<1> QED
  BY <1>1, <1>3, <1>4 DEF Received, Ignored, Dropped, Kept

\* The transport layers implement FragmentChannel, for any number of sources and
\* fragments: what TransportRx::ProcessReceive passes up is a whole fragment that
\* was submitted, in the order of its source and never twice.
THEOREM TransportImplementsChannel == Spec => ImplementsChannel
<1>1. Init => Channel!Init
  <2> SUFFICES ASSUME Init PROVE Channel!Init
    OBVIOUS
  <2>1. delivered = <<>> /\ sent = [s \in Source |-> <<>>]
    BY DEF Init
  <2>2. \A s \in Source : DeliveredIndices(s) = {}
    BY <2>1 DEF DeliveredIndices
  <2>3. (CHOOSE i \in {0} \cup {} : \A j \in {} : j <= i) = 0
    BY GreatestIs
  <2>4. \A s \in Source : LastDelivered(s) = 0
    BY <2>2, <2>3 DEF LastDelivered
  <2> QED
    BY <2>1, <2>4 DEF Channel!Init
<1>2. Inv /\ [Next]_vars => [Channel!Next]_Channel!vars
  <2> SUFFICES ASSUME Inv, [Next]_vars PROVE [Channel!Next]_Channel!vars
    OBVIOUS
  <2>1. ASSUME sent' = sent, delivered' = delivered
        PROVE  UNCHANGED Channel!vars
    <3>1. \A u \in Source : LastDelivered(u)' = LastDelivered(u)
      BY <2>1, LastKept DEF DeliveredIndices
    <3> QED
      BY <2>1, <3>1 DEF Channel!vars
  <2>2. ASSUME NEW s \in Source, BeginTransmit(s) PROVE Channel!Next
    BY <2>2, BeginSubmits DEF Channel!Next
  <2>3. ASSUME NEW s \in Source, SegmentArrives(s) PROVE [Channel!Next]_Channel!vars
    BY <2>3, ArriveDelivers DEF Channel!Next
  <2>4. ASSUME NEW s \in Source, SegmentLost(s) \/ OnTxReady(s)
        PROVE  UNCHANGED Channel!vars
    BY <2>1, <2>4 DEF SegmentLost, OnTxReady, Transmitted
  <2>5. ASSUME Reconnect \/ Done \/ UNCHANGED vars
        PROVE  UNCHANGED Channel!vars
    BY <2>1, <2>5 DEF Reconnect, Done, vars
  <2> QED
    BY <2>2, <2>3, <2>4, <2>5 DEF Next
<1> QED
  BY <1>1, <1>2, Reassembling, PTL DEF Spec, ImplementsChannel, Channel!Spec
===============================================================================
