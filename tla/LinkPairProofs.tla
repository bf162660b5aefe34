----------------------------- MODULE LinkPairProofs -----------------------------
(***************************************************************************)
(* Proofs about LinkPair, for every pair of configurations with confirms,  *)
(* every script, every number of retries and every number of disturbances. *)
(*                                                                         *)
(* The argument is about one direction at a time: the primary station of   *)
(* an endpoint, the secondary station of its peer and the frames between   *)
(* them.  That they keep in step (Exchange), and what each handler of      *)
(* LinkContext does to them, is taken from LinkLayerProofs.  Added here is *)
(* the history of what was passed up:                                      *)
(*                                                                         *)
(*   Order        what was passed up precedes everything still to come,    *)
(*                except a segment that waits for its acknowledgement, and *)
(*                of that one the frame count bits tell that it has come;  *)
(*   Arrived      the converse: unless the sender gave up, bits that       *)
(*                differ mean that the current segment has been passed up. *)
(***************************************************************************)
EXTENDS LinkPair, LinkLayerProofs

Has(got, x) == \E i \in DOMAIN got : got[i] = x

\* The segment at the head may have come.
MayHaveCome(P, S) == Sending(P) /\ (Listening(S) => S.fcb # P.fcb)

\* got: what the peer passed up; later: what the upper layer has not sent yet.
Order(P, S, got, later) ==
    /\ \A i, j \in DOMAIN got : i < j => got[i] < got[j]
    /\ \A i, j \in DOMAIN P.segs : i < j => P.segs[i] < P.segs[j]
    /\ \A x \in later : /\ \A i \in DOMAIN got : got[i] < x
                        /\ \A i \in DOMAIN P.segs : P.segs[i] < x
    /\ \A i \in DOMAIN got, j \in DOMAIN P.segs :
          \/ got[i] < P.segs[j]
          \/ j = 1 /\ got[i] = P.segs[1] /\ MayHaveCome(P, S)

Arrived(P, S, got, gave) ==
    ~gave /\ P.reset /\ Listening(S) /\ S.fcb # P.fcb => Has(got, Head(P.segs))

History(P, S, got, gave, later) ==
    /\ got \in Seq(Segment) /\ later \in SUBSET Segment
    /\ Order(P, S, got, later)
    /\ Arrived(P, S, got, gave)

Direction(P, S, req, ans, got, gave, later) ==
    Exchange(P, S, req, ans, gave) /\ History(P, S, got, gave, later)

-------------------------------------------------------------------------------
(* Directions.                                                              *)

\* Nothing has come and nothing has been taken back.
LEMMA HistoryKept ==
    ASSUME NEW P, NEW S, NEW got, NEW gave, NEW later, History(P, S, got, gave, later),
           NEW Q, NEW R, NEW gave2, Q.segs = P.segs,
           MayHaveCome(P, S) => MayHaveCome(Q, R),
           ~gave2 /\ Q.reset /\ Listening(R) /\ R.fcb # Q.fcb
               => ~gave /\ P.reset /\ Listening(S) /\ S.fcb # P.fcb
    PROVE  History(Q, R, got, gave2, later)
  BY DEF History, Order, Arrived

\* There are no segments to send.
LEMMA HistoryOfNone ==
    ASSUME NEW P, NEW S, NEW got, NEW gave, NEW later, History(P, S, got, gave, later),
           NEW Q, NEW R, NEW gave2, Q.segs = <<>>,
           ~(~gave2 /\ Q.reset /\ Listening(R) /\ R.fcb # Q.fcb)
    PROVE  History(Q, R, got, gave2, later)
  BY DEF History, Order, Arrived

LEMMA StartsDirection ==
    ASSUME NEW P, NEW S, NEW req, NEW ans, NEW got, NEW gave, NEW later,
           Direction(P, S, req, ans, got, gave, later), NEW Q, Starts(P, Q)
    PROVE  Direction(Q, S, req, ans, got, gave, later)
<1>1. Exchange(Q, S, req, ans, gave)
  BY StartsExchange DEF Direction
<1>2. ~Sending(P) /\ Q.segs = P.segs /\ Q.fcb = P.fcb /\ Q.reset = P.reset
  BY DEF Starts, Sending
<1>3. History(Q, S, got, gave, later)
  BY <1>2, HistoryKept DEF Direction, MayHaveCome
<1> QED
  BY <1>1, <1>3 DEF Direction

LEMMA ThenDirection ==
    ASSUME NEW P, NEW S, NEW req, NEW ans, NEW got, NEW gave, NEW later,
           Direction(P, S, req, ans, got, gave, later), NEW R, Then(P, R)
    PROVE  Direction(R, S, req, ans, got, gave, later)
  BY StartsDirection DEF Then

LEMMA SameKindDirection ==
    ASSUME NEW P, NEW S, NEW req, NEW ans, NEW got, NEW gave, NEW later,
           Direction(P, S, req, ans, got, gave, later), NEW Q, SameKind(P, Q)
    PROVE  Direction(Q, S, req, ans, got, gave, later)
<1>1. Exchange(Q, S, req, ans, gave)
  BY SameKindExchange DEF Direction
<1>2. (Sending(P) <=> Sending(Q)) /\ Q.segs = P.segs /\ Q.fcb = P.fcb /\ Q.reset = P.reset
  BY DEF SameKind
<1>3. History(Q, S, got, gave, later)
  BY <1>2, HistoryKept DEF Direction, MayHaveCome
<1> QED
  BY <1>1, <1>3 DEF Direction

LEMMA SameEarDirection ==
    ASSUME NEW P, NEW S, NEW req, NEW ans, NEW got, NEW gave, NEW later,
           Direction(P, S, req, ans, got, gave, later), NEW R, SameEar(S, R)
    PROVE  Direction(P, R, req, ans, got, gave, later)
<1>1. Exchange(P, R, req, ans, gave)
  BY SameEarExchange DEF Direction
<1>2. (Listening(R) <=> Listening(S)) /\ R.fcb = S.fcb
  BY DEF SameEar
<1>3. History(P, R, got, gave, later)
  BY <1>2, HistoryKept DEF Direction, MayHaveCome
<1> QED
  BY <1>1, <1>3 DEF Direction

\* Frames that are lost or ignored, and frames of the other direction.
LEMMA WireDirection ==
    ASSUME NEW P, NEW S, NEW req, NEW ans, NEW got, NEW gave, NEW later,
           Direction(P, S, req, ans, got, gave, later)
    PROVE  /\ req # <<>> => Direction(P, S, Tail(req), ans, got, gave, later)
           /\ ans # <<>> => Direction(P, S, req, Tail(ans), got, gave, later)
           /\ \A f \in Frame : f.func \notin PriFunction =>
                  Direction(P, S, Append(req, f), ans, got, gave, later)
           /\ \A f \in Frame : f.func \notin SecFunction =>
                  Direction(P, S, req, Append(ans, f), got, gave, later)
  BY DropRequest, DropAnswer, OtherRequest, OtherAnswer DEF Direction

\* The request is put on the wire.
LEMMA PutRequestDirection ==
    ASSUME NEW P, NEW S, NEW req, NEW ans, NEW got, NEW gave, NEW later,
           Direction(P, S, req, ans, got, gave, later),
           NEW f \in Frame, P.out = <<f>>, NEW Q,
           Q.state = P.state, Q.segs = P.segs, Q.fcb = P.fcb, Q.reset = P.reset,
           Q.addr = P.addr, Q.out = <<>>
    PROVE  Direction(Q, S, Append(req, f), ans, got, gave, later)
<1>1. Exchange(Q, S, Append(req, f), ans, gave)
  BY PutRequest DEF Direction
<1>2. History(Q, S, got, gave, later)
  BY HistoryKept DEF Direction, MayHaveCome, Sending
<1> QED
  BY <1>1, <1>2 DEF Direction

\* The answer is put on the wire.
LEMMA PutAnswerDirection ==
    ASSUME NEW P, NEW S, NEW req, NEW ans, NEW got, NEW gave, NEW later,
           Direction(P, S, req, ans, got, gave, later),
           NEW f \in Frame, S.out = <<f>>, NEW R,
           R.state = S.state, R.fcb = S.fcb, R.out = <<>>
    PROVE  Direction(P, R, req, Append(ans, f), got, gave, later)
<1>1. Exchange(P, R, req, Append(ans, f), gave)
  BY PutAnswer DEF Direction
<1>2. History(P, R, got, gave, later)
  BY HistoryKept DEF Direction, MayHaveCome, Listening
<1> QED
  BY <1>1, <1>2 DEF Direction

\* The segments after the first one.
LEMMA LaterSegments ==
    ASSUME NEW P, NEW S, NEW got, NEW later, P.segs \in Seq(Segment), P.segs # <<>>,
           got \in Seq(Segment), later \in SUBSET Segment, Order(P, S, got, later),
           NEW Q, Q.segs = Tail(P.segs) \/ Q.segs = <<>>
    PROVE  Q.segs \in Seq(Segment) /\ Order(Q, S, got, later)
<1>1. /\ Tail(P.segs) \in Seq(Segment) /\ 1 \in DOMAIN P.segs
      /\ \A i \in DOMAIN Tail(P.segs) :
            i + 1 \in DOMAIN P.segs /\ Tail(P.segs)[i] = P.segs[i + 1] /\ i \in Nat /\ i > 0
  BY TailIndex
<1>2. Segment \subseteq Nat
  BY ScriptAssumption
<1>3. /\ \A i \in DOMAIN P.segs : P.segs[i] \in Nat
      /\ \A i \in DOMAIN got : got[i] \in Nat
  <2>1. /\ \A i \in DOMAIN P.segs : P.segs[i] \in Segment
        /\ \A i \in DOMAIN got : got[i] \in Segment
    BY ElementOfSeq, LenProperties
  <2> QED
    BY <1>2, <2>1
<1>4. /\ \A i, j \in DOMAIN got : i < j => got[i] < got[j]
      /\ \A i, j \in DOMAIN P.segs : i < j => P.segs[i] < P.segs[j]
      /\ \A x \in later : /\ \A i \in DOMAIN got : got[i] < x
                          /\ \A i \in DOMAIN P.segs : P.segs[i] < x
      /\ \A i \in DOMAIN got, j \in DOMAIN P.segs : got[i] < P.segs[j] \/ (j = 1 /\ got[i] = P.segs[1])
  BY DEF Order
<1>5. CASE Q.segs = <<>>
  BY <1>4, <1>5 DEF Order
<1>6. CASE Q.segs = Tail(P.segs)
  <2> DEFINE t == Q.segs
  <2>0. /\ t \in Seq(Segment)
        /\ \A i \in DOMAIN t : i + 1 \in DOMAIN P.segs /\ t[i] = P.segs[i + 1] /\ i \in Nat /\ i > 0
    BY <1>1, <1>6
  <2> HIDE DEF t
  <2>1. ASSUME NEW i \in DOMAIN t, NEW j \in DOMAIN t, i < j
        PROVE  t[i] < t[j]
    <3>1. i + 1 < j + 1 /\ i + 1 \in DOMAIN P.segs /\ j + 1 \in DOMAIN P.segs
      BY <2>0, <2>1
    <3> QED
      BY <1>4, <2>0, <3>1
  <2>2. \A x \in later, i \in DOMAIN t : t[i] < x
    BY <1>4, <2>0
  <2>3. ASSUME NEW i \in DOMAIN got, NEW j \in DOMAIN t
        PROVE  got[i] < t[j]
    <3>1. j + 1 \in DOMAIN P.segs /\ t[j] = P.segs[j + 1] /\ j + 1 # 1
      BY <2>0
    <3> QED
      BY <1>4, <3>1
  <2> QED
    BY <1>4, <2>0, <2>1, <2>2, <2>3 DEF Order, t
<1> QED
  BY <1>5, <1>6

LEMMA ReceiveAckDirection ==
    ASSUME NEW P, NEW S, NEW req, NEW ans, NEW got, NEW gave, NEW later,
           Direction(P, S, req, ans, got, gave, later),
           ans # <<>>, Head(ans).func = "SEC_ACK", NEW Q, AckStep(P, Q)
    PROVE  /\ Direction(Q, S, req, Tail(ans), got, gave, later)
           /\ P.state = "ConfDataWait" /\ ~gave => Has(got, Head(P.segs))
<1>0. /\ Exchange(P, S, req, ans, gave) /\ History(P, S, got, gave, later)
      /\ DirType(P, S, req, ans, gave) /\ States(P)
  BY DEF Direction, Exchange
<1>1. /\ Exchange(Q, S, req, Tail(ans), gave)
      /\ P.state = "ConfDataWait" => P.reset /\ Listening(S) /\ S.fcb # P.fcb
      /\ P.state = "ResetLinkWait" => Listening(S) /\ S.fcb
  BY <1>0, ReceiveAck
<1>2. P.state = "ConfDataWait" /\ ~gave => Has(got, Head(P.segs))
  BY <1>0, <1>1 DEF History, Arrived
<1>3. CASE P.state = "ResetLinkWait"
  <2>1. ~Sending(P) /\ Q.segs = P.segs /\ Q.fcb = TRUE /\ S.fcb = TRUE
    BY <1>0, <1>1, <1>3 DEF AckStep, Sending, DirType
  <2>2. History(Q, S, got, gave, later)
    BY <1>0, <2>1, HistoryKept DEF MayHaveCome
  <2> QED
    BY <1>1, <1>2, <2>2 DEF Direction
<1>4. CASE P.state = "ConfDataWait"
  <2>1. Q.fcb = ~P.fcb /\ (Q.segs = Tail(P.segs) \/ Q.segs = <<>>)
    BY <1>4 DEF AckStep
  <2>2. P.segs # <<>> /\ P.segs \in Seq(Segment) /\ S.fcb = Q.fcb
    BY <1>0, <1>1, <1>4, <2>1 DEF States, Sending, DirType
  <2>3. Order(Q, S, got, later)
    BY <1>0, <2>1, <2>2, LaterSegments DEF History
  <2>4. History(Q, S, got, gave, later)
    BY <1>0, <2>2, <2>3 DEF History, Arrived
  <2> QED
    BY <1>1, <1>2, <2>4 DEF Direction
<1>5. CASE P.state \notin {"ResetLinkWait", "ConfDataWait"}
  <2>1. Q = P
    BY <1>5 DEF AckStep
  <2> QED
    BY <1>0, <1>1, <1>2, <2>1 DEF Direction
<1> QED
  BY <1>3, <1>4, <1>5

LEMMA ReceiveStatusDirection ==
    ASSUME NEW P, NEW S, NEW req, NEW ans, NEW got, NEW gave, NEW later,
           Direction(P, S, req, ans, got, gave, later),
           ans # <<>>, Head(ans).func = "SEC_LINK_STATUS", NEW Q,
           P.state \in {"ResetLinkWait", "ConfDataWait"} \/ StatusStep(P, Q)
    PROVE  Direction(Q, S, req, Tail(ans), got, gave, later)
<1>0. Exchange(P, S, req, ans, gave) /\ History(P, S, got, gave, later)
  BY DEF Direction
<1>1. Exchange(Q, S, req, Tail(ans), gave)
  BY <1>0, ReceiveStatus
<1>2. AnswerTo(P, S, Head(ans))
  BY <1>0, AnswerAlone DEF SecFunction
<1>3. Asking(P)
  BY <1>2 DEF AnswerTo
<1>4. ~Sending(P) /\ Q.segs = P.segs /\ Q.fcb = P.fcb /\ Q.reset = P.reset
  BY <1>3 DEF Asking, Sending, StatusStep
<1>5. History(Q, S, got, gave, later)
  BY <1>0, <1>4, HistoryKept DEF MayHaveCome
<1> QED
  BY <1>1, <1>5 DEF Direction

\* An answer reaches the primary station.
LEMMA AnswerDirection ==
    ASSUME NEW P, NEW S, NEW req, NEW ans, NEW got, NEW gave, NEW later,
           Direction(P, S, req, ans, got, gave, later),
           ans # <<>>, NEW R, AnswerStep(P, R, Head(ans))
    PROVE  Direction(R, S, req, Tail(ans), got, gave, later)
<1>1. CASE R = P
  BY <1>1, WireDirection
<1>2. ASSUME Head(ans).func = "SEC_ACK", NEW Q, AckStep(P, Q), Then(Q, R)
      PROVE  Direction(R, S, req, Tail(ans), got, gave, later)
  <2>1. Direction(Q, S, req, Tail(ans), got, gave, later)
    BY <1>2, ReceiveAckDirection
  <2> QED
    BY <1>2, <2>1, ThenDirection
<1>3. ASSUME Head(ans).func = "SEC_LINK_STATUS", NEW Q,
             P.state \in {"ResetLinkWait", "ConfDataWait"} \/ StatusStep(P, Q), Then(Q, R)
      PROVE  Direction(R, S, req, Tail(ans), got, gave, later)
  <2>1. Direction(Q, S, req, Tail(ans), got, gave, later)
    BY <1>3, ReceiveStatusDirection
  <2> QED
    BY <1>3, <2>1, ThenDirection
<1> QED
  BY <1>1, <1>2, <1>3 DEF AnswerStep

\* The segment at the head is passed up.
LEMMA HistoryGrows ==
    ASSUME NEW P, NEW S, NEW got, NEW gave, NEW later, History(P, S, got, gave, later),
           P.segs \in Seq(Segment), P.segs # <<>>, ~MayHaveCome(P, S),
           NEW R, MayHaveCome(P, R)
    PROVE  History(P, R, Append(got, Head(P.segs)), gave, later)
<1> DEFINE x == Head(P.segs)
           more == Append(got, x)
<1>0. got \in Seq(Segment) /\ Order(P, S, got, later)
  BY DEF History
<1>4. 1 \in DOMAIN P.segs /\ P.segs[1] = x /\ x \in Segment
  BY TailIndex
<1>5. /\ more \in Seq(Segment)
      /\ \A i \in DOMAIN more : \/ i \in DOMAIN got /\ more[i] = got[i] /\ i < Len(got) + 1
                                \/ i = Len(got) + 1 /\ more[i] = x
      /\ Len(got) + 1 \in DOMAIN more /\ more[Len(got) + 1] = x
  BY <1>0, <1>4, AppendIndex
<1>6. /\ Segment \subseteq Nat
      /\ DOMAIN got \subseteq Nat /\ Len(got) \in Nat
      /\ \A i \in DOMAIN P.segs : P.segs[i] \in Nat /\ i \in Nat /\ i > 0
      /\ \A i \in DOMAIN got : got[i] \in Nat
  <2>1. Segment \subseteq Nat
    BY ScriptAssumption
  <2>2. /\ DOMAIN P.segs = 1 .. Len(P.segs) /\ Len(P.segs) \in Nat
        /\ DOMAIN got = 1 .. Len(got) /\ Len(got) \in Nat
        /\ \A i \in DOMAIN P.segs : P.segs[i] \in Segment
        /\ \A i \in DOMAIN got : got[i] \in Segment
    BY <1>0, ElementOfSeq, LenProperties
  <2>3. DOMAIN got \subseteq Nat /\ Len(got) \in Nat
    BY <2>1, <2>2
  <2>4. ASSUME NEW i \in DOMAIN P.segs
        PROVE  P.segs[i] \in Nat /\ i \in Nat /\ i > 0
    <3>1. P.segs[i] \in Nat
      BY <2>1, <2>2, Zenon
    <3>2. i \in 1 .. Len(P.segs) /\ Len(P.segs) \in Nat
      BY <2>2, Zenon
    <3> QED
      BY <3>1, <3>2
  <2>5. \A i \in DOMAIN got : got[i] \in Nat
    BY <2>1, <2>2, Zenon
  <2> QED
    BY <2>1, <2>3, <2>4, <2>5
<1> HIDE DEF more, x
<1>7. Has(more, x)
  BY <1>5 DEF Has
<1>9. \A i \in DOMAIN got, j \in DOMAIN P.segs : got[i] < P.segs[j]
  BY <1>0 DEF Order
<1>10. Order(P, R, more, later)
  <2>1. \A i \in DOMAIN got : got[i] < x
    BY <1>4, <1>9
  <2>2. \A i, j \in DOMAIN more : i < j => more[i] < more[j]
    <3> SUFFICES ASSUME NEW i \in DOMAIN more, NEW j \in DOMAIN more, i < j
                 PROVE  more[i] < more[j]
      OBVIOUS
    <3>1. i \in DOMAIN got /\ more[i] = got[i]
      BY <1>5, <1>6
    <3> QED
      BY <1>0, <1>5, <2>1, <3>1 DEF Order
  <2>3. \A y \in later : /\ \A i \in DOMAIN more : more[i] < y
                         /\ \A i \in DOMAIN P.segs : P.segs[i] < y
    BY <1>0, <1>4, <1>5 DEF Order
  <2>4. ASSUME NEW i \in DOMAIN more, NEW j \in DOMAIN P.segs
        PROVE  more[i] < P.segs[j] \/ (j = 1 /\ more[i] = P.segs[1])
    <3>1. CASE i \in DOMAIN got /\ more[i] = got[i]
      BY <1>9, <3>1
    <3>2. CASE more[i] = x
      <4>1. j = 1 \/ 1 < j
        BY <1>6
      <4> QED
        BY <1>0, <1>4, <3>2, <4>1 DEF Order
    <3> QED
      BY <1>5, <3>1, <3>2
  <2>5. \A i, j \in DOMAIN P.segs : i < j => P.segs[i] < P.segs[j]
    BY <1>0 DEF Order
  <2> QED
    BY <2>2, <2>3, <2>4, <2>5 DEF Order
<1>11. Arrived(P, R, more, gave)
  BY <1>7 DEF Arrived, x
<1>12. History(P, R, more, gave, later)
  BY <1>5, <1>10, <1>11 DEF History
<1> QED
  BY <1>12 DEF more, x

\* A request reaches the secondary station.
LEMMA RequestDirection ==
    ASSUME NEW P, NEW S, NEW req, NEW ans, NEW got, NEW gave, NEW later,
           Direction(P, S, req, ans, got, gave, later),
           req # <<>>, NEW R, NEW up, RequestStep(S, R, Head(req), up)
    PROVE  Direction(P, R, Tail(req), ans, got \o up, gave, later)
<1>0. /\ Exchange(P, S, req, ans, gave) /\ History(P, S, got, gave, later)
      /\ DirType(P, S, req, ans, gave) /\ States(P) /\ got \in Seq(Segment)
  BY DEF Direction, Exchange, History
<1>1. Exchange(P, R, Tail(req), ans, gave)
  BY <1>0, RequestExchange
<1>2. got \o <<>> = got
  BY <1>0
<1>3. CASE R = S /\ up = <<>>
  BY <1>0, <1>1, <1>2, <1>3 DEF Direction
<1>4. CASE /\ Head(req).func = "PRI_RESET_LINK_STATES" /\ up = <<>>
           /\ R.state = "TransmitWaitReset" /\ R.fcb = TRUE /\ Answers(R, "SEC_ACK")
  <2>1. RequestOf(P, Head(req))
    BY <1>0, <1>4, RequestAlone DEF PriFunction
  <2>2. ~Sending(P) /\ ~P.reset
    BY <1>0, <1>4, <2>1 DEF RequestOf, Resetting, Sending, States
  <2>3. History(P, R, got, gave, later)
    BY <1>0, <2>2, HistoryKept DEF MayHaveCome
  <2> QED
    BY <1>1, <1>2, <1>4, <2>3 DEF Direction
<1>5. CASE /\ Head(req).func = "PRI_REQUEST_LINK_STATUS" /\ up = <<>>
           /\ (Listening(R) <=> Listening(S)) /\ R.fcb = S.fcb
           /\ Answers(R, "SEC_LINK_STATUS")
  <2>1. History(P, R, got, gave, later)
    BY <1>0, <1>5, HistoryKept DEF MayHaveCome
  <2> QED
    BY <1>1, <1>2, <1>5, <2>1 DEF Direction
<1>6. CASE /\ Head(req).func = "PRI_CONFIRMED_USER_DATA" /\ S.state = "Reset"
           /\ R.state = "TransmitWaitReset" /\ Answers(R, "SEC_ACK")
           /\ \/ Head(req).fcb = S.fcb /\ up = <<Head(req).data>> /\ R.fcb = ~S.fcb
              \/ Head(req).fcb # S.fcb /\ up = <<>> /\ R.fcb = S.fcb
  <2>1. /\ Sending(P) /\ P.segs # <<>> /\ P.segs \in Seq(Segment)
        /\ Head(req).data = Head(P.segs) /\ Head(req).fcb = P.fcb /\ R.fcb # P.fcb
    BY <1>0, <1>6, ReceiveData DEF DirType
  <2>2. Listening(S) /\ Listening(R)
    BY <1>6 DEF Listening
  <2>3. CASE Head(req).fcb = S.fcb /\ up = <<Head(req).data>>
    <3> DEFINE x == Head(P.segs)
    <3>1. History(P, R, Append(got, x), gave, later)
      BY <1>0, <2>1, <2>2, <2>3, HistoryGrows DEF MayHaveCome
    <3>2. x \in Segment
      BY <2>1, TailIndex
    <3> HIDE DEF x
    <3>3. got \o <<x>> = Append(got, x)
      BY <1>0, <3>2
    <3> QED
      BY <1>1, <2>1, <2>3, <3>1, <3>3 DEF Direction, x
  <2>4. CASE Head(req).fcb # S.fcb /\ up = <<>> /\ R.fcb = S.fcb
    <3>1. History(P, R, got, gave, later)
      BY <1>0, <2>1, <2>2, <2>4, HistoryKept DEF MayHaveCome
    <3> QED
      BY <1>1, <1>2, <2>4, <3>1 DEF Direction
  <2> QED
    BY <1>6, <2>3, <2>4
<1> QED
  BY <1>3, <1>4, <1>5, <1>6 DEF RequestStep

\* The response timer expires: the request is repeated or given up.
LEMMA TimeoutDirection ==
    ASSUME NEW P, NEW S, NEW req, NEW ans, NEW got, NEW gave, NEW later,
           Direction(P, S, req, ans, got, gave, later),
           S.out = <<>>, None(req, PriFunction), None(ans, SecFunction),
           NEW Q, TimeoutStep(P, Q), NEW gave2 \in BOOLEAN, gave => gave2,
           P.state = "ConfDataWait" /\ Q.state = "Idle" => gave2
    PROVE  Direction(Q, S, req, ans, got, gave2, later)
<1>0. /\ Exchange(P, S, req, ans, gave) /\ History(P, S, got, gave, later)
      /\ States(P)
  BY DEF Direction, Exchange
<1>1. Exchange(Q, S, req, ans, gave2)
  BY <1>0, TimeoutExchange
<1>2. History(Q, S, got, gave2, later)
  <2>1. CASE Q.segs = P.segs
    <3>1. (Sending(P) => Sending(Q)) /\ Q.fcb = P.fcb /\ Q.reset = P.reset
      BY <1>0, <2>1 DEF TimeoutStep, Sending, States
    <3> QED
      BY <1>0, <2>1, <3>1, HistoryKept DEF MayHaveCome
  <2>2. CASE Q.segs # P.segs
    <3>1. Q.segs = <<>> /\ (P.state = "ResetLinkWait" \/ gave2) /\ Q.reset = P.reset
      BY <2>2 DEF TimeoutStep
    <3>2. Q.reset => gave2
      BY <1>0, <3>1 DEF States, Resetting
    <3> QED
      BY <1>0, <3>1, <3>2, HistoryOfNone
  <2> QED
    BY <2>1, <2>2
<1> QED
  BY <1>1, <1>2 DEF Direction

\* The primary station's endpoint is restarted.
LEMMA PriRestartDirection ==
    ASSUME NEW P, NEW S, NEW req, NEW ans, NEW got, NEW gave, NEW later,
           Direction(P, S, req, ans, got, gave, later),
           S.out = <<>>, None(req, PriFunction), None(ans, SecFunction),
           NEW Q, Q.state = "Idle", Q.segs = <<>>, Q.fcb = P.fcb, Q.reset = FALSE,
           Q.out = <<>>, NEW gave2 \in BOOLEAN
    PROVE  Direction(Q, S, req, ans, got, gave2, later)
<1>1. Exchange(Q, S, req, ans, gave2)
  BY PriRestart DEF Direction
<1>2. History(Q, S, got, gave2, later)
  BY HistoryOfNone DEF Direction
<1> QED
  BY <1>1, <1>2 DEF Direction

\* The secondary station's endpoint is restarted; its answer is gone.
LEMMA SecRestartDirection ==
    ASSUME NEW P, NEW S, NEW req, NEW ans, NEW got, NEW gave, NEW later,
           Direction(P, S, req, ans, got, gave, later),
           P.out = <<>>, None(req, PriFunction), None(ans, SecFunction),
           NEW R, R.state = "NotReset", R.fcb = S.fcb, R.out = <<>>
    PROVE  Direction(P, R, req, ans, got, gave, later)
<1>1. Exchange(P, R, req, ans, gave)
  BY SecRestart DEF Direction
<1>2. ~Listening(R)
  BY DEF Listening
<1>3. History(P, R, got, gave, later)
  BY <1>2, HistoryKept DEF Direction, MayHaveCome
<1> QED
  BY <1>1, <1>3 DEF Direction

\* A new connection: both stations start afresh.
LEMMA BothRestartDirection ==
    ASSUME NEW P, NEW S, NEW req, NEW ans, NEW got, NEW gave, NEW later,
           Direction(P, S, req, ans, got, gave, later),
           NEW Q, Q.state = "Idle", Q.segs = <<>>, Q.fcb = P.fcb, Q.reset = FALSE,
           Q.out = <<>>, NEW R, R.state = "NotReset", R.fcb = S.fcb, R.out = <<>>
    PROVE  Direction(Q, R, <<>>, <<>>, got, FALSE, later)
<1>1. Exchange(Q, R, <<>>, <<>>, FALSE)
  BY BothRestart DEF Direction
<1>2. History(Q, R, got, FALSE, later)
  BY HistoryOfNone DEF Direction
<1> QED
  BY <1>1, <1>2 DEF Direction

\* The upper layer sends what comes next.
LEMMA SendDirection ==
    ASSUME NEW P, NEW S, NEW req, NEW ans, NEW got, NEW gave, NEW later,
           Direction(P, S, req, ans, got, gave, later), P.segs = <<>>,
           NEW Q, Q.state = P.state, Q.fcb = P.fcb, Q.reset = P.reset, Q.out = P.out,
           Q.addr = P.addr, Q.segs \in Seq(Segment), NEW later2 \in SUBSET later,
           \A i, j \in DOMAIN Q.segs : i < j => Q.segs[i] < Q.segs[j],
           \A i \in DOMAIN Q.segs : Q.segs[i] \in later,
           \A x \in later2, i \in DOMAIN Q.segs : Q.segs[i] < x
    PROVE  Direction(Q, S, req, ans, got, gave, later2)
<1>0. /\ Exchange(P, S, req, ans, gave) /\ History(P, S, got, gave, later)
      /\ States(P) /\ InStep(P, S, gave)
  BY DEF Direction, Exchange
<1>1. Exchange(Q, S, req, ans, gave)
  BY <1>0, SendExchange
<1>2. ~Sending(P)
  BY <1>0 DEF States, Sending
<1>3. Order(Q, S, got, later2) /\ Arrived(Q, S, got, gave)
  BY <1>0, <1>2 DEF History, Order, Arrived, InStep
<1>4. History(Q, S, got, gave, later2)
  BY <1>0, <1>3 DEF History
<1> QED
  BY <1>1, <1>4 DEF Direction

-------------------------------------------------------------------------------
(* The pair.                                                                *)

\* The segments that n's upper layer sends after the first k entries.
Later(n, k) ==
    {x \in Segment : \E l \in DOMAIN Script[n] :
                        l > k /\ \E i \in DOMAIN Script[n][l] : Script[n][l][i] = x}

\* What n sends to m.
DirOK(lk, wr, wi, se, de, ga, n, m) ==
    Direction(Pri(lk[n], wr[n]), Sec(lk[m], wr[m]), wi[m], wi[n], de[m], ga[n],
              Later(n, se[n]))
AckOK(de, ac, n, m) == ac[n] \subseteq SegmentNumbers(de[m])

\* The inductive invariant.
PairInv ==
    /\ TypeOK
    /\ \A n \in Node : EndOK(link[n], written[n], NodeConfig[n])
    /\ \A n \in Node : DirOK(link, written, wire, sent, delivered, gaveUp, n, Peer(n))
    /\ \A n \in Node : AckOK(delivered, acked, n, Peer(n))

\* There are two endpoints.
LEMMA PairNodes ==
    ASSUME NEW n \in Node
    PROVE  /\ Peer(n) \in Node /\ Peer(n) # n /\ Peer(Peer(n)) = n
           /\ \A k \in Node : k = n \/ k = Peer(n)
<1>1. PICK a \in Node, b \in Node : a # b /\ Node = {a, b}
  BY NodeAssumption
<1>2. Peer(a) = b /\ Peer(b) = a
  BY <1>1 DEF Peer
<1> QED
  BY <1>1, <1>2

\* The invariant, said of one endpoint and its peer.
LEMMA PairUse ==
    ASSUME PairInv, NEW n \in Node, NEW m, m = Peer(n)
    PROVE  /\ m \in Node /\ m # n /\ Peer(m) = n
           /\ EndOK(link[n], written[n], NodeConfig[n])
           /\ EndOK(link[m], written[m], NodeConfig[m])
           /\ Direction(Pri(link[n], written[n]), Sec(link[m], written[m]), wire[m], wire[n],
                        delivered[m], gaveUp[n], Later(n, sent[n]))
           /\ Direction(Pri(link[m], written[m]), Sec(link[n], written[n]), wire[n], wire[m],
                        delivered[n], gaveUp[m], Later(m, sent[m]))
           /\ acked[n] \subseteq SegmentNumbers(delivered[m])
           /\ acked[m] \subseteq SegmentNumbers(delivered[n])
<1>1. m \in Node /\ m # n /\ Peer(m) = n
  BY PairNodes
<1>2. /\ DirOK(link, written, wire, sent, delivered, gaveUp, n, m)
      /\ DirOK(link, written, wire, sent, delivered, gaveUp, m, n)
      /\ AckOK(delivered, acked, n, m) /\ AckOK(delivered, acked, m, n)
  BY <1>1 DEF PairInv
<1>3. /\ EndOK(link[n], written[n], NodeConfig[n])
      /\ EndOK(link[m], written[m], NodeConfig[m])
  BY <1>1 DEF PairInv
<1> QED
  BY <1>1, <1>2, <1>3 DEF DirOK, AckOK

LEMMA PairBuild ==
    ASSUME TypeOK', NEW n \in Node, NEW m, m = Peer(n),
           EndOK(link'[n], written'[n], NodeConfig[n]),
           EndOK(link'[m], written'[m], NodeConfig[m]),
           Direction(Pri(link'[n], written'[n]), Sec(link'[m], written'[m]), wire'[m], wire'[n],
                     delivered'[m], gaveUp'[n], Later(n, sent'[n])),
           Direction(Pri(link'[m], written'[m]), Sec(link'[n], written'[n]), wire'[n], wire'[m],
                     delivered'[n], gaveUp'[m], Later(m, sent'[m])),
           acked'[n] \subseteq SegmentNumbers(delivered'[m]),
           acked'[m] \subseteq SegmentNumbers(delivered'[n])
    PROVE  PairInv'
<1>1. m \in Node /\ m # n /\ Peer(m) = n /\ \A k \in Node : k = n \/ k = m
  BY PairNodes
<1>2. /\ DirOK(link', written', wire', sent', delivered', gaveUp', n, m)
      /\ DirOK(link', written', wire', sent', delivered', gaveUp', m, n)
      /\ AckOK(delivered', acked', n, m) /\ AckOK(delivered', acked', m, n)
  BY DEF DirOK, AckOK
<1>3. \A k \in Node : EndOK(link'[k], written'[k], NodeConfig[k])
  BY <1>1
<1>4. \A k \in Node : DirOK(link', written', wire', sent', delivered', gaveUp', k, Peer(k))
  BY <1>1, <1>2
<1>5. \A k \in Node : AckOK(delivered', acked', k, Peer(k))
  BY <1>1, <1>2
<1> QED
  BY <1>3, <1>4, <1>5 DEF PairInv

\* A handler has run at n: its endpoint changes and its peer does not.
LEMMA BecomeFacts ==
    ASSUME PairInv, NEW n \in Node, NEW m, m = Peer(n),
           NEW r, Become(n, r), Full(r), NEW w, Open(r, w), r.config = NodeConfig[n]
    PROVE  /\ link' \in [Node -> LinkContextType] /\ link'[m] = link[m]
           /\ EndOK(link'[n], w, NodeConfig[n])
           /\ Pri(link'[n], w) = Pri(r, w) /\ Sec(link'[n], w) = Sec(r, w)
<1> DEFINE d == [r EXCEPT !.up = <<>>]
<1>1. /\ EndOK(d, w, NodeConfig[n]) /\ Pri(d, w) = Pri(r, w) /\ Sec(d, w) = Sec(r, w)
      /\ d \in LinkContextType
  BY UpCleared
<1>2. link' = [link EXCEPT ![n] = d]
  BY DEF Become
<1> HIDE DEF d
<1>3. link \in [Node -> LinkContextType] /\ m \in Node /\ m # n
  BY PairUse DEF PairInv, TypeOK
<1>4. link'[n] = d /\ link'[m] = link[m] /\ link' \in [Node -> LinkContextType]
  BY <1>1, <1>2, <1>3
<1> QED
  BY <1>1, <1>4

\* What EndOK gives to the lemmas about handlers.
LEMMA EndFacts ==
    ASSUME NEW n \in Node, NEW c, NEW w, EndOK(c, w, NodeConfig[n])
    PROVE  /\ Full(c) /\ Open(c, w) /\ c \in LinkContextType /\ c.up = <<>>
           /\ c.config = NodeConfig[n] /\ c.config.UseConfirms
           /\ Base(c) /\ SecAccounting(c) /\ Work(c) /\ c.isOnline /\ Live(c)
  BY PairConfigAssumption DEF EndOK, Full, Base, Open

\* What comes next in the script, and what comes after it.
LEMMA ScriptNext ==
    ASSUME NEW n \in Node, NEW k \in Nat, k < Len(Script[n]), NEW s, s = Script[n][k + 1]
    PROVE  /\ s \in Seq(Segment) \ {<<>>}
           /\ \A i, j \in DOMAIN s : i < j => s[i] < s[j]
           /\ \A i \in DOMAIN s : s[i] \in Later(n, k)
           /\ Later(n, k + 1) \subseteq Later(n, k)
           /\ \A x \in Later(n, k + 1), i \in DOMAIN s : s[i] < x
<1>1. Script[n] \in Seq(Seq(Segment) \ {<<>>})
  BY ScriptAssumption
<1>2. k + 1 \in DOMAIN Script[n] /\ k + 1 > k /\ DOMAIN Script[n] \subseteq Nat
  BY <1>1
<1>3. s \in Seq(Segment) \ {<<>>}
  BY <1>1, <1>2
<1>4. \A i \in DOMAIN s : s[i] \in Segment
  BY <1>3
<1>5. \A i, j \in DOMAIN s : i < j => s[i] < s[j]
  BY <1>2, ScriptAssumption
<1>6. \A i \in DOMAIN s : s[i] \in Later(n, k)
  BY <1>2, <1>4 DEF Later
<1>7. Later(n, k + 1) \subseteq Later(n, k)
  BY <1>2 DEF Later
<1>8. ASSUME NEW x \in Later(n, k + 1), NEW i \in DOMAIN s PROVE s[i] < x
  <2>1. PICK l \in DOMAIN Script[n] :
          l > k + 1 /\ \E j \in DOMAIN Script[n][l] : Script[n][l][j] = x
    BY <1>8 DEF Later
  <2>2. PICK j \in DOMAIN Script[n][l] : Script[n][l][j] = x
    BY <2>1
  <2>3. k + 1 < l
    BY <1>2, <2>1
  <2> QED
    BY <1>2, <2>2, <2>3, ScriptAssumption
<1> QED
  BY <1>3, <1>5, <1>6, <1>7, <1>8

\* The upper layer of n sends.
LEMMA PairUpperSend ==
    ASSUME PairInv, NEW n \in Node, UpperSend(n)
    PROVE  PairInv'
<1> DEFINE m == Peer(n)
           c == link[n]
           w == written[n]
           s == Script[n][sent[n] + 1]
           x == [destination |-> NodeConfig[n].RemoteAddr, segs |-> s]
           r == Send(c, x)
<1>1. /\ m \in Node /\ m # n
      /\ EndOK(c, w, NodeConfig[n]) /\ EndOK(link[m], written[m], NodeConfig[m])
      /\ Direction(Pri(c, w), Sec(link[m], written[m]), wire[m], wire[n],
                   delivered[m], gaveUp[n], Later(n, sent[n]))
      /\ Direction(Pri(link[m], written[m]), Sec(c, w), wire[n], wire[m],
                   delivered[n], gaveUp[m], Later(m, sent[m]))
      /\ acked[n] \subseteq SegmentNumbers(delivered[m])
      /\ acked[m] \subseteq SegmentNumbers(delivered[n])
  BY PairUse
<1>2. /\ Full(c) /\ Open(c, w) /\ c \in LinkContextType /\ c.up = <<>>
      /\ c.config = NodeConfig[n] /\ c.config.UseConfirms
      /\ Base(c) /\ SecAccounting(c) /\ Work(c) /\ c.isOnline /\ Live(c)
  BY <1>1, EndFacts
<1>3. /\ ~HasSegments(c) /\ sent[n] < Len(Script[n]) /\ sent[n] \in Nat
      /\ sent' = [sent EXCEPT ![n] = sent[n] + 1]
      /\ sent \in [Node -> Nat] /\ Become(n, r)
      /\ UNCHANGED <<written, wire, delivered, acked, gaveUp>>
  BY DEF UpperSend, PairInv, TypeOK
<1>4. /\ s \in Seq(Segment) \ {<<>>}
      /\ \A i, j \in DOMAIN s : i < j => s[i] < s[j]
      /\ \A i \in DOMAIN s : s[i] \in Later(n, sent[n])
      /\ Later(n, sent[n] + 1) \subseteq Later(n, sent[n])
      /\ \A y \in Later(n, sent[n] + 1), i \in DOMAIN s : s[i] < y
  BY <1>3, ScriptNext
<1>5. NodeConfig[n].RemoteAddr \in Address
  BY PairConfigAssumption DEF LinkLayerConfig
<1> HIDE DEF s
<1>6. x \in Segments /\ x.segs = s
  BY <1>4, <1>5 DEF Segments
<1> HIDE DEF m, c, w, x, r
<1>7. /\ \E Q : /\ Q.state = Pri(c, w).state /\ Q.fcb = Pri(c, w).fcb
                /\ Q.reset = Pri(c, w).reset /\ Q.out = Pri(c, w).out
                 /\ Q.addr = Pri(c, w).addr
                /\ Q.segs = x.segs /\ Then(Q, Pri(r, w))
      /\ Sec(r, w) = Sec(c, w) /\ Steady(c, r, w)
  BY <1>2, <1>3, <1>6, SendEffect DEF r
<1>8. Full(r)
  BY <1>2, <1>6, SendFacts, KeptSession DEF r, Full
<1>9. Open(r, w) /\ r.config = NodeConfig[n]
  BY <1>2, <1>7 DEF Steady
<1>10. /\ link' \in [Node -> LinkContextType] /\ link'[m] = link[m]
       /\ EndOK(link'[n], w, NodeConfig[n])
       /\ Pri(link'[n], w) = Pri(r, w) /\ Sec(link'[n], w) = Sec(r, w)
  BY <1>3, <1>8, <1>9, BecomeFacts DEF m
<1>11. Direction(Pri(r, w), Sec(link[m], written[m]), wire[m], wire[n],
                 delivered[m], gaveUp[n], Later(n, sent[n] + 1))
  <2>1. PICK Q : /\ Q.state = Pri(c, w).state /\ Q.fcb = Pri(c, w).fcb
                 /\ Q.reset = Pri(c, w).reset /\ Q.out = Pri(c, w).out
                 /\ Q.addr = Pri(c, w).addr
                 /\ Q.segs = x.segs /\ Then(Q, Pri(r, w))
    BY <1>7
  <2>2. Pri(c, w).segs = <<>>
    BY <1>2, <1>3, SegmentsHeld DEF Pri
  <2>3. Later(n, sent[n] + 1) \in SUBSET Later(n, sent[n]) /\ Q.segs = s /\ Q.segs \in Seq(Segment)
    BY <1>4, <1>6, <2>1
  <2>4. Direction(Q, Sec(link[m], written[m]), wire[m], wire[n],
                  delivered[m], gaveUp[n], Later(n, sent[n] + 1))
    BY <1>1, <1>4, <2>1, <2>2, <2>3, SendDirection
  <2> QED
    BY <2>1, <2>4, ThenDirection
<1>12. TypeOK'
  <2>1. TypeOK
    BY DEF PairInv
  <2>2. sent' \in [Node -> Nat]
    BY <1>3
  <2> QED
    BY <1>3, <1>10, <2>1, <2>2 DEF TypeOK
<1>13. sent'[n] = sent[n] + 1 /\ sent'[m] = sent[m] /\ written'[n] = w
  BY <1>1, <1>3 DEF w
<1> QED
  BY <1>1, <1>3, <1>7, <1>10, <1>11, <1>12, <1>13, PairBuild DEF m

\* A handler has run at n that took nothing from the wire.
LEMMA HandlerStep ==
    ASSUME PairInv, NEW n \in Node, NEW m, m = Peer(n),
           NEW r, Become(n, r), Full(r), NEW w \in BOOLEAN, Open(r, w), r.config = NodeConfig[n],
           written' = [written EXCEPT ![n] = w],
           NEW gave \in BOOLEAN, gaveUp' = [gaveUp EXCEPT ![n] = gave],
           UNCHANGED <<wire, sent, delivered, acked>>,
           Direction(Pri(r, w), Sec(link[m], written[m]), wire[m], wire[n],
                     delivered[m], gave, Later(n, sent[n])),
           Direction(Pri(link[m], written[m]), Sec(r, w), wire[n], wire[m],
                     delivered[n], gaveUp[m], Later(m, sent[m]))
    PROVE  PairInv'
<1>1. /\ m \in Node /\ m # n /\ EndOK(link[m], written[m], NodeConfig[m])
      /\ acked[n] \subseteq SegmentNumbers(delivered[m])
      /\ acked[m] \subseteq SegmentNumbers(delivered[n])
  BY PairUse
<1>2. /\ link' \in [Node -> LinkContextType] /\ link'[m] = link[m]
      /\ EndOK(link'[n], w, NodeConfig[n])
      /\ Pri(link'[n], w) = Pri(r, w) /\ Sec(link'[n], w) = Sec(r, w)
  BY BecomeFacts
<1>3. TypeOK
  BY DEF PairInv
<1>4. /\ written' \in [Node -> BOOLEAN] /\ written'[n] = w /\ written'[m] = written[m]
  BY <1>1, <1>3 DEF TypeOK
<1>5. /\ gaveUp' \in [Node -> BOOLEAN] /\ gaveUp'[n] = gave /\ gaveUp'[m] = gaveUp[m]
  BY <1>1, <1>3 DEF TypeOK
<1>6. TypeOK'
  BY <1>2, <1>3, <1>4, <1>5 DEF TypeOK
<1> QED
  BY <1>1, <1>2, <1>4, <1>5, <1>6, PairBuild

\* A handler queued on the executor tells the upper layer that its send is done.
LEMMA PairRunPosted ==
    ASSUME PairInv, NEW n \in Node, RunPosted(n)
    PROVE  PairInv'
<1> DEFINE m == Peer(n)
           c == link[n]
           w == written[n]
           k == c.posted - 1
           r == [c EXCEPT !.posted = k]
<1>1. /\ EndOK(c, w, NodeConfig[n])
      /\ Direction(Pri(c, w), Sec(link[m], written[m]), wire[m], wire[n],
                   delivered[m], gaveUp[n], Later(n, sent[n]))
      /\ Direction(Pri(link[m], written[m]), Sec(c, w), wire[n], wire[m],
                   delivered[n], gaveUp[m], Later(m, sent[m]))
  BY PairUse
<1>2. /\ Full(c) /\ Open(c, w) /\ c \in LinkContextType /\ c.config = NodeConfig[n]
  BY <1>1, EndFacts
<1>3. Become(n, r) /\ UNCHANGED <<written, wire, sent, delivered, acked, gaveUp>> /\ k \in Nat
  BY <1>2 DEF RunPosted, LinkContextType
<1>4. written \in [Node -> BOOLEAN] /\ gaveUp \in [Node -> BOOLEAN]
  BY DEF PairInv, TypeOK
<1> HIDE DEF k
<1>5. Full(r)
  BY <1>2, <1>3, PlainUpdate, EmptyTyped
<1>6. Alike(c, r) /\ r.pPriState = c.pPriState
  BY <1>2 DEF Alike, LinkContextType
<1> HIDE DEF m, c, w, r
<1>7. Pri(r, w) = Pri(c, w) /\ Sec(r, w) = Sec(c, w) /\ Open(r, w) /\ r.config = NodeConfig[n]
  BY <1>2, <1>6, AlikeFacts DEF Steady
<1>8. /\ w \in BOOLEAN /\ gaveUp[n] \in BOOLEAN
      /\ written' = [written EXCEPT ![n] = w] /\ gaveUp' = [gaveUp EXCEPT ![n] = gaveUp[n]]
  BY <1>3, <1>4 DEF w
<1>9. /\ Direction(Pri(r, w), Sec(link[m], written[m]), wire[m], wire[n],
                   delivered[m], gaveUp[n], Later(n, sent[n]))
      /\ Direction(Pri(link[m], written[m]), Sec(r, w), wire[n], wire[m],
                   delivered[n], gaveUp[m], Later(m, sent[m]))
  BY <1>1, <1>7
<1>10. Become(n, r) /\ UNCHANGED <<wire, sent, delivered, acked>>
  BY <1>3
<1> QED
  BY <1>5, <1>7, <1>8, <1>9, <1>10, HandlerStep DEF m

\* The frame at the head of n's queue leaves.
LEMMA PairWriteComplete ==
    ASSUME PairInv, NEW n \in Node, WriteComplete(n)
    PROVE  PairInv'
<1> DEFINE m == Peer(n)
           c == link[n]
           r == OnWriteComplete(c)
<1>1. written[n] = TRUE
  BY DEF WriteComplete, PairInv, TypeOK
<1>2. /\ EndOK(c, TRUE, NodeConfig[n])
      /\ Direction(Pri(c, TRUE), Sec(link[m], written[m]), wire[m], wire[n],
                   delivered[m], gaveUp[n], Later(n, sent[n]))
      /\ Direction(Pri(link[m], written[m]), Sec(c, TRUE), wire[n], wire[m],
                   delivered[n], gaveUp[m], Later(m, sent[m]))
  BY <1>1, PairUse
<1>3. /\ Full(c) /\ Open(c, TRUE) /\ c.config = NodeConfig[n] /\ c.config.UseConfirms
  BY <1>2, EndFacts
<1>4. /\ Become(n, r) /\ written' = [written EXCEPT ![n] = FALSE]
      /\ UNCHANGED <<wire, sent, delivered, acked, gaveUp>>
  BY DEF WriteComplete
<1>5. gaveUp \in [Node -> BOOLEAN]
  BY DEF PairInv, TypeOK
<1> HIDE DEF m, c, r
<1>6. c.tx # <<>>
  BY <1>3 DEF Open
<1>7. c.pPriState # "SendUnconfirmedTransmitWait"
  BY <1>2 DEF Direction, Exchange, States, Pri
<1>8. /\ \E Q : SameKind(Pri(c, TRUE), Q) /\ Then(Q, Pri(r, FALSE))
      /\ SameEar(Sec(c, TRUE), Sec(r, FALSE)) /\ Steady(c, r, FALSE)
  BY <1>3, <1>7, WriteEffect DEF r
<1>9. Full(r)
  BY <1>3, <1>6, WriteCompleteFacts DEF r
<1>10. Open(r, FALSE) /\ r.config = NodeConfig[n]
  BY <1>3, <1>8 DEF Steady
<1>11. Direction(Pri(r, FALSE), Sec(link[m], written[m]), wire[m], wire[n],
                 delivered[m], gaveUp[n], Later(n, sent[n]))
  <2>1. PICK Q : SameKind(Pri(c, TRUE), Q) /\ Then(Q, Pri(r, FALSE))
    BY <1>8
  <2>2. Direction(Q, Sec(link[m], written[m]), wire[m], wire[n],
                  delivered[m], gaveUp[n], Later(n, sent[n]))
    BY <1>2, <2>1, SameKindDirection
  <2> QED
    BY <2>1, <2>2, ThenDirection
<1>12. Direction(Pri(link[m], written[m]), Sec(r, FALSE), wire[n], wire[m],
                 delivered[n], gaveUp[m], Later(m, sent[m]))
  BY <1>2, <1>8, SameEarDirection
<1>13. gaveUp[n] \in BOOLEAN /\ gaveUp' = [gaveUp EXCEPT ![n] = gaveUp[n]]
  BY <1>4, <1>5
<1> QED
  BY <1>4, <1>9, <1>10, <1>11, <1>12, <1>13, HandlerStep DEF m

\* Nothing is under way between n and a quiet peer.
LEMMA QuietFacts ==
    ASSUME PairInv, NEW n \in Node, NEW m, m = Peer(n), Quiet(n)
    PROVE  /\ Sec(link[m], written[m]).out = <<>> /\ Pri(link[m], written[m]).out = <<>>
           /\ None(wire[m], PriFunction) /\ None(wire[n], SecFunction)
           /\ None(wire[n], PriFunction) /\ None(wire[m], SecFunction)
<1> DEFINE e == link[m]
           v == written[m]
<1>1. EndOK(e, v, NodeConfig[m]) /\ m \in Node
  BY PairUse
<1>2. /\ Full(e) /\ Live(e) /\ e.tx = <<>> /\ wire[n] = <<>> /\ wire[m] = <<>>
  BY <1>1, EndFacts DEF Quiet
<1> HIDE DEF e, v
<1>3. e.txMode = "Idle" /\ e.pendingPriTx = <<>> /\ e.pendingSecTx = <<>>
  BY <1>2 DEF Full, Base, Chan, Live
<1>4. Sec(e, v).out = <<>> /\ Pri(e, v).out = <<>>
  BY <1>3 DEF Sec, Pri, SecOut, PriOut
<1>5. \A F : None(<<>>, F)
  BY DEF None
<1> QED
  BY <1>2, <1>4, <1>5 DEF e, v

\* The response timer of n expires.
LEMMA PairResponseTimeout ==
    ASSUME PairInv, NEW n \in Node, ResponseTimeout(n)
    PROVE  PairInv'
<1> DEFINE m == Peer(n)
           c == link[n]
           w == written[n]
           t == CurrentCallback(c.rspTimeoutTimer)
           d == [c EXCEPT !.rspTimeoutTimer = t]
           r == OnResponseTimeout(d)
           final == c.pPriState = "ConfDataWait" /\ c.numRetryRemaining = 0
           gave == gaveUp[n] \/ final
<1>1. /\ EndOK(c, w, NodeConfig[n])
      /\ Direction(Pri(c, w), Sec(link[m], written[m]), wire[m], wire[n],
                   delivered[m], gaveUp[n], Later(n, sent[n]))
      /\ Direction(Pri(link[m], written[m]), Sec(c, w), wire[n], wire[m],
                   delivered[n], gaveUp[m], Later(m, sent[m]))
  BY PairUse
<1>2. /\ Full(c) /\ Open(c, w) /\ c \in LinkContextType /\ c.config = NodeConfig[n]
      /\ c.config.UseConfirms /\ Base(c)
  BY <1>1, EndFacts
<1>3. /\ IsActive(c.rspTimeoutTimer) /\ Quiet(n) /\ Become(n, r)
      /\ gaveUp' = [gaveUp EXCEPT ![n] = gave]
      /\ UNCHANGED <<written, wire, sent, delivered, acked>>
  BY DEF ResponseTimeout
<1>4. written \in [Node -> BOOLEAN] /\ gaveUp \in [Node -> BOOLEAN]
  BY DEF PairInv, TypeOK
<1>5. t \in TimerRefType /\ ~IsActive(t)
  BY <1>2, TimerFacts DEF LinkContextType
<1>6. c.pPriState \in PriResponseWait
  BY <1>2, <1>3 DEF Base, Waits
<1>7. gave \in BOOLEAN /\ (gaveUp[n] => gave) /\ (final => gave)
  BY <1>4
<1> HIDE DEF m, c, w, t, r, gave
<1>8. /\ \E Q : /\ TimeoutStep(Pri(c, w), Q) /\ Then(Q, Pri(r, w))
                /\ c.pPriState = "ConfDataWait" /\ Q.state = "Idle" => c.numRetryRemaining = 0
      /\ Sec(r, w) = Sec(c, w) /\ Steady(c, r, w)
  BY <1>2, <1>5, <1>6, TimeoutEffect DEF r
<1>9. Full(r)
  BY <1>2, <1>5, ResponseHandler DEF r
<1>10. Open(r, w) /\ r.config = NodeConfig[n]
  BY <1>2, <1>8 DEF Steady
<1>11. /\ Sec(link[m], written[m]).out = <<>>
       /\ None(wire[m], PriFunction) /\ None(wire[n], SecFunction)
  BY <1>3, QuietFacts DEF m
<1>12. Direction(Pri(r, w), Sec(link[m], written[m]), wire[m], wire[n],
                 delivered[m], gave, Later(n, sent[n]))
  <2>1. PICK Q : /\ TimeoutStep(Pri(c, w), Q) /\ Then(Q, Pri(r, w))
                 /\ c.pPriState = "ConfDataWait" /\ Q.state = "Idle" => c.numRetryRemaining = 0
    BY <1>8
  <2>2. Pri(c, w).state = "ConfDataWait" /\ Q.state = "Idle" => gave
    BY <1>7, <2>1 DEF Pri
  <2>3. Direction(Q, Sec(link[m], written[m]), wire[m], wire[n],
                  delivered[m], gave, Later(n, sent[n]))
    BY <1>1, <1>7, <1>11, <2>1, <2>2, TimeoutDirection
  <2> QED
    BY <2>1, <2>3, ThenDirection
<1>13. Direction(Pri(link[m], written[m]), Sec(r, w), wire[n], wire[m],
                 delivered[n], gaveUp[m], Later(m, sent[m]))
  BY <1>1, <1>8
<1>14. w \in BOOLEAN /\ written' = [written EXCEPT ![n] = w]
  BY <1>3, <1>4 DEF w
<1>15. /\ Become(n, r) /\ UNCHANGED <<wire, sent, delivered, acked>>
       /\ gaveUp' = [gaveUp EXCEPT ![n] = gave]
  BY <1>3
<1> QED
  BY <1>7, <1>9, <1>10, <1>12, <1>13, <1>14, <1>15, HandlerStep DEF m

\* The keep-alive timer of n expires.
LEMMA PairKeepAlive ==
    ASSUME PairInv, NEW n \in Node, KeepAlive(n)
    PROVE  PairInv'
<1> DEFINE m == Peer(n)
           c == link[n]
           w == written[n]
           t == CurrentCallback(c.keepAliveTimer)
           d == [c EXCEPT !.keepAliveTimer = t]
           r == OnKeepAliveTimeout(d, TRUE)
<1>1. /\ EndOK(c, w, NodeConfig[n])
      /\ Direction(Pri(c, w), Sec(link[m], written[m]), wire[m], wire[n],
                   delivered[m], gaveUp[n], Later(n, sent[n]))
      /\ Direction(Pri(link[m], written[m]), Sec(c, w), wire[n], wire[m],
                   delivered[n], gaveUp[m], Later(m, sent[m]))
  BY PairUse
<1>2. /\ Full(c) /\ Open(c, w) /\ c \in LinkContextType /\ c.config = NodeConfig[n]
      /\ c.config.UseConfirms
  BY <1>1, EndFacts
<1>3. Become(n, r) /\ UNCHANGED <<written, wire, sent, delivered, acked, gaveUp>>
  BY DEF KeepAlive
<1>4. written \in [Node -> BOOLEAN] /\ gaveUp \in [Node -> BOOLEAN]
  BY DEF PairInv, TypeOK
<1>5. t \in TimerRefType
  BY <1>2, TimerFacts DEF LinkContextType
<1> HIDE DEF m, c, w, t, r
<1>6. Then(Pri(c, w), Pri(r, w)) /\ Sec(r, w) = Sec(c, w) /\ Steady(c, r, w)
  BY <1>2, <1>5, KeepAliveEffect DEF r
<1>7. Full(r)
  BY <1>2, <1>5, KeepAliveHandler DEF r
<1>8. Open(r, w) /\ r.config = NodeConfig[n]
  BY <1>2, <1>6 DEF Steady
<1>9. Direction(Pri(r, w), Sec(link[m], written[m]), wire[m], wire[n],
                delivered[m], gaveUp[n], Later(n, sent[n]))
  BY <1>1, <1>6, ThenDirection
<1>10. Direction(Pri(link[m], written[m]), Sec(r, w), wire[n], wire[m],
                 delivered[n], gaveUp[m], Later(m, sent[m]))
  BY <1>1, <1>6
<1>11. /\ w \in BOOLEAN /\ gaveUp[n] \in BOOLEAN
       /\ written' = [written EXCEPT ![n] = w] /\ gaveUp' = [gaveUp EXCEPT ![n] = gaveUp[n]]
  BY <1>3, <1>4 DEF w
<1>12. Become(n, r) /\ UNCHANGED <<wire, sent, delivered, acked>>
  BY <1>3
<1> QED
  BY <1>7, <1>8, <1>9, <1>10, <1>11, <1>12, HandlerStep DEF m

\* The port of n is reopened.
LEMMA PairRestart ==
    ASSUME PairInv, NEW n \in Node, Restart(n)
    PROVE  PairInv'
<1> DEFINE m == Peer(n)
           c == link[n]
           w == written[n]
           r == DownUp(c)
<1>1. /\ EndOK(c, w, NodeConfig[n])
      /\ Direction(Pri(c, w), Sec(link[m], written[m]), wire[m], wire[n],
                   delivered[m], gaveUp[n], Later(n, sent[n]))
      /\ Direction(Pri(link[m], written[m]), Sec(c, w), wire[n], wire[m],
                   delivered[n], gaveUp[m], Later(m, sent[m]))
  BY PairUse
<1>2. /\ Full(c) /\ c.isOnline /\ c.config = NodeConfig[n]
  BY <1>1, EndFacts
<1>3. /\ Quiet(n) /\ Become(n, r) /\ written' = [written EXCEPT ![n] = FALSE]
      /\ gaveUp' = [gaveUp EXCEPT ![n] = FALSE]
      /\ UNCHANGED <<wire, sent, delivered, acked>>
  BY DEF Restart
<1> HIDE DEF m, c, w, r
<1>4. /\ Full(r) /\ Open(r, FALSE) /\ r.config = c.config
      /\ Pri(r, FALSE).state = "Idle" /\ Pri(r, FALSE).segs = <<>>
      /\ Pri(r, FALSE).fcb = Pri(c, FALSE).fcb /\ Pri(r, FALSE).reset = FALSE
      /\ Pri(r, FALSE).out = <<>>
      /\ Sec(r, FALSE).state = "NotReset" /\ Sec(r, FALSE).fcb = Sec(c, FALSE).fcb
      /\ Sec(r, FALSE).out = <<>>
  BY <1>2, DownUpEffect DEF r, DownUp
<1>5. Pri(r, FALSE).fcb = Pri(c, w).fcb /\ Sec(r, FALSE).fcb = Sec(c, w).fcb
  BY <1>4 DEF Pri, Sec
<1>6. /\ Sec(link[m], written[m]).out = <<>> /\ Pri(link[m], written[m]).out = <<>>
      /\ None(wire[m], PriFunction) /\ None(wire[n], SecFunction)
      /\ None(wire[n], PriFunction) /\ None(wire[m], SecFunction)
  BY <1>3, QuietFacts DEF m
<1>7. Direction(Pri(r, FALSE), Sec(link[m], written[m]), wire[m], wire[n],
                delivered[m], FALSE, Later(n, sent[n]))
  BY <1>1, <1>4, <1>5, <1>6, PriRestartDirection
<1>8. Direction(Pri(link[m], written[m]), Sec(r, FALSE), wire[n], wire[m],
                delivered[n], gaveUp[m], Later(m, sent[m]))
  BY <1>1, <1>4, <1>5, <1>6, SecRestartDirection
<1> QED
  BY <1>2, <1>3, <1>4, <1>7, <1>8, HandlerStep DEF m

\* The frame that n gave to the channel goes on the wire.
LEMMA PairPutOnWire ==
    ASSUME PairInv, NEW n \in Node, PutOnWire(n)
    PROVE  PairInv'
<1> DEFINE m == Peer(n)
           c == link[n]
           e == link[m]
           v == written[m]
           f == Head(c.tx).frame
<1>1. written[n] = FALSE
  BY DEF PutOnWire, PairInv, TypeOK
<1>2. /\ m \in Node /\ m # n
      /\ EndOK(c, FALSE, NodeConfig[n]) /\ EndOK(e, v, NodeConfig[m])
      /\ Direction(Pri(c, FALSE), Sec(e, v), wire[m], wire[n],
                   delivered[m], gaveUp[n], Later(n, sent[n]))
      /\ Direction(Pri(e, v), Sec(c, FALSE), wire[n], wire[m],
                   delivered[n], gaveUp[m], Later(m, sent[m]))
      /\ acked[n] \subseteq SegmentNumbers(delivered[m])
      /\ acked[m] \subseteq SegmentNumbers(delivered[n])
  BY <1>1, PairUse
<1>3. Full(c) /\ Open(c, FALSE) /\ c.config = NodeConfig[n] /\ c.up = <<>>
  BY <1>2, EndFacts
<1>4. /\ c.tx # <<>> /\ written' = [written EXCEPT ![n] = TRUE]
      /\ wire' = [wire EXCEPT ![m] = Append(wire[m], f)]
      /\ UNCHANGED <<link, sent, delivered, acked, gaveUp>>
  BY DEF PutOnWire
<1>5. TypeOK
  BY DEF PairInv
<1> HIDE DEF m, c, e, v, f
<1>6. EndOK(c, TRUE, NodeConfig[n])
  BY <1>3, <1>4 DEF EndOK, Open
<1>7. /\ \/ /\ c.txMode = "Primary" /\ PriOut(c, FALSE) = <<f>> /\ PriOut(c, TRUE) = <<>>
            /\ SecOut(c, TRUE) = SecOut(c, FALSE)
         \/ /\ c.txMode = "Secondary" /\ SecOut(c, FALSE) = <<f>> /\ SecOut(c, TRUE) = <<>>
            /\ PriOut(c, TRUE) = PriOut(c, FALSE)
      /\ f \in Frame
  BY <1>3, <1>4, ChannelFrame DEF f
<1> DEFINE Result ==
             /\ Direction(Pri(c, TRUE), Sec(e, v), Append(wire[m], f), wire[n],
                          delivered[m], gaveUp[n], Later(n, sent[n]))
             /\ Direction(Pri(e, v), Sec(c, TRUE), wire[n], Append(wire[m], f),
                          delivered[n], gaveUp[m], Later(m, sent[m]))
<1>8. ASSUME PriOut(c, FALSE) = <<f>>, PriOut(c, TRUE) = <<>>,
             SecOut(c, TRUE) = SecOut(c, FALSE)
      PROVE  Result
  <2> DEFINE P == Pri(c, FALSE)
             Q == Pri(c, TRUE)
  <2>1. /\ P.out = <<f>> /\ Q.state = P.state /\ Q.segs = P.segs /\ Q.fcb = P.fcb
        /\ Q.reset = P.reset /\ Q.addr = P.addr /\ Q.out = <<>>
    BY <1>8 DEF Pri
  <2>2. Sec(c, TRUE) = Sec(c, FALSE)
    BY <1>8 DEF Sec
  <2> HIDE DEF P, Q
  <2>3. Direction(P, Sec(e, v), wire[m], wire[n],
                  delivered[m], gaveUp[n], Later(n, sent[n]))
    BY <1>2 DEF P
  <2>4. Direction(Q, Sec(e, v), Append(wire[m], f), wire[n],
                  delivered[m], gaveUp[n], Later(n, sent[n]))
    BY <1>7, <2>1, <2>3, PutRequestDirection
  <2>5. RequestOf(P, f)
    BY <2>1, <2>3 DEF Direction, Exchange, Matching
  <2>6. f.func \notin SecFunction
    BY <2>5 DEF RequestOf, SecFunction
  <2>7. Direction(Pri(e, v), Sec(c, FALSE), wire[n], Append(wire[m], f),
                  delivered[n], gaveUp[m], Later(m, sent[m]))
    BY <1>2, <1>7, <2>6, WireDirection
  <2> QED
    BY <2>2, <2>4, <2>7 DEF Q
<1>9. ASSUME SecOut(c, FALSE) = <<f>>, SecOut(c, TRUE) = <<>>,
             PriOut(c, TRUE) = PriOut(c, FALSE)
      PROVE  Result
  <2> DEFINE S == Sec(c, FALSE)
             R == Sec(c, TRUE)
             P == Pri(e, v)
  <2>1. S.out = <<f>> /\ R.state = S.state /\ R.fcb = S.fcb /\ R.out = <<>>
    BY <1>9 DEF Sec
  <2>2. Pri(c, TRUE) = Pri(c, FALSE)
    BY <1>9 DEF Pri
  <2> HIDE DEF S, R, P
  <2>3. Direction(P, S, wire[n], wire[m], delivered[n], gaveUp[m], Later(m, sent[m]))
    BY <1>2 DEF S, P
  <2>4. Direction(P, R, wire[n], Append(wire[m], f), delivered[n], gaveUp[m], Later(m, sent[m]))
    BY <1>7, <2>1, <2>3, PutAnswerDirection
  <2>5. AnswerTo(P, S, f)
    BY <2>1, <2>3 DEF Direction, Exchange, Matching
  <2>6. f.func \notin PriFunction
    BY <2>5 DEF AnswerTo, PriFunction
  <2>7. Direction(Pri(c, FALSE), Sec(e, v), Append(wire[m], f), wire[n],
                  delivered[m], gaveUp[n], Later(n, sent[n]))
    BY <1>2, <1>7, <2>6, WireDirection
  <2> QED
    BY <2>2, <2>4, <2>7 DEF R, P
<1>10. Result
  BY <1>7, <1>8, <1>9
<1>11. /\ written' \in [Node -> BOOLEAN] /\ written'[n] = TRUE /\ written'[m] = v
  BY <1>2, <1>4, <1>5 DEF TypeOK, v
<1>12. Append(wire[m], f) \in Seq(Frame)
  BY <1>10 DEF Direction, Exchange, DirType
<1>13. /\ wire' \in [Node -> Seq(Frame)] /\ wire'[m] = Append(wire[m], f) /\ wire'[n] = wire[n]
  BY <1>2, <1>4, <1>5, <1>12 DEF TypeOK
<1>14. TypeOK'
  BY <1>4, <1>5, <1>11, <1>13 DEF TypeOK
<1>15. /\ link'[n] = c /\ link'[m] = e /\ sent' = sent /\ delivered' = delivered
       /\ acked' = acked /\ gaveUp' = gaveUp
  BY <1>4 DEF c, e
<1> QED
  BY <1>2, <1>6, <1>10, <1>11, <1>13, <1>14, <1>15, PairBuild DEF m

\* A frame is lost on its way to n.
LEMMA PairLoseFrame ==
    ASSUME PairInv, NEW n \in Node, LoseFrame(n)
    PROVE  PairInv'
<1> DEFINE m == Peer(n)
<1>1. /\ m \in Node /\ m # n
      /\ EndOK(link[n], written[n], NodeConfig[n]) /\ EndOK(link[m], written[m], NodeConfig[m])
      /\ Direction(Pri(link[n], written[n]), Sec(link[m], written[m]), wire[m], wire[n],
                   delivered[m], gaveUp[n], Later(n, sent[n]))
      /\ Direction(Pri(link[m], written[m]), Sec(link[n], written[n]), wire[n], wire[m],
                   delivered[n], gaveUp[m], Later(m, sent[m]))
      /\ acked[n] \subseteq SegmentNumbers(delivered[m])
      /\ acked[m] \subseteq SegmentNumbers(delivered[n])
  BY PairUse
<1>2. /\ wire[n] # <<>> /\ wire' = [wire EXCEPT ![n] = Tail(wire[n])]
      /\ UNCHANGED <<link, written, sent, delivered, acked, gaveUp>>
  BY DEF LoseFrame
<1>3. TypeOK
  BY DEF PairInv
<1> HIDE DEF m
<1>4. Direction(Pri(link[n], written[n]), Sec(link[m], written[m]), wire[m], Tail(wire[n]),
                delivered[m], gaveUp[n], Later(n, sent[n]))
  BY <1>1, <1>2, WireDirection
<1>5. Direction(Pri(link[m], written[m]), Sec(link[n], written[n]), Tail(wire[n]), wire[m],
                delivered[n], gaveUp[m], Later(m, sent[m]))
  BY <1>1, <1>2, WireDirection
<1>6. Tail(wire[n]) \in Seq(Frame)
  BY <1>4 DEF Direction, Exchange, DirType
<1>7. wire' \in [Node -> Seq(Frame)] /\ wire'[n] = Tail(wire[n]) /\ wire'[m] = wire[m]
  BY <1>1, <1>2, <1>3, <1>6 DEF TypeOK
<1>8. TypeOK'
  BY <1>2, <1>3, <1>7 DEF TypeOK
<1>9. /\ link' = link /\ written' = written /\ sent' = sent /\ delivered' = delivered
      /\ acked' = acked /\ gaveUp' = gaveUp
  BY <1>2
<1> QED
  BY <1>1, <1>4, <1>5, <1>7, <1>8, <1>9, PairBuild DEF m

LEMMA NumbersGrow ==
    ASSUME NEW s \in Seq(Segment), NEW u \in Seq(Segment)
    PROVE  SegmentNumbers(s) \subseteq SegmentNumbers(s \o u)
<1>1. /\ s \o u \in Seq(Segment) /\ Len(s \o u) = Len(s) + Len(u)
      /\ \A i \in 1 .. Len(s) + Len(u) :
            (s \o u)[i] = IF i <= Len(s) THEN s[i] ELSE u[i - Len(s)]
  BY ConcatProperties
<1>2. /\ DOMAIN s = 1 .. Len(s) /\ Len(s) \in Nat /\ Len(u) \in Nat
      /\ DOMAIN (s \o u) = 1 .. Len(s \o u)
  BY <1>1, LenProperties
<1>3. \A i \in DOMAIN s : i \in DOMAIN (s \o u) /\ (s \o u)[i] = s[i]
  BY <1>1, <1>2
<1> QED
  BY <1>3 DEF SegmentNumbers

\* A request arrives at n.
LEMMA ArrivedRequest ==
    ASSUME PairInv, NEW n \in Node, NEW m, m = Peer(n), wire[n] # <<>>,
           Head(wire[n]).func \in PriFunction,
           NEW r, r = OnFrame(link[n], Head(wire[n]), NoSegments)
    PROVE  /\ Full(r) /\ Open(r, written[n]) /\ r.config = NodeConfig[n]
           /\ Direction(Pri(r, written[n]), Sec(link[m], written[m]), wire[m], Tail(wire[n]),
                        delivered[m], gaveUp[n], Later(n, sent[n]))
           /\ Direction(Pri(link[m], written[m]), Sec(r, written[n]), Tail(wire[n]), wire[m],
                        delivered[n] \o r.up, gaveUp[m], Later(m, sent[m]))
           /\ Acknowledged(n, Head(wire[n])) = {}
<1> DEFINE c == link[n]
           w == written[n]
           f == Head(wire[n])
<1>1. /\ EndOK(c, w, NodeConfig[n])
      /\ Direction(Pri(c, w), Sec(link[m], written[m]), wire[m], wire[n],
                   delivered[m], gaveUp[n], Later(n, sent[n]))
      /\ Direction(Pri(link[m], written[m]), Sec(c, w), wire[n], wire[m],
                   delivered[n], gaveUp[m], Later(m, sent[m]))
  BY PairUse
<1>2. /\ Full(c) /\ Open(c, w) /\ c.up = <<>> /\ c.config = NodeConfig[n]
      /\ c.config.UseConfirms /\ Base(c) /\ SecAccounting(c) /\ Work(c)
  BY <1>1, EndFacts
<1>3. RequestOf(Pri(link[m], written[m]), f)
  BY <1>1, RequestAlone DEF Direction
<1>4. /\ f \in Frame
      /\ f.func \in {"PRI_RESET_LINK_STATES", "PRI_REQUEST_LINK_STATUS",
                     "PRI_CONFIRMED_USER_DATA"}
  BY <1>3 DEF RequestOf
<1>5. Acknowledged(n, f) = {}
  BY <1>4 DEF Acknowledged
<1>6. r = OnFrame(c, f, NoSegments)
  OBVIOUS
<1>a. Direction(Pri(c, w), Sec(link[m], written[m]), wire[m], Tail(wire[n]),
                delivered[m], gaveUp[n], Later(n, sent[n]))
  BY <1>1, WireDirection
<1> HIDE DEF c, w, f
<1>7. /\ RequestStep(Sec(c, w), Sec(r, w), f, r.up) /\ Then(Pri(c, w), Pri(r, w))
      /\ r.config = c.config /\ Open(r, w)
  BY <1>2, <1>4, <1>6, RequestFrameEffect
<1>8. Full(r)
  BY <1>2, <1>4, <1>6, FrameFacts
<1>9. Direction(Pri(r, w), Sec(link[m], written[m]), wire[m], Tail(wire[n]),
                delivered[m], gaveUp[n], Later(n, sent[n]))
  BY <1>a, <1>7, ThenDirection
<1>10. Direction(Pri(link[m], written[m]), Sec(r, w), Tail(wire[n]), wire[m],
                 delivered[n] \o r.up, gaveUp[m], Later(m, sent[m]))
  BY <1>1, <1>7, RequestDirection DEF f
<1> QED
  BY <1>2, <1>5, <1>7, <1>8, <1>9, <1>10 DEF w, f

\* An answer arrives at n.
LEMMA ArrivedAnswer ==
    ASSUME PairInv, NEW n \in Node, NEW m, m = Peer(n), wire[n] # <<>>,
           Head(wire[n]).func \in SecFunction,
           NEW r, r = OnFrame(link[n], Head(wire[n]), NoSegments)
    PROVE  /\ Full(r) /\ Open(r, written[n]) /\ r.config = NodeConfig[n]
           /\ Direction(Pri(r, written[n]), Sec(link[m], written[m]), wire[m], Tail(wire[n]),
                        delivered[m], gaveUp[n], Later(n, sent[n]))
           /\ Direction(Pri(link[m], written[m]), Sec(r, written[n]), Tail(wire[n]), wire[m],
                        delivered[n] \o r.up, gaveUp[m], Later(m, sent[m]))
           /\ Acknowledged(n, Head(wire[n])) \subseteq SegmentNumbers(delivered[m])
<1> DEFINE c == link[n]
           w == written[n]
           f == Head(wire[n])
           P == Pri(c, w)
<1>1. /\ EndOK(c, w, NodeConfig[n])
      /\ Direction(P, Sec(link[m], written[m]), wire[m], wire[n],
                   delivered[m], gaveUp[n], Later(n, sent[n]))
      /\ Direction(Pri(link[m], written[m]), Sec(c, w), wire[n], wire[m],
                   delivered[n], gaveUp[m], Later(m, sent[m]))
  BY PairUse
<1>2. /\ Full(c) /\ Open(c, w) /\ c.up = <<>> /\ c.config = NodeConfig[n]
      /\ c.config.UseConfirms /\ Base(c) /\ SecAccounting(c) /\ Work(c)
  BY <1>1, EndFacts
<1>3. AnswerTo(P, Sec(link[m], written[m]), f)
  BY <1>1, AnswerAlone DEF Direction
<1>4. f \in Frame /\ f.func \in {"SEC_ACK", "SEC_LINK_STATUS"}
  BY <1>3 DEF AnswerTo
<1>5. Acknowledged(n, f) \subseteq SegmentNumbers(delivered[m])
  <2> SUFFICES ASSUME f.func = "SEC_ACK", c.pPriState = "ConfDataWait", ~gaveUp[n]
               PROVE  Head(c.pSegments.segs) \in SegmentNumbers(delivered[m])
    BY DEF Acknowledged
  <2>1. P.state = "ConfDataWait" /\ P.segs = c.pSegments.segs
    BY DEF Pri
  <2> HIDE DEF P, c, f
  <2>2. Has(delivered[m], Head(P.segs))
    <3>1. /\ Listening(Sec(link[m], written[m])) /\ Sec(link[m], written[m]).fcb # P.fcb
          /\ P.reset
      BY <1>1, <1>3, <2>1 DEF AnswerTo, Resetting, Asking, Sending, Direction, Exchange, States
    <3> QED
      BY <1>1, <3>1 DEF Direction, History, Arrived
  <2> QED
    BY <2>1, <2>2 DEF Has, SegmentNumbers
<1>6. r = OnFrame(c, f, NoSegments)
  OBVIOUS
<1>a. Direction(Pri(link[m], written[m]), Sec(c, w), Tail(wire[n]), wire[m],
                delivered[n], gaveUp[m], Later(m, sent[m]))
  BY <1>1, WireDirection
<1> HIDE DEF c, w, f, P
<1>7. AnswerStep(P, Pri(r, w), f) /\ Sec(r, w) = Sec(c, w) /\ Steady(c, r, w)
  BY <1>2, <1>4, <1>6, AnswerFrameEffect DEF P
<1>8. Full(r)
  BY <1>2, <1>4, <1>6, FrameFacts
<1>9. Open(r, w) /\ r.config = NodeConfig[n] /\ r.up = <<>>
  BY <1>2, <1>7 DEF Steady
<1>10. Direction(Pri(r, w), Sec(link[m], written[m]), wire[m], Tail(wire[n]),
                 delivered[m], gaveUp[n], Later(n, sent[n]))
  BY <1>1, <1>7, AnswerDirection DEF f
<1>11. delivered[n] \o r.up = delivered[n]
  <2>1. delivered[n] \in Seq(Segment)
    BY <1>1 DEF Direction, History
  <2>2. delivered[n] \o <<>> = delivered[n]
    BY <2>1, ConcatEmptySeq
  <2> QED
    BY <1>9, <2>2
<1>12. Direction(Pri(link[m], written[m]), Sec(r, w), Tail(wire[n]), wire[m],
                 delivered[n] \o r.up, gaveUp[m], Later(m, sent[m]))
  BY <1>a, <1>7, <1>11
<1> QED
  BY <1>5, <1>8, <1>9, <1>10, <1>12 DEF w, f

\* n takes a frame from the wire.
LEMMA PairReceive ==
    ASSUME PairInv, NEW n \in Node, Receive(n)
    PROVE  PairInv'
<1> DEFINE m == Peer(n)
           w == written[n]
           f == Head(wire[n])
           r == OnFrame(link[n], f, NoSegments)
           got == delivered[n] \o r.up
           ack == Acknowledged(n, f)
<1>1. /\ m \in Node /\ m # n /\ EndOK(link[m], written[m], NodeConfig[m])
      /\ acked[n] \subseteq SegmentNumbers(delivered[m])
      /\ acked[m] \subseteq SegmentNumbers(delivered[n])
  BY PairUse
<1>2. TypeOK /\ wire[n] # <<>>
  BY DEF PairInv, Receive
<1>3. f.func \in PriFunction \/ f.func \in SecFunction
  <2>1. wire[n] \in Seq(Frame)
    BY <1>2 DEF TypeOK
  <2>2. f \in Frame
    BY <1>2, <2>1, TailIndex
  <2> QED
    BY <2>2 DEF Frame, LinkHeader
<1>4. /\ Full(r) /\ Open(r, w) /\ r.config = NodeConfig[n]
      /\ Direction(Pri(r, w), Sec(link[m], written[m]), wire[m], Tail(wire[n]),
                   delivered[m], gaveUp[n], Later(n, sent[n]))
      /\ Direction(Pri(link[m], written[m]), Sec(r, w), Tail(wire[n]), wire[m],
                   got, gaveUp[m], Later(m, sent[m]))
      /\ ack \subseteq SegmentNumbers(delivered[m])
  BY <1>2, <1>3, ArrivedRequest, ArrivedAnswer
<1>5. /\ wire' = [wire EXCEPT ![n] = Tail(wire[n])] /\ Become(n, r)
      /\ delivered' = [delivered EXCEPT ![n] = got]
      /\ acked' = [acked EXCEPT ![n] = acked[n] \cup ack]
      /\ UNCHANGED <<written, sent, gaveUp>>
  BY DEF Receive
<1>6. r.up \in Seq(Segment)
  BY <1>4 DEF Full, Base, LinkContextType
<1>7. delivered[n] \in Seq(Segment) /\ delivered[m] \in Seq(Segment)
  BY <1>1, <1>2 DEF TypeOK
<1>8. SegmentNumbers(delivered[n]) \subseteq SegmentNumbers(got)
  BY <1>6, <1>7, NumbersGrow
<1> HIDE DEF m, w, f, r, got, ack
<1>9. /\ link' \in [Node -> LinkContextType] /\ link'[m] = link[m]
      /\ EndOK(link'[n], w, NodeConfig[n])
      /\ Pri(link'[n], w) = Pri(r, w) /\ Sec(link'[n], w) = Sec(r, w)
  BY <1>4, <1>5, BecomeFacts DEF m
<1>10. Tail(wire[n]) \in Seq(Frame) /\ got \in Seq(Segment)
  BY <1>4 DEF Direction, Exchange, DirType, History
<1>11. wire' \in [Node -> Seq(Frame)] /\ wire'[n] = Tail(wire[n]) /\ wire'[m] = wire[m]
  BY <1>1, <1>2, <1>5, <1>10 DEF TypeOK
<1>12. /\ delivered' \in [Node -> Seq(Segment)] /\ delivered'[n] = got
       /\ delivered'[m] = delivered[m]
  BY <1>1, <1>2, <1>5, <1>10 DEF TypeOK
<1>13. \A x \in SegmentNumbers(delivered[m]) : x \in Segment
  BY <1>7 DEF SegmentNumbers
<1>14. /\ acked' \in [Node -> SUBSET Segment] /\ acked'[n] = acked[n] \cup ack
       /\ acked'[m] = acked[m]
  <2>1. acked \in [Node -> SUBSET Segment] /\ acked[n] \cup ack \in SUBSET Segment
    BY <1>1, <1>2, <1>4, <1>13 DEF TypeOK
  <2> QED
    BY <1>1, <1>5, <2>1
<1>15. TypeOK'
  BY <1>2, <1>5, <1>9, <1>11, <1>12, <1>14 DEF TypeOK
<1>16. /\ acked'[n] \subseteq SegmentNumbers(delivered'[m])
       /\ acked'[m] \subseteq SegmentNumbers(delivered'[n])
  BY <1>1, <1>4, <1>8, <1>12, <1>14
<1>17. written' = written /\ sent' = sent /\ gaveUp' = gaveUp /\ written'[n] = w
  BY <1>5 DEF w
<1> QED
  BY <1>1, <1>4, <1>9, <1>11, <1>12, <1>15, <1>16, <1>17, PairBuild DEF m

\* Both ends go down and come up again.
LEMMA PairReconnect ==
    ASSUME PairInv, Reconnect
    PROVE  PairInv'
<1>1. /\ link' = [k \in Node |-> DownUp(link[k])] /\ written' = [k \in Node |-> FALSE]
      /\ wire' = [k \in Node |-> <<>>] /\ gaveUp' = [k \in Node |-> FALSE]
      /\ UNCHANGED <<sent, delivered, acked>>
  BY DEF Reconnect
<1>2. TypeOK
  BY DEF PairInv
<1>3. ASSUME NEW k \in Node
      PROVE  /\ EndOK(DownUp(link[k]), FALSE, NodeConfig[k])
             /\ DownUp(link[k]) \in LinkContextType
             /\ Direction(Pri(DownUp(link[k]), FALSE), Sec(DownUp(link[Peer(k)]), FALSE),
                          <<>>, <<>>, delivered[Peer(k)], FALSE, Later(k, sent[k]))
  <2> DEFINE m == Peer(k)
             c == link[k]
             e == link[m]
             w == written[k]
             v == written[m]
             q == DownUp(c)
             r == DownUp(e)
  <2>1. /\ m \in Node /\ EndOK(c, w, NodeConfig[k]) /\ EndOK(e, v, NodeConfig[m])
        /\ Direction(Pri(c, w), Sec(e, v), wire[m], wire[k],
                     delivered[m], gaveUp[k], Later(k, sent[k]))
    BY PairUse
  <2>2. Full(c) /\ c.isOnline /\ c.up = <<>> /\ c.config = NodeConfig[k]
    BY <2>1, EndFacts
  <2>3. Full(e) /\ e.isOnline
    BY <2>1, EndFacts
  <2> HIDE DEF m, c, e, w, v, q, r
  <2>4. /\ Full(q) /\ Open(q, FALSE) /\ q.config = c.config /\ q.up = c.up
        /\ Pri(q, FALSE).state = "Idle" /\ Pri(q, FALSE).segs = <<>>
        /\ Pri(q, FALSE).fcb = Pri(c, FALSE).fcb /\ Pri(q, FALSE).reset = FALSE
        /\ Pri(q, FALSE).out = <<>>
    BY <2>2, DownUpEffect DEF q, DownUp
  <2>5. /\ Sec(r, FALSE).state = "NotReset" /\ Sec(r, FALSE).fcb = Sec(e, FALSE).fcb
        /\ Sec(r, FALSE).out = <<>>
    BY <2>3, DownUpEffect DEF r, DownUp
  <2>6. Pri(q, FALSE).fcb = Pri(c, w).fcb /\ Sec(r, FALSE).fcb = Sec(e, v).fcb
    BY <2>4, <2>5 DEF Pri, Sec
  <2>7. Direction(Pri(q, FALSE), Sec(r, FALSE), <<>>, <<>>,
                  delivered[m], FALSE, Later(k, sent[k]))
    BY <2>1, <2>4, <2>5, <2>6, BothRestartDirection
  <2>8. EndOK(q, FALSE, NodeConfig[k]) /\ q \in LinkContextType
    BY <2>2, <2>4 DEF EndOK, Full, Base
  <2> QED
    BY <2>7, <2>8 DEF q, r, c, e, m
<1>4. link' \in [Node -> LinkContextType]
  BY <1>1, <1>3
<1>5. written' \in [Node -> BOOLEAN] /\ gaveUp' \in [Node -> BOOLEAN]
  BY <1>1
<1>6. wire' \in [Node -> Seq(Frame)]
  BY <1>1, EmptyTyped
<1>7. TypeOK'
  BY <1>1, <1>2, <1>4, <1>5, <1>6 DEF TypeOK
<1>8. PICK n \in Node : TRUE
  BY NodeAssumption
<1> DEFINE m == Peer(n)
<1>9. /\ m \in Node /\ Peer(m) = n
      /\ acked[n] \subseteq SegmentNumbers(delivered[m])
      /\ acked[m] \subseteq SegmentNumbers(delivered[n])
  BY PairUse
<1>10. \A k \in Node : /\ link'[k] = DownUp(link[k]) /\ written'[k] = FALSE
                       /\ wire'[k] = <<>> /\ gaveUp'[k] = FALSE
  BY <1>1
<1>11. sent' = sent /\ delivered' = delivered /\ acked' = acked
  BY <1>1
<1>12. /\ EndOK(link'[n], written'[n], NodeConfig[n])
       /\ EndOK(link'[m], written'[m], NodeConfig[m])
  BY <1>3, <1>9, <1>10
<1>13. Direction(Pri(link'[n], written'[n]), Sec(link'[m], written'[m]), wire'[m], wire'[n],
                 delivered'[m], gaveUp'[n], Later(n, sent'[n]))
  BY <1>3, <1>9, <1>10, <1>11
<1>14. Direction(Pri(link'[m], written'[m]), Sec(link'[n], written'[n]), wire'[n], wire'[m],
                 delivered'[n], gaveUp'[m], Later(m, sent'[m]))
  BY <1>3, <1>9, <1>10, <1>11
<1> QED
  BY <1>7, <1>9, <1>11, <1>12, <1>13, <1>14, PairBuild

\* Both ends have just come up for the first time.
LEMMA PairInit == Init => PairInv
<1> SUFFICES ASSUME Init PROVE PairInv
  OBVIOUS
<1> DEFINE Up(k) == OnLowerLayerUp(InitContext(NodeConfig[k]), NoSegments)
<1>1. /\ link = [k \in Node |-> Up(k)] /\ written = [k \in Node |-> FALSE]
      /\ wire = [k \in Node |-> <<>>] /\ sent = [k \in Node |-> 0]
      /\ delivered = [k \in Node |-> <<>>] /\ acked = [k \in Node |-> {}]
      /\ gaveUp = [k \in Node |-> FALSE]
  BY DEF Init
<1>2. ASSUME NEW k \in Node
      PROVE  /\ EndOK(Up(k), FALSE, NodeConfig[k]) /\ Up(k) \in LinkContextType
             /\ Pri(Up(k), FALSE).state = "Idle" /\ Pri(Up(k), FALSE).segs = <<>>
             /\ Pri(Up(k), FALSE).fcb = FALSE /\ Pri(Up(k), FALSE).reset = FALSE
             /\ Pri(Up(k), FALSE).out = <<>>
             /\ Sec(Up(k), FALSE).fcb = FALSE /\ Sec(Up(k), FALSE).out = <<>>
  <2> DEFINE c == InitContext(NodeConfig[k])
             r == Up(k)
             t == TimerStart(c.keepAliveTimer)
  <2>1. NodeConfig[k] \in LinkLayerConfig
    BY PairConfigAssumption
  <2>0. c = InitContext(NodeConfig[k]) /\ r = OnLowerLayerUp(c, NoSegments)
    OBVIOUS
  <2> HIDE DEF c, r
  <2>2. /\ Full(c) /\ c.config = NodeConfig[k] /\ ~c.isOnline /\ c.up = <<>>
        /\ c.txMode = "Idle" /\ c.tx = <<>> /\ c.pendingPriTx = <<>> /\ c.pendingSecTx = <<>>
        /\ c.pPriState = "Idle" /\ c.pSecState = "NotReset" /\ c.pSegments = NoSegments
        /\ c.nextReadFCB = FALSE /\ c.nextWriteFCB = FALSE /\ c.isRemoteReset = FALSE
    BY <2>0, <2>1, InitContextFacts
  <2>3. Full(r) /\ r.isOnline = TRUE
    BY <2>0, <2>2, UpHandler
  <2>4. c \in LinkContextType /\ r \in LinkContextType
    BY <2>2, <2>3 DEF Full, Base
  <2>5. r = [c EXCEPT !.isOnline = TRUE, !.keepAliveTimer = t, !.linkStatus = "UNRESET"]
    BY <2>0, <2>2 DEF OnLowerLayerUp, Reply
  <2> HIDE DEF t
  <2>6. /\ r.config = NodeConfig[k] /\ r.up = <<>>
        /\ r.txMode = "Idle" /\ r.tx = <<>> /\ r.pendingPriTx = <<>> /\ r.pendingSecTx = <<>>
        /\ r.pPriState = "Idle" /\ r.pSecState = "NotReset" /\ r.pSegments = NoSegments
        /\ r.nextReadFCB = FALSE /\ r.nextWriteFCB = FALSE /\ r.isRemoteReset = FALSE
    BY <2>2, <2>4, <2>5 DEF LinkContextType
  <2>7. Open(r, FALSE)
    BY <2>3, <2>6 DEF Open, Live
  <2>8. /\ Pri(r, FALSE).state = "Idle" /\ Pri(r, FALSE).segs = <<>>
        /\ Pri(r, FALSE).fcb = FALSE /\ Pri(r, FALSE).reset = FALSE
        /\ Pri(r, FALSE).out = <<>>
        /\ Sec(r, FALSE).fcb = FALSE /\ Sec(r, FALSE).out = <<>>
    BY <2>6 DEF Pri, Sec, PriOut, SecOut, NoSegments
  <2>9. EndOK(r, FALSE, NodeConfig[k])
    BY <2>3, <2>6, <2>7 DEF EndOK
  <2> QED
    BY <2>4, <2>8, <2>9 DEF r
<1> HIDE DEF Up
<1>3. ASSUME NEW k \in Node, NEW m \in Node
      PROVE  Direction(Pri(Up(k), FALSE), Sec(Up(m), FALSE), <<>>, <<>>, <<>>, FALSE, Later(k, 0))
  <2> DEFINE P == Pri(Up(k), FALSE)
             S == Sec(Up(m), FALSE)
  <2>1. /\ P.state = "Idle" /\ P.segs = <<>> /\ P.fcb = FALSE /\ P.reset = FALSE /\ P.out = <<>>
        /\ S.fcb = FALSE /\ S.out = <<>>
    BY <1>2
  <2> HIDE DEF P, S
  <2>2. Later(k, 0) \in SUBSET Segment
    BY DEF Later
  <2>3. DirType(P, S, <<>>, <<>>, FALSE)
    BY <2>1, <2>2, EmptyTyped DEF DirType
  <2>4. States(P)
    BY <2>1 DEF States, Resetting, Sending
  <2>5. DOMAIN <<>> = {}
    OBVIOUS
  <2>6. Order(P, S, <<>>, Later(k, 0))
    BY <2>1, <2>5 DEF Order
  <2>7. InStep(P, S, FALSE) /\ Arrived(P, S, <<>>, FALSE)
    BY <2>1 DEF InStep, Arrived
  <2>8. None(<<>>, PriFunction) /\ None(<<>>, SecFunction)
    BY DEF None
  <2>9. Direction(P, S, <<>>, <<>>, <<>>, FALSE, Later(k, 0))
    <3>1. Exchange(P, S, <<>>, <<>>, FALSE)
      BY <2>1, <2>3, <2>4, <2>7, <2>8, FreshExchange
    <3>2. History(P, S, <<>>, FALSE, Later(k, 0))
      BY <2>2, <2>6, <2>7, EmptyTyped DEF History
    <3> QED
      BY <3>1, <3>2 DEF Direction
  <2> QED
    BY <2>9 DEF P, S
<1>4. TypeOK
  <2>1. link \in [Node -> LinkContextType]
    BY <1>1, <1>2
  <2>2. wire \in [Node -> Seq(Frame)] /\ delivered \in [Node -> Seq(Segment)]
    BY <1>1, EmptyTyped
  <2> QED
    BY <1>1, <2>1, <2>2 DEF TypeOK
<1>5. \A k \in Node : EndOK(link[k], written[k], NodeConfig[k])
  BY <1>1, <1>2
<1>6. ASSUME NEW k \in Node
      PROVE  DirOK(link, written, wire, sent, delivered, gaveUp, k, Peer(k))
  <2> DEFINE m == Peer(k)
  <2>1. m \in Node
    BY PairNodes
  <2> HIDE DEF m
  <2>2. /\ link[k] = Up(k) /\ link[m] = Up(m) /\ written[k] = FALSE /\ written[m] = FALSE
        /\ wire[k] = <<>> /\ wire[m] = <<>> /\ sent[k] = 0 /\ delivered[m] = <<>>
        /\ gaveUp[k] = FALSE
    BY <1>1, <2>1
  <2> QED
    BY <1>3, <2>1, <2>2 DEF DirOK, m
<1>7. \A k \in Node : AckOK(delivered, acked, k, Peer(k))
  BY <1>1 DEF AckOK
<1> QED
  BY <1>4, <1>5, <1>6, <1>7 DEF PairInv

\* Every action of the pair keeps the invariant.
LEMMA PairNext == PairInv /\ [Next]_vars => PairInv'
<1> SUFFICES ASSUME PairInv, [Next]_vars PROVE PairInv'
  OBVIOUS
<1>1. ASSUME NEW n \in Node,
             Progress(n) \/ UpperSend(n) \/ LoseFrame(n) \/ KeepAlive(n) \/ Restart(n)
      PROVE  PairInv'
  BY <1>1, PairRunPosted, PairPutOnWire, PairWriteComplete, PairReceive, PairResponseTimeout,
     PairUpperSend, PairLoseFrame, PairKeepAlive, PairRestart DEF Progress
<1>2. CASE Reconnect
  BY <1>2, PairReconnect
<1>3. CASE UNCHANGED vars
  BY <1>3 DEF vars, PairInv, TypeOK
<1> QED
  BY <1>1, <1>2, <1>3 DEF Next, Done

LEMMA AlwaysPairInv == Spec => []PairInv
  BY PairInit, PairNext, PTL DEF Spec

\* The contexts, the wires and the history of the pair keep their types.
THEOREM PairTypeCorrect == Spec => []TypeOK
<1>1. PairInv => TypeOK
  BY DEF PairInv
<1> QED
  BY <1>1, AlwaysPairInv, PTL

\* Whatever is lost, retransmitted, timed out or restarted, a segment is passed
\* up at most once and never after a later one (the frame count bit of
\* PLLS_ConfDataWait and SLLS_Reset).
THEOREM DeliveredOnce == Spec => []DeliveredOnceInOrder
<1>1. PairInv => DeliveredOnceInOrder
  <2> SUFFICES ASSUME PairInv, NEW n \in Node
               PROVE  \A i, j \in DOMAIN delivered[n] :
                         i < j => delivered[n][i] < delivered[n][j]
    BY DEF DeliveredOnceInOrder
  <2> DEFINE m == Peer(n)
  <2>1. Direction(Pri(link[m], written[m]), Sec(link[n], written[n]), wire[n], wire[m],
                  delivered[n], gaveUp[m], Later(m, sent[m]))
    BY PairUse
  <2> QED
    BY <2>1 DEF Direction, History, Order
<1> QED
  BY <1>1, AlwaysPairInv, PTL

\* A segment that was acknowledged to an endpoint which has not given up since
\* it last came up has been passed up by its peer.
THEOREM AckMeansDelivered == Spec => []AckedWasDelivered
<1>1. PairInv => AckedWasDelivered
  BY DEF PairInv, AckedWasDelivered, AckOK
<1> QED
  BY <1>1, AlwaysPairInv, PTL
===============================================================================
