---------------------------- MODULE IOHandlerProofs ----------------------------
(***************************************************************************)
(* The invariants of the IO handler for every set of sessions and every    *)
(* bound.  Base is what every operation keeps; Trying may be broken while  *)
(* a channel is being replaced, and is proved of the whole handlers.       *)
(***************************************************************************)
EXTENDS IOHandler, TLAPS

Base(g) ==
    /\ g \in HandlerType
    /\ g.online = IF g.channel THEN EnabledSessions(g) ELSE {}
    /\ g.listener = "OPEN" <=> g.channel
    /\ g.writing <=> g.channel /\ g.txQueue # <<>>
    /\ g.txQueue # <<>> => g.channel

\* A TCP client whose sessions are enabled and that has no channel has not been
\* dropped, so that a retry finds it.
Trying(g) ==
    EnabledSessions(g) # {} /\ ~g.channel =>
       /\ g.mode # "tcp server" =>
             g.client = "busy" \/ g.orphans > 0 \/ IsActive(g.retryTimer)
       /\ g.mode = "tcp client" => g.client # "none"

IInv(g) == Base(g) /\ Trying(g)

\* Only the fields that Base speaks of matter to it.
LEMMA BaseFrame ==
    ASSUME NEW g, NEW k, Base(g), k \in HandlerType,
           k.session = g.session, k.online = g.online, k.channel = g.channel,
           k.listener = g.listener, k.writing = g.writing, k.txQueue = g.txQueue
    PROVE  Base(k)
  BY DEF Base, EnabledSessions

LEMMA EmptyQueue == <<>> \in Seq(Session)
  OBVIOUS

\* Reset closes the channel and tells everyone.
LEMMA ResetBase ==
    ASSUME NEW g, Base(g)
    PROVE  /\ Base(Reset(g))
           /\ ~Reset(g).channel
           /\ Reset(g).session = g.session
           /\ Reset(g).mode = g.mode
           /\ Reset(g).client = g.client
           /\ Reset(g).orphans = g.orphans
           /\ Reset(g).retryTimer = g.retryTimer
           /\ Reset(g).txQueue = <<>>
           /\ Reset(g).online = {}
           /\ ~Reset(g).writing
  <1>0. /\ g \in HandlerType
        /\ g.listener = "OPEN" <=> g.channel
        /\ g.writing <=> g.channel /\ g.txQueue # <<>>
        /\ ~g.channel => g.online = {}
    BY DEF Base
  <1>1. CASE g.channel
    <2> DEFINE k == [g EXCEPT !.channel = FALSE, !.writing = FALSE, !.txQueue = <<>>,
                              !.listener = "CLOSED", !.online = {}, !.sending = {}]
    <2>1. Reset(g) = k
      BY <1>1 DEF Reset
    <2>2. k \in HandlerType
      BY <1>0, EmptyQueue DEF HandlerType
    <2>3. /\ k.channel = FALSE /\ k.writing = FALSE /\ k.txQueue = <<>>
          /\ k.listener = "CLOSED" /\ k.online = {} /\ k.session = g.session
          /\ k.mode = g.mode /\ k.client = g.client /\ k.orphans = g.orphans
          /\ k.retryTimer = g.retryTimer
      BY <1>0 DEF HandlerType
    <2> HIDE DEF k
    <2>4. Base(k)
      BY <2>2, <2>3 DEF Base
    <2> QED BY <2>1, <2>3, <2>4
  <1>2. CASE ~g.channel
    <2> DEFINE k == [g EXCEPT !.txQueue = <<>>]
    <2>1. Reset(g) = k
      BY <1>2 DEF Reset
    <2>2. k \in HandlerType
      BY <1>0, EmptyQueue DEF HandlerType
    <2>3. /\ k.channel = g.channel /\ k.writing = g.writing /\ k.txQueue = <<>>
          /\ k.listener = g.listener /\ k.online = g.online /\ k.session = g.session
          /\ k.mode = g.mode /\ k.client = g.client /\ k.orphans = g.orphans
          /\ k.retryTimer = g.retryTimer
      BY <1>0 DEF HandlerType
    <2> HIDE DEF k
    <2>4. Base(k)
      BY <1>0, <1>2, <2>2, <2>3 DEF Base
    <2> QED BY <1>0, <1>2, <2>1, <2>3, <2>4
  <1> QED BY <1>1, <1>2

\* OnNewChannel leaves a channel, and nothing of Trying is left to show.
LEMMA NewChannelBase ==
    ASSUME NEW g, Base(g)
    PROVE  IInv(OnNewChannel(g))
  <1>1. CASE g.channel /\ ~g.closeExisting
    BY <1>1 DEF OnNewChannel, IInv, Trying
  <1>2. CASE ~(g.channel /\ ~g.closeExisting)
    <2> DEFINE r == Reset(g)
               k == [r EXCEPT !.channel = TRUE, !.listener = "OPEN",
                              !.online = EnabledSessions(g)]
    <2>1. OnNewChannel(g) = k
      BY <1>2 DEF OnNewChannel
    <2>2. /\ Base(r) /\ r.session = g.session /\ r.txQueue = <<>> /\ ~r.writing
          /\ r \in HandlerType
      BY ResetBase DEF Base
    <2>3. EnabledSessions(g) \subseteq Session
      BY DEF EnabledSessions
    <2> HIDE DEF r
    <2>4. k \in HandlerType /\ k.channel /\ k.listener = "OPEN"
          /\ k.online = EnabledSessions(g) /\ k.session = g.session
          /\ k.txQueue = <<>> /\ ~k.writing
      BY <2>2, <2>3 DEF HandlerType
    <2>5. Base(k)
      BY <2>4 DEF Base, EnabledSessions
    <2> QED BY <2>1, <2>4, <2>5 DEF IInv, Trying
  <1> QED BY <1>1, <1>2

LEMMA TimerTypes ==
    ASSUME NEW t \in TimerRefType
    PROVE  /\ TimerStart(t) \in TimerRefType /\ IsActive(TimerStart(t))
           /\ TimerCancel(t) \in TimerRefType
           /\ TimerExpire(t) \in TimerRefType /\ IsActive(TimerExpire(t))
           /\ CurrentCallback(t) \in TimerRefType
           /\ t.stale > 0 => StaleCallback(t) \in TimerRefType
  BY DEF TimerRefType, TimerStart, TimerCancel, TimerExpire, CurrentCallback,
         StaleCallback, IsActive

\* A serial port is open afterwards or will be tried again.
LEMMA TryOpenInv ==
    ASSUME NEW g, Base(g), NEW ok \in BOOLEAN, g.mode = "serial"
    PROVE  IInv(TryOpen(g, ok))
  <1>1. CASE ok
    BY <1>1, NewChannelBase DEF TryOpen
  <1>2. CASE ~ok
    <2> DEFINE k == [g EXCEPT !.retryTimer = TimerStart(@)]
    <2>1. g.retryTimer \in TimerRefType /\ g \in HandlerType
      BY DEF Base, HandlerType
    <2>2. k \in HandlerType /\ IsActive(k.retryTimer) /\ k.mode = "serial"
          /\ k.session = g.session /\ k.online = g.online /\ k.channel = g.channel
          /\ k.listener = g.listener /\ k.writing = g.writing /\ k.txQueue = g.txQueue
      BY <2>1, TimerTypes DEF HandlerType
    <2>3. Base(k)
      BY <2>2, BaseFrame
    <2> QED BY <1>2, <2>2, <2>3 DEF TryOpen, IInv, Trying
  <1> QED BY <1>1, <1>2

\* Whoever starts to accept has a channel or tries to get one.
LEMMA AcceptInv ==
    ASSUME NEW g, Base(g), NEW ok \in BOOLEAN
    PROVE  IInv(BeginChannelAccept(g, ok))
  <1>0. g \in HandlerType /\ g.mode \in Mode
    BY DEF Base, HandlerType
  <1>1. CASE g.mode = "tcp client"
    <2> DEFINE n == IF g.client = "busy" THEN g.orphans + 1 ELSE g.orphans
               k == [g EXCEPT !.client = "busy", !.orphans = n]
    <2>1. g.orphans \in Nat
      BY <1>0 DEF HandlerType
    <2>2. n \in Nat
      BY <2>1
    <2>3. BeginChannelAccept(g, ok) = k
      BY <1>1 DEF BeginChannelAccept
    <2> HIDE DEF n
    <2>4. k \in HandlerType /\ k.client = "busy" /\ k.mode = "tcp client"
          /\ k.session = g.session /\ k.online = g.online /\ k.channel = g.channel
          /\ k.listener = g.listener /\ k.writing = g.writing /\ k.txQueue = g.txQueue
      BY <1>0, <1>1, <2>2 DEF HandlerType
    <2>5. Base(k)
      BY <2>4, BaseFrame
    <2> QED BY <2>3, <2>4, <2>5 DEF IInv, Trying
  <1>2. CASE g.mode = "serial"
    BY <1>2, TryOpenInv DEF BeginChannelAccept
  <1>3. CASE g.mode = "tcp server"
    <2> DEFINE k == [g EXCEPT !.client =
                        IF @ # "none" THEN @ ELSE IF ok THEN "busy" ELSE "idle"]
    <2>1. k \in HandlerType /\ k.mode = "tcp server"
          /\ k.session = g.session /\ k.online = g.online /\ k.channel = g.channel
          /\ k.listener = g.listener /\ k.writing = g.writing /\ k.txQueue = g.txQueue
      BY <1>0, <1>3 DEF HandlerType
    <2>2. Base(k)
      BY <2>1, BaseFrame
    <2> QED BY <1>3, <2>1, <2>2 DEF BeginChannelAccept, IInv, Trying
  <1> QED BY <1>0, <1>1, <1>2, <1>3 DEF Mode

\* Suspending drops the client and the timer, nothing else.
LEMMA SuspendBase ==
    ASSUME NEW g, Base(g), NEW late \in BOOLEAN
    PROVE  /\ Base(SuspendChannelAccept(g, late))
           /\ SuspendChannelAccept(g, late).channel = g.channel
           /\ SuspendChannelAccept(g, late).online = g.online
           /\ SuspendChannelAccept(g, late).txQueue = g.txQueue
           /\ SuspendChannelAccept(g, late).writing = g.writing
           /\ SuspendChannelAccept(g, late).session = g.session
  <1> DEFINE k == SuspendChannelAccept(g, late)
             c == g.mode = "tcp server" /\ g.client = "busy" /\ late
             n == IF c THEN g.orphans + 1 ELSE g.orphans
             t == TimerCancel(g.retryTimer)
  <1>1. g \in HandlerType /\ g.retryTimer \in TimerRefType /\ g.orphans \in Nat
    BY DEF Base, HandlerType
  <1>2. k = [g EXCEPT !.client = "none", !.orphans = n, !.retryTimer = t]
    BY DEF SuspendChannelAccept
  <1>3. t \in TimerRefType
    BY <1>1, TimerTypes
  <1> HIDE DEF k, c, t
  <1>4. n \in Nat
    BY <1>1
  <1> HIDE DEF n
  <1>5. k \in HandlerType
        /\ k.session = g.session /\ k.online = g.online /\ k.channel = g.channel
        /\ k.listener = g.listener /\ k.writing = g.writing /\ k.txQueue = g.txQueue
    BY <1>1, <1>2, <1>3, <1>4 DEF HandlerType
  <1>6. Base(k)
    BY <1>5, BaseFrame
  <1> QED BY <1>5, <1>6 DEF k

\* Nobody needs a channel when accepting is suspended.
LEMMA SuspendInv ==
    ASSUME NEW g, Base(g), NEW late \in BOOLEAN, EnabledSessions(g) = {}
    PROVE  IInv(SuspendChannelAccept(g, late))
  <1> DEFINE k == SuspendChannelAccept(g, late)
  <1>1. Base(k) /\ k.session = g.session
    BY SuspendBase
  <1>2. EnabledSessions(k) = {}
    BY <1>1 DEF EnabledSessions
  <1> QED BY <1>1, <1>2 DEF IInv, Trying

\* A session that is taken away is told so, if it was up.
LEMMA SessionGone ==
    ASSUME NEW g, Base(g), NEW s \in Session, NEW v \in {"absent", "disabled"},
           NEW e, e = [g EXCEPT !.session[s] = v],
           NEW k, k = LowerLayerDown(e, s)
    PROVE  /\ Base(k)
           /\ EnabledSessions(k) = EnabledSessions(g) \ {s}
           /\ k.channel = g.channel /\ k.client = g.client /\ k.mode = g.mode
           /\ k.orphans = g.orphans /\ k.retryTimer = g.retryTimer
  <1>1. g \in HandlerType /\ g.session \in [Session -> {"absent", "disabled", "enabled"}]
        /\ g.online \in SUBSET Session /\ g.sending \in SUBSET Session
    BY DEF Base, HandlerType
  <1>2. k = [g EXCEPT !.session = [g.session EXCEPT ![s] = v],
                      !.online = g.online \ {s}, !.sending = g.sending \ {s}]
    BY <1>1 DEF LowerLayerDown, HandlerType
  <1>3. [g.session EXCEPT ![s] = v] \in [Session -> {"absent", "disabled", "enabled"}]
    BY <1>1
  <1>4. k \in HandlerType
    <2> DEFINE f == [g.session EXCEPT ![s] = v]
               o == g.online \ {s}
               p == g.sending \ {s}
    <2>1. /\ k = [g EXCEPT !.session = f, !.online = o, !.sending = p]
          /\ o \in SUBSET Session /\ p \in SUBSET Session
          /\ f \in [Session -> {"absent", "disabled", "enabled"}]
      BY <1>1, <1>2, <1>3
    <2> HIDE DEF f, o, p
    <2> QED BY <1>1, <2>1 DEF HandlerType
  <1>5. /\ k.session = [g.session EXCEPT ![s] = v] /\ k.online = g.online \ {s}
        /\ k.channel = g.channel /\ k.client = g.client /\ k.mode = g.mode
        /\ k.orphans = g.orphans /\ k.retryTimer = g.retryTimer
        /\ k.listener = g.listener /\ k.writing = g.writing /\ k.txQueue = g.txQueue
    BY <1>1, <1>2 DEF HandlerType
  <1>6. EnabledSessions(k) = EnabledSessions(g) \ {s}
    BY <1>1, <1>5 DEF EnabledSessions
  <1>7. g.online = IF g.channel THEN EnabledSessions(g) ELSE {}
    BY DEF Base
  <1>8. k.online = IF k.channel THEN EnabledSessions(k) ELSE {}
    BY <1>5, <1>6, <1>7
  <1>9. Base(k)
    BY <1>4, <1>5, <1>8 DEF Base
  <1> QED BY <1>5, <1>6, <1>9

-------------------------------------------------------------------------------
\* One lemma per operation.

LEMMA InitInv == Init => IInv(h)
  <1> SUFFICES ASSUME Init PROVE IInv(h)
    OBVIOUS
  <1>1. PICK m \in Mode, c \in BOOLEAN :
          h = [mode |-> m, closeExisting |-> c, session |-> [s \in Session |-> "absent"],
               online |-> {}, sending |-> {}, channel |-> FALSE, writing |-> FALSE,
               txQueue |-> <<>>, client |-> "none", orphans |-> 0,
               retryTimer |-> TimerOff, listener |-> "CLOSED", isShutdown |-> FALSE,
               fault |-> FALSE]
    BY DEF Init
  <1>2. TimerOff \in TimerRefType
    BY DEF TimerOff, TimerRefType
  <1>3. [s \in Session |-> "absent"] \in [Session -> {"absent", "disabled", "enabled"}]
    OBVIOUS
  <1>4. h \in HandlerType
    BY <1>1, <1>2, <1>3, EmptyQueue DEF HandlerType
  <1>5. EnabledSessions(h) = {}
    BY <1>1 DEF EnabledSessions
  <1> QED BY <1>1, <1>4, <1>5 DEF IInv, Base, Trying

LEMMA AddContextInv ==
    ASSUME IInv(h), NEW s \in Session, AddContext(s)
    PROVE  IInv(h')
  <1>1. h \in HandlerType /\ h.session \in [Session -> {"absent", "disabled", "enabled"}]
        /\ h.session[s] = "absent" /\ Base(h) /\ Trying(h)
    BY DEF IInv, Base, HandlerType, AddContext
  <1>2. h' = [h EXCEPT !.session = [h.session EXCEPT ![s] = "disabled"]]
    BY <1>1 DEF AddContext, Goes, HandlerType
  <1>3. [h.session EXCEPT ![s] = "disabled"] \in [Session -> {"absent", "disabled", "enabled"}]
    BY <1>1
  <1>4. h' \in HandlerType
    BY <1>1, <1>2, <1>3 DEF HandlerType
  <1>5. /\ h'.session = [h.session EXCEPT ![s] = "disabled"] /\ h'.online = h.online
        /\ h'.channel = h.channel /\ h'.client = h.client /\ h'.mode = h.mode
        /\ h'.orphans = h.orphans /\ h'.retryTimer = h.retryTimer
        /\ h'.listener = h.listener /\ h'.writing = h.writing /\ h'.txQueue = h.txQueue
    BY <1>1, <1>2 DEF HandlerType
  <1>6. EnabledSessions(h') = EnabledSessions(h)
    BY <1>1, <1>5 DEF EnabledSessions
  <1>7. Base(h')
    BY <1>1, <1>4, <1>5, <1>6 DEF Base
  <1> QED BY <1>1, <1>5, <1>6, <1>7 DEF IInv, Trying

LEMMA EnableInv ==
    ASSUME IInv(h), NEW s \in Session, Enable(s)
    PROVE  IInv(h')
  <1> DEFINE f == [h.session EXCEPT ![s] = "enabled"]
             g == [h EXCEPT !.session = f]
  <1>1. /\ h \in HandlerType /\ h.session \in [Session -> {"absent", "disabled", "enabled"}]
        /\ Base(h) /\ h.online \in SUBSET Session
    BY DEF IInv, Base, HandlerType
  <1>2. f \in [Session -> {"absent", "disabled", "enabled"}]
    BY <1>1
  <1>3. [h EXCEPT !.session[s] = "enabled"] = g
    BY <1>1 DEF HandlerType
  <1>4. CASE h.channel
    <2> DEFINE k == [h EXCEPT !.session = f, !.online = h.online \cup {s}]
    <2>1. h' = k
      BY <1>1, <1>3, <1>4 DEF Enable, Goes, HandlerType
    <2>2. k \in HandlerType
      BY <1>1, <1>2 DEF HandlerType
    <2>3. /\ k.session = f /\ k.online = h.online \cup {s} /\ k.channel = h.channel
          /\ k.listener = h.listener /\ k.writing = h.writing /\ k.txQueue = h.txQueue
      BY <1>1 DEF HandlerType
    <2> HIDE DEF k
    <2>4. EnabledSessions(k) = EnabledSessions(h) \cup {s}
      BY <1>1, <2>3 DEF EnabledSessions
    <2>5. k.online = EnabledSessions(k)
      BY <1>1, <1>4, <2>3, <2>4 DEF Base
    <2>6. Base(k)
      BY <1>1, <1>4, <2>2, <2>3, <2>5 DEF Base
    <2> QED BY <1>4, <2>1, <2>3, <2>6 DEF IInv, Trying
  <1>5. CASE ~h.channel
    <2> DEFINE k == [h EXCEPT !.session = f, !.listener = "OPENING"]
    <2>1. PICK ok \in BOOLEAN : h' = BeginChannelAccept([g EXCEPT !.listener = "OPENING"], ok)
      BY <1>3, <1>5 DEF Enable, Goes
    <2>2. [g EXCEPT !.listener = "OPENING"] = k
      BY <1>1 DEF HandlerType
    <2>3. k \in HandlerType
      BY <1>1, <1>2 DEF HandlerType
    <2>4. /\ k.online = h.online /\ k.channel = h.channel /\ k.listener = "OPENING"
          /\ k.writing = h.writing /\ k.txQueue = h.txQueue
      BY <1>1 DEF HandlerType
    <2> HIDE DEF k
    <2>5. Base(k)
      BY <1>1, <1>5, <2>3, <2>4 DEF Base
    <2> QED BY <2>1, <2>2, <2>5, AcceptInv
  <1> QED BY <1>4, <1>5

\* Trying speaks only of these.
LEMMA TryingFrame ==
    ASSUME NEW g, NEW k, Trying(g), EnabledSessions(k) \subseteq EnabledSessions(g),
           k.channel = g.channel, k.client = g.client, k.mode = g.mode,
           k.orphans = g.orphans, k.retryTimer = g.retryTimer
    PROVE  Trying(k)
  BY DEF Trying

LEMMA DisableInv ==
    ASSUME IInv(h), NEW s \in Session, Disable(s)
    PROVE  IInv(h')
  <1> DEFINE e == [h EXCEPT !.session[s] = "disabled"]
             g == LowerLayerDown(e, s)
  <1>0. /\ Base(h) /\ "disabled" \in {"absent", "disabled"}
        /\ e = [h EXCEPT !.session[s] = "disabled"] /\ g = LowerLayerDown(e, s)
    BY DEF IInv
  <1> HIDE DEF e, g
  <1>1. /\ Base(g) /\ EnabledSessions(g) = EnabledSessions(h) \ {s}
        /\ g.channel = h.channel /\ g.client = h.client /\ g.mode = h.mode
        /\ g.orphans = h.orphans /\ g.retryTimer = h.retryTimer
    BY <1>0, SessionGone
  <1>2. CASE EnabledSessions(g) # {}
    <2>1. h' = g
      BY <1>2 DEF Disable, Goes, e, g
    <2>2. Trying(g)
      BY <1>1, TryingFrame DEF IInv
    <2> QED BY <1>1, <2>1, <2>2 DEF IInv
  <1>3. CASE EnabledSessions(g) = {}
    <2>1. PICK late \in BOOLEAN : h' = SuspendChannelAccept(Reset(g), late)
      BY <1>3 DEF Disable, Goes, e, g
    <2>2. Base(Reset(g)) /\ Reset(g).session = g.session
      BY <1>1, ResetBase
    <2>3. EnabledSessions(Reset(g)) = {}
      BY <1>3, <2>2 DEF EnabledSessions
    <2> QED BY <2>1, <2>2, <2>3, SuspendInv
  <1> QED BY <1>2, <1>3

LEMMA RemoveInv ==
    ASSUME IInv(h), NEW s \in Session, Remove(s)
    PROVE  IInv(h')
  <1> DEFINE e == [h EXCEPT !.session[s] = "absent"]
             g == LowerLayerDown(e, s)
  <1>0. /\ Base(h) /\ "absent" \in {"absent", "disabled"}
        /\ e = [h EXCEPT !.session[s] = "absent"] /\ g = LowerLayerDown(e, s)
    BY DEF IInv
  <1> HIDE DEF e, g
  <1>1. /\ Base(g) /\ EnabledSessions(g) = EnabledSessions(h) \ {s}
        /\ g.channel = h.channel /\ g.client = h.client /\ g.mode = h.mode
        /\ g.orphans = h.orphans /\ g.retryTimer = h.retryTimer
    BY <1>0, SessionGone
  <1>2. CASE EnabledSessions(g) # {}
    <2>1. h' = g
      BY <1>2 DEF Remove, Goes, e, g
    <2>2. Trying(g)
      BY <1>1, TryingFrame DEF IInv
    <2> QED BY <1>1, <2>1, <2>2 DEF IInv
  <1>3. CASE EnabledSessions(g) = {}
    <2>1. PICK late \in BOOLEAN : h' = SuspendChannelAccept(g, late)
      BY <1>3 DEF Remove, Goes, e, g
    <2> QED BY <1>1, <1>3, <2>1, SuspendInv
  <1> QED BY <1>2, <1>3

LEMMA ShutdownInv ==
    ASSUME IInv(h), Shutdown
    PROVE  IInv(h')
  <1> DEFINE a == [s \in Session |-> "absent"]
  <1>1. PICK late \in BOOLEAN :
          h' = [SuspendChannelAccept(Reset(h), late)
                  EXCEPT !.isShutdown = TRUE, !.listener = "SHUTDOWN", !.session = a]
    BY DEF Shutdown, Goes
  <1> DEFINE r == SuspendChannelAccept(Reset(h), late)
  <1>2. /\ Base(Reset(h)) /\ ~Reset(h).channel /\ Reset(h).txQueue = <<>>
        /\ Reset(h).online = {} /\ ~Reset(h).writing
    BY ResetBase DEF IInv
  <1>3. /\ Base(r) /\ ~r.channel /\ r.txQueue = <<>> /\ r.online = {} /\ ~r.writing
    BY <1>2, SuspendBase
  <1>4. r \in HandlerType /\ a \in [Session -> {"absent", "disabled", "enabled"}]
    BY <1>3 DEF Base
  <1> HIDE DEF r
  <1>5. h' \in HandlerType
    BY <1>1, <1>4 DEF HandlerType, r
  <1>6. /\ ~h'.channel /\ h'.txQueue = <<>> /\ h'.online = {} /\ ~h'.writing
        /\ h'.listener = "SHUTDOWN" /\ h'.session = a
    BY <1>1, <1>3, <1>4 DEF HandlerType, r
  <1>7. EnabledSessions(h') = {}
    BY <1>6 DEF EnabledSessions
  <1> QED BY <1>5, <1>6, <1>7 DEF IInv, Base, Trying

LEMMA BeginTransmitInv ==
    ASSUME IInv(h), NEW s \in Session, BeginTransmit(s)
    PROVE  IInv(h')
  <1> DEFINE q == Append(h.txQueue, s)
             p == h.sending \cup {s}
             g == [h EXCEPT !.txQueue = q, !.sending = p]
             k == [h EXCEPT !.txQueue = q, !.sending = p, !.writing = TRUE]
  <1>1. h \in HandlerType /\ Base(h) /\ h.txQueue \in Seq(Session)
        /\ h.sending \in SUBSET Session
    BY DEF IInv, Base, HandlerType
  <1>2. h.channel
    BY <1>1 DEF BeginTransmit, Base
  <1>3. q \in Seq(Session) /\ q # <<>>
    BY <1>1
  <1>4. p \in SUBSET Session
    BY <1>1
  <1>5. h' = CheckForSend(g)
    BY DEF BeginTransmit, Goes
  <1> HIDE DEF q, p
  <1>6. g.txQueue = q /\ g.channel /\ [g EXCEPT !.writing = TRUE] = k
    BY <1>1, <1>2 DEF HandlerType
  <1>7. h' = k
    BY <1>3, <1>5, <1>6 DEF CheckForSend
  <1>8. k \in HandlerType
    BY <1>1, <1>3, <1>4 DEF HandlerType
  <1>9. /\ k.session = h.session /\ k.online = h.online /\ k.channel = h.channel
        /\ k.listener = h.listener /\ k.writing = TRUE /\ k.txQueue = q
    BY <1>1 DEF HandlerType
  <1> HIDE DEF k
  <1>10. Base(k)
    BY <1>1, <1>2, <1>3, <1>8, <1>9 DEF Base, EnabledSessions
  <1> QED BY <1>2, <1>7, <1>9, <1>10 DEF IInv, Trying

LEMMA WriteCompletesInv ==
    ASSUME IInv(h), WriteCompletes
    PROVE  IInv(h')
  <1> DEFINE q == Tail(h.txQueue)
             p == h.sending \ {Head(h.txQueue)}
             g == [h EXCEPT !.writing = FALSE, !.txQueue = q, !.sending = p]
  <1>1. h \in HandlerType /\ Base(h) /\ h.txQueue \in Seq(Session)
        /\ h.sending \in SUBSET Session
    BY DEF IInv, Base, HandlerType
  <1>2. h.channel /\ h.txQueue # <<>>
    BY <1>1 DEF WriteCompletes, Base
  <1>3. q \in Seq(Session)
    BY <1>1, <1>2
  <1>4. p \in SUBSET Session
    BY <1>1
  <1>5. h' = CheckForSend(g)
    BY DEF WriteCompletes, Goes
  <1> HIDE DEF q, p
  <1>6. g \in HandlerType
    BY <1>1, <1>3, <1>4 DEF HandlerType
  <1>7. /\ g.session = h.session /\ g.online = h.online /\ g.channel = h.channel
        /\ g.listener = h.listener /\ g.writing = FALSE /\ g.txQueue = q
    BY <1>1 DEF HandlerType
  <1> HIDE DEF g
  <1>8. CASE q = <<>>
    <2>1. h' = g
      BY <1>5, <1>7, <1>8 DEF CheckForSend
    <2>2. Base(g)
      BY <1>1, <1>2, <1>6, <1>7, <1>8 DEF Base, EnabledSessions
    <2> QED BY <1>2, <1>7, <2>1, <2>2 DEF IInv, Trying
  <1>9. CASE q # <<>>
    <2> DEFINE k == [g EXCEPT !.writing = TRUE]
    <2>1. h' = k
      BY <1>2, <1>5, <1>7, <1>9 DEF CheckForSend
    <2>2. /\ k \in HandlerType
          /\ k.session = h.session /\ k.online = h.online /\ k.channel = h.channel
          /\ k.listener = h.listener /\ k.writing = TRUE /\ k.txQueue = q
      BY <1>6, <1>7 DEF HandlerType
    <2> HIDE DEF k
    <2>3. Base(k)
      BY <1>1, <1>2, <1>9, <2>2 DEF Base, EnabledSessions
    <2> QED BY <1>2, <2>1, <2>2, <2>3 DEF IInv, Trying
  <1> QED BY <1>8, <1>9

LEMMA ChannelFailsInv ==
    ASSUME IInv(h), ChannelFails
    PROVE  IInv(h')
  <1> DEFINE r == Reset(h)
             k == [r EXCEPT !.listener = "OPENING"]
  <1>1. PICK ok \in BOOLEAN : h' = OnChannelShutdown(k, ok)
    BY DEF ChannelFails, Goes
  <1>2. Base(r) /\ ~r.channel /\ r \in HandlerType
    BY ResetBase DEF IInv, Base
  <1> HIDE DEF r
  <1>3. /\ k \in HandlerType
        /\ k.session = r.session /\ k.online = r.online /\ k.channel = r.channel
        /\ k.listener = "OPENING" /\ k.writing = r.writing /\ k.txQueue = r.txQueue
    BY <1>2 DEF HandlerType
  <1> HIDE DEF k
  <1>4. Base(k)
    BY <1>2, <1>3 DEF Base, EnabledSessions
  <1>5. CASE k.mode = "tcp server"
    BY <1>1, <1>4, <1>5 DEF OnChannelShutdown, IInv, Trying
  <1>6. CASE k.mode # "tcp server"
    BY <1>1, <1>4, <1>6, AcceptInv DEF OnChannelShutdown
  <1> QED BY <1>5, <1>6

LEMMA ConnectedInv ==
    ASSUME IInv(h), Connected
    PROVE  IInv(h')
  <1> DEFINE c == IF h.mode = "tcp client" THEN "idle" ELSE h.client
             k == [h EXCEPT !.client = c]
  <1>1. h \in HandlerType /\ Base(h) /\ h.client \in {"none", "idle", "busy"}
    BY DEF IInv, Base, HandlerType
  <1>2. h' = OnNewChannel(k)
    BY DEF Connected, Goes
  <1>3. c \in {"none", "idle", "busy"}
    BY <1>1
  <1> HIDE DEF c
  <1>4. /\ k \in HandlerType
        /\ k.session = h.session /\ k.online = h.online /\ k.channel = h.channel
        /\ k.listener = h.listener /\ k.writing = h.writing /\ k.txQueue = h.txQueue
    BY <1>1, <1>3 DEF HandlerType
  <1> HIDE DEF k
  <1>5. Base(k)
    BY <1>1, <1>4, BaseFrame
  <1> QED BY <1>2, <1>5, NewChannelBase

LEMMA OrphanConnectedInv ==
    ASSUME IInv(h), OrphanConnected
    PROVE  IInv(h')
  <1> DEFINE n == h.orphans - 1
             k == [h EXCEPT !.orphans = n]
  <1>1. h \in HandlerType /\ Base(h) /\ h.orphans \in Nat /\ h.orphans > 0
    BY DEF IInv, Base, HandlerType, OrphanConnected
  <1>2. h' = OnNewChannel(k)
    BY DEF OrphanConnected, Goes
  <1>3. n \in Nat
    BY <1>1
  <1> HIDE DEF n
  <1>4. /\ k \in HandlerType
        /\ k.session = h.session /\ k.online = h.online /\ k.channel = h.channel
        /\ k.listener = h.listener /\ k.writing = h.writing /\ k.txQueue = h.txQueue
    BY <1>1, <1>3 DEF HandlerType
  <1> HIDE DEF k
  <1>5. Base(k)
    BY <1>1, <1>4, BaseFrame
  <1> QED BY <1>2, <1>5, NewChannelBase

\* A step after which the retry timer runs, the client is not dropped, and
\* nothing else changes but the orphans.
LEMMA RetryPending ==
    ASSUME IInv(h), NEW c \in {"none", "idle", "busy"}, NEW n \in Nat,
           NEW t \in TimerRefType, IsActive(t), c = "none" => h.client = "none",
           NEW k, k = [h EXCEPT !.client = c, !.orphans = n, !.retryTimer = t]
    PROVE  IInv(k)
  <1>1. h \in HandlerType /\ Base(h) /\ Trying(h)
    BY DEF IInv, Base
  <1>2. /\ k \in HandlerType /\ k.mode = h.mode /\ k.client = c /\ k.retryTimer = t
        /\ k.session = h.session /\ k.online = h.online /\ k.channel = h.channel
        /\ k.listener = h.listener /\ k.writing = h.writing /\ k.txQueue = h.txQueue
    BY <1>1 DEF HandlerType
  <1>3. Base(k)
    BY <1>1, <1>2, BaseFrame
  <1>4. EnabledSessions(k) = EnabledSessions(h)
    BY <1>2 DEF EnabledSessions
  <1> QED BY <1>1, <1>2, <1>3, <1>4 DEF IInv, Trying

LEMMA ConnectFailsInv ==
    ASSUME IInv(h), ConnectFails
    PROVE  IInv(h')
  <1> DEFINE t == TimerStart(h.retryTimer)
  <1>1. h \in HandlerType /\ h.orphans \in Nat /\ h.retryTimer \in TimerRefType
    BY DEF IInv, Base, HandlerType
  <1>2. t \in TimerRefType /\ IsActive(t)
    BY <1>1, TimerTypes
  <1>3. h' = [h EXCEPT !.client = "idle", !.retryTimer = t]
    BY DEF ConnectFails, Goes
  <1> HIDE DEF t
  <1>4. h' = [h EXCEPT !.client = "idle", !.orphans = h.orphans, !.retryTimer = t]
    BY <1>1, <1>3 DEF HandlerType
  <1> QED BY <1>1, <1>2, <1>4, RetryPending

LEMMA OrphanFailsInv ==
    ASSUME IInv(h), OrphanFails
    PROVE  IInv(h')
  <1> DEFINE t == TimerStart(h.retryTimer)
             n == h.orphans - 1
  <1>1. h \in HandlerType /\ h.orphans \in Nat /\ h.retryTimer \in TimerRefType
        /\ h.client \in {"none", "idle", "busy"} /\ h.orphans > 0
    BY DEF IInv, Base, HandlerType, OrphanFails
  <1>2. t \in TimerRefType /\ IsActive(t)
    BY <1>1, TimerTypes
  <1>3. n \in Nat
    BY <1>1
  <1>4. h' = [h EXCEPT !.orphans = n, !.retryTimer = t]
    BY DEF OrphanFails, Goes
  <1> HIDE DEF t, n
  <1>5. h' = [h EXCEPT !.client = h.client, !.orphans = n, !.retryTimer = t]
    BY <1>1, <1>4 DEF HandlerType
  <1> QED BY <1>1, <1>2, <1>3, <1>5, RetryPending

LEMMA RetryTimerExpiresInv ==
    ASSUME IInv(h), RetryTimerExpires
    PROVE  IInv(h')
  <1> DEFINE t == TimerExpire(h.retryTimer)
  <1>1. h \in HandlerType /\ h.orphans \in Nat /\ h.retryTimer \in TimerRefType
        /\ h.client \in {"none", "idle", "busy"}
    BY DEF IInv, Base, HandlerType
  <1>2. t \in TimerRefType /\ IsActive(t)
    BY <1>1, TimerTypes
  <1>3. h' = [h EXCEPT !.retryTimer = t]
    BY DEF RetryTimerExpires, Goes
  <1> HIDE DEF t
  <1>4. h' = [h EXCEPT !.client = h.client, !.orphans = h.orphans, !.retryTimer = t]
    BY <1>1, <1>3 DEF HandlerType
  <1> QED BY <1>1, <1>2, <1>4, RetryPending

\* The retry itself: it finds its client whenever a session waits for it.
LEMMA RetryInv ==
    ASSUME IInv(h), NEW t \in TimerRefType, NEW ok \in BOOLEAN
    PROVE  IInv(Retry([h EXCEPT !.retryTimer = t], ok))
  <1> DEFINE g == [h EXCEPT !.retryTimer = t]
  <1>1. h \in HandlerType /\ Base(h) /\ Trying(h)
    BY DEF IInv, Base
  <1>2. /\ g \in HandlerType /\ g.mode = h.mode /\ g.client = h.client
        /\ g.session = h.session /\ g.online = h.online /\ g.channel = h.channel
        /\ g.listener = h.listener /\ g.writing = h.writing /\ g.txQueue = h.txQueue
    BY <1>1 DEF HandlerType
  <1> HIDE DEF g
  <1>3. Base(g)
    BY <1>1, <1>2, BaseFrame
  <1>4. CASE g.mode = "serial"
    <2>1. Retry(g, ok) = TryOpen(g, ok)
      BY <1>4 DEF Retry
    <2> QED BY <1>3, <1>4, <2>1, TryOpenInv DEF g
  <1>5. CASE g.mode # "serial" /\ g.client = "none"
    <2> DEFINE k == [g EXCEPT !.fault = TRUE]
    <2>1. Retry(g, ok) = k
      BY <1>5 DEF Retry
    <2>2. /\ k \in HandlerType /\ k.mode = g.mode
          /\ k.session = g.session /\ k.online = g.online /\ k.channel = g.channel
          /\ k.listener = g.listener /\ k.writing = g.writing /\ k.txQueue = g.txQueue
      BY <1>2 DEF HandlerType
    <2> HIDE DEF k
    <2>3. Base(k)
      BY <1>3, <2>2, BaseFrame
    <2>4. EnabledSessions(k) = EnabledSessions(h)
      BY <1>2, <2>2 DEF EnabledSessions
    <2>5. h.mode \in Mode
      BY <1>1 DEF HandlerType
    <2>6. Trying(k)
      BY <1>1, <1>2, <1>5, <2>2, <2>4, <2>5 DEF Trying, Mode
    <2> QED BY <2>1, <2>3, <2>6 DEF IInv, g
  <1>6. CASE g.mode # "serial" /\ g.client # "none"
    <2> DEFINE k == [g EXCEPT !.client = "busy"]
    <2>1. Retry(g, ok) = k
      BY <1>6 DEF Retry
    <2>2. /\ k \in HandlerType /\ k.client = "busy"
          /\ k.session = g.session /\ k.online = g.online /\ k.channel = g.channel
          /\ k.listener = g.listener /\ k.writing = g.writing /\ k.txQueue = g.txQueue
      BY <1>2 DEF HandlerType
    <2> HIDE DEF k
    <2>3. Base(k)
      BY <1>3, <2>2, BaseFrame
    <2> QED BY <2>1, <2>2, <2>3 DEF IInv, Trying, g
  <1> QED BY <1>4, <1>5, <1>6

LEMMA RetryTimerCallbackInv ==
    ASSUME IInv(h), RetryTimerCallback
    PROVE  IInv(h')
  <1>1. h.retryTimer \in TimerRefType
    BY DEF IInv, Base, HandlerType
  <1>2. CurrentCallback(h.retryTimer) \in TimerRefType
    BY <1>1, TimerTypes
  <1>3. PICK ok \in BOOLEAN :
          h' = Retry([h EXCEPT !.retryTimer = CurrentCallback(h.retryTimer)], ok)
    BY DEF RetryTimerCallback, Goes
  <1> QED BY <1>2, <1>3, RetryInv

LEMMA StaleRetryTimerCallbackInv ==
    ASSUME IInv(h), StaleRetryTimerCallback
    PROVE  IInv(h')
  <1>1. h.retryTimer \in TimerRefType /\ h.retryTimer.stale > 0
    BY DEF IInv, Base, HandlerType, StaleRetryTimerCallback
  <1>2. StaleCallback(h.retryTimer) \in TimerRefType
    BY <1>1, TimerTypes
  <1>3. PICK ok \in BOOLEAN :
          h' = Retry([h EXCEPT !.retryTimer = StaleCallback(h.retryTimer)], ok)
    BY DEF StaleRetryTimerCallback, Goes
  <1> QED BY <1>2, <1>3, RetryInv

LEMMA NextInv ==
    ASSUME IInv(h), Next
    PROVE  IInv(h')
  BY AddContextInv, EnableInv, DisableInv, RemoveInv, BeginTransmitInv, ShutdownInv,
     WriteCompletesInv, ChannelFailsInv, ConnectedInv, ConnectFailsInv,
     OrphanConnectedInv, OrphanFailsInv, RetryTimerExpiresInv, RetryTimerCallbackInv,
     StaleRetryTimerCallbackInv DEF Next

Inv == IInv(h)

LEMMA Inductive == Spec => []Inv
  <1>1. Init => Inv
    BY InitInv DEF Inv
  <1>2. Inv /\ [Next]_h => Inv'
    <2> SUFFICES ASSUME IInv(h), [Next]_h PROVE IInv(h')
      BY DEF Inv
    <2>1. CASE Next
      BY <2>1, NextInv
    <2>2. CASE UNCHANGED h
      BY <2>2
    <2> QED BY <2>1, <2>2
  <1> QED BY <1>1, <1>2, PTL DEF Spec

\* The handler's record keeps its type: no count of clients falls below zero and
\* no queue is taken from when it is empty.
THEOREM TypeCorrect == Spec => []TypeOK
  <1>1. Inv => TypeOK
    BY DEF Inv, IInv, Base, TypeOK
  <1> QED BY <1>1, Inductive, PTL

\* For every set of sessions and every bound, the sessions that were told that
\* the layer is up are the enabled ones of the open channel, and no others.
THEOREM SessionsAlwaysFollow == Spec => []SessionsFollowChannel
  <1>1. Inv => SessionsFollowChannel
    BY DEF Inv, IInv, Base, SessionsFollowChannel
  <1> QED BY <1>1, Inductive, PTL

\* For every set of sessions and every bound, frames that are queued are being
\* written, and a client or a port that is wanted has a channel or is on its way
\* to one.
THEOREM NeverStalls == Spec => []NothingStalls
  <1>1. Inv => NothingStalls
    BY DEF Inv, IInv, Base, Trying, NothingStalls
  <1> QED BY <1>1, Inductive, PTL
===============================================================================
