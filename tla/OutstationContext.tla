--------------------------- MODULE OutstationContext ---------------------------
(***************************************************************************)
(* The outstation's application layer: OContext and the three states of    *)
(* OutstationStates.                                                       *)
(*                                                                         *)
(* A context is one record and every member function an operator from a    *)
(* context to the context it leaves behind.  A member function that        *)
(* answers takes a last argument k, what is decided outside the context:   *)
(*                                                                         *)
(*   k.room    the objects that fit into the fragment being written; the   *)
(*             transmit buffer has space for at least one                  *)
(*   k.accept  whether the application accepts the command or the time and *)
(*             the select timeout has not passed                           *)
(*                                                                         *)
(* A step of the strand transmits at most one fragment, so that one k is   *)
(* enough for a step.  The cells of the static database are numbered in    *)
(* the order in which DatabaseBuffers::Load writes them.  The range that   *)
(* SelectedRanges keeps for a type always runs from the first to the last  *)
(* selected cell of the type, so the selection is the set of those cells.  *)
(*                                                                         *)
(* Four fields record what the context did and are read by no operation:  *)
(*                                                                         *)
(*   owed      BeginTransmit calls whose OnTxReady is outstanding          *)
(*   awaited   the events in the last fragment that asks for a confirm     *)
(*   asked     the cells that the READ being answered selects              *)
(*   operated  the requests whose commands were executed since the last    *)
(*             confirm, or since another request was answered              *)
(***************************************************************************)
EXTENDS EventStorage, Sequences, TimerRef

CONSTANTS SeqMod,           \* the modulus of AppSeqNum: 16
          StaticCells,      \* the cells of the database: 0 .. n
          OctetCells,       \* those that hold octet strings
          InitialMask,      \* OutstationParams::unsolClassMask
          allowUnsolicited, \* OutstationParams::allowUnsolicited
          Item              \* commands, as far as requests tell them apart

ASSUME SeqAssumption == SeqMod \in Nat \ {0}
ASSUME CellAssumption ==
    /\ StaticCells \subseteq Nat
    /\ IsFiniteSet(StaticCells)
    /\ OctetCells \subseteq StaticCells
ASSUME ParamsAssumption == InitialMask \subseteq EventClass /\ allowUnsolicited \in BOOLEAN

AppSeqNum == 0 .. SeqMod - 1

\* Defect: the number does not wrap.
NextSeqUnbounded(n) == n + 1

\* AppSeqNum::Next
NextSeq(n) == (n + 1) % SeqMod

CommandFunction == {"SELECT", "OPERATE", "DIRECT_OPERATE", "DIRECT_OPERATE_NR"}
FunctionCode == CommandFunction \cup
    {"CONFIRM", "READ", "WRITE", "RECORD_CURRENT_TIME", "ASSIGN_CLASS",
     "ENABLE_UNSOLICITED", "DISABLE_UNSOLICITED", "FREEZE_NR", "OTHER"}

\* What the object headers of a request say, once parsed: whether they parse,
\* the event classes, the most events and the static cells they ask for, the
\* command or what is written.
Objects == [ok : BOOLEAN, classes : SUBSET EventClass, count : Nat,
            cells : SUBSET StaticCells,
            item : Item \cup {"none", "restart", "absolute time", "LAN time"}]

\* ParsedRequest.  The digest that RequestHistory compares is taken to tell
\* different objects apart.
Request == [function : FunctionCode, UNS : BOOLEAN, SEQ : AppSeqNum, objects : Objects]

\* A request that may be absent is a sequence of at most one.
IsOptional(s, S) == s \in Seq(S) /\ Len(s) <= 1

OContextType(c) ==
    /\ DOMAIN c = {"state", "isOnline", "isTransmitting", "confirmTimer", "solNum",
                   "solConfirmNum", "unsolNum", "unsolConfirmNum", "completedNull",
                   "history", "deferred", "storage", "overflow", "selected", "firstFragment",
                   "control", "time", "unsolClassMask", "clazz", "restart",
                   "owed", "awaited", "asked", "operated"}
    /\ c.state \in {"Idle", "SolicitedConfirmWait", "UnsolicitedConfirmWait"}
    /\ c.confirmTimer \in TimerRefType
    /\ {c.isOnline, c.isTransmitting, c.completedNull, c.overflow, c.firstFragment,
        c.restart} \subseteq BOOLEAN
    /\ {c.solNum, c.solConfirmNum, c.unsolNum, c.unsolConfirmNum} \subseteq AppSeqNum
    /\ IsOptional(c.history, Request)
    /\ IsOptional(c.deferred, Request)
    /\ EventStorageType(c.storage)
    /\ c.selected \subseteq StaticCells
    /\ IsOptional(c.control, [expectedSeq : AppSeqNum, objects : Objects])
    /\ IsOptional(c.time, AppSeqNum)
    /\ c.unsolClassMask \subseteq EventClass
    /\ c.clazz \in [EventType -> EventClass \cup {"Class0"}]
    /\ c.owed \in Nat
    /\ c.awaited \subseteq Nat
    /\ c.asked \subseteq StaticCells
    /\ c.operated \in Seq(Request)

InitContext(clazz) ==
    [state |-> "Idle", isOnline |-> FALSE, isTransmitting |-> FALSE,
     confirmTimer |-> TimerOff, solNum |-> 0, solConfirmNum |-> 0, unsolNum |-> 0,
     unsolConfirmNum |-> 0, completedNull |-> FALSE, history |-> <<>>, deferred |-> <<>>,
     storage |-> EmptyStorage, overflow |-> FALSE, selected |-> {}, firstFragment |-> TRUE,
     control |-> <<>>, time |-> <<>>, unsolClassMask |-> InitialMask, clazz |-> clazz,
     restart |-> TRUE, owed |-> 0, awaited |-> {}, asked |-> {}, operated |-> <<>>]

CanTransmit(c) == c.isOnline /\ ~c.isTransmitting

\* RequestHistory::Reset
ForgetRequest(c) == [c EXCEPT !.history = <<>>, !.operated = <<>>]

-------------------------------------------------------------------------------
(* Transmitting: BeginTx, BeginResponseTx, GetResponseIIN, the confirm timer. *)

BeginTx(c) == [c EXCEPT !.isTransmitting = TRUE, !.owed = @ + 1]

\* GetDynamicIIN asks the event buffer, which forgets an overflow once every
\* list has space.
GetResponseIIN(c) == [c EXCEPT !.overflow = @ /\ IsAnyTypeFull(c.storage)]

RestartConfirmTimer(c) == [c EXCEPT !.confirmTimer = TimerRestart(@)]
CancelConfirmTimer(c) == [c EXCEPT !.confirmTimer = TimerCancel(@)]

\* A repeated request is answered with the bytes of the last response.
RepeatLastResponse(c) == BeginTx(c)

-------------------------------------------------------------------------------
(* Answering a READ: HandleRead, ResponseContext, ContinueMultiFragResponse.  *)

\* ResponseContext::LoadResponse: the selected events, and the selected cells
\* once no selected event is left.
LoadedCells(c, room) ==
    IF HasAnySelection(Write(c.storage, room)) THEN {}
    ELSE FirstOf(c.selected, room - Cardinality(Written(c.storage, room)))
LoadResponse(c, k) ==
    [c EXCEPT !.storage = Write(@, k.room),
              !.selected = @ \ LoadedCells(c, k.room),
              !.firstFragment = FALSE]
AsksForConfirm(c, k) ==
    \/ Written(c.storage, k.room) # {}
    \/ HasAnySelection(Write(c.storage, k.room))
    \/ LoadedCells(c, k.room) # c.selected

\* The end of RespondToReadRequest and of ContinueMultiFragResponse.
SendFragment(c, seq, k) ==
    LET d == BeginTx(GetResponseIIN([LoadResponse(c, k) EXCEPT !.solConfirmNum = seq]))
    IN  IF AsksForConfirm(c, k)
        THEN [RestartConfirmTimer(d) EXCEPT !.state = "SolicitedConfirmWait",
                                            !.awaited = Written(c.storage, k.room)]
        ELSE [d EXCEPT !.state = "Idle"]

\* DatabaseBuffers::Unselect has no line for the octet strings.
DatabaseUnselect(S) == S \cap OctetCells

\* Defect: events of an earlier response are not unselected.
HandleReadOnTop(c, x) ==
    [c EXCEPT !.firstFragment = TRUE,
              !.storage = IF x.ok THEN SelectByClass(@, x.classes, x.count) ELSE @,
              !.selected = DatabaseUnselect(@) \cup (IF x.ok THEN x.cells ELSE {}),
              !.asked = x.cells]

\* What HandleRead leaves selected before it writes.
HandleRead(c, x) ==
    [c EXCEPT !.firstFragment = TRUE,
              !.storage = IF x.ok THEN SelectByClass(Unselect(@), x.classes, x.count)
                                  ELSE Unselect(@),
              !.selected = DatabaseUnselect(@) \cup (IF x.ok THEN x.cells ELSE {}),
              !.asked = x.cells]

\* A READ that does not parse is answered by an empty fragment.
RespondToReadRequest(c, r, k) ==
    LET d == HandleRead([c EXCEPT !.history = <<r>>], r.objects)
    IN  IF r.objects.ok THEN SendFragment(d, r.SEQ, k)
        ELSE BeginTx(GetResponseIIN([d EXCEPT !.solConfirmNum = r.SEQ, !.state = "Idle"]))

-------------------------------------------------------------------------------
(* Answering other requests: HandleNonReadResponse and its handlers.          *)

Execute(c, r) == [c EXCEPT !.operated = Append(@, r)]

\* ControlState::Select, when the application accepts every command.
HandleSelect(c, r, k) ==
    IF k.accept THEN [c EXCEPT !.control =
                        <<[expectedSeq |-> NextSeq(c.solNum), objects |-> r.objects]>>] ELSE c

\* ControlState::ValidateSelection, and the commands if it succeeds.
HandleOperate(c, r, k) ==
    IF c.control = <<[expectedSeq |-> c.solNum, objects |-> r.objects]>> /\ k.accept
    THEN Execute(c, r) ELSE c

\* WriteHandler and TimeSyncState::CalcTimeDifference: the time recorded by a
\* RECORD_CURRENT_TIME serves the next request only.
HandleWrite(c, r, k) ==
    IF r.objects.item = "restart" THEN [c EXCEPT !.restart = FALSE]
    ELSE IF r.objects.item = "LAN time" /\ k.accept /\ c.time = <<c.solNum>>
    THEN [c EXCEPT !.time = <<>>]
    ELSE c

HandleRecordCurrentTime(c) == [c EXCEPT !.time = <<NextSeq(c.solNum)>>]

\* AssignClassHandler, for a request that gives every point one class: class 0
\* or an event class.
HandleAssignClass(c, r, k) ==
    IF ~k.accept THEN c
    ELSE [c EXCEPT !.clazz = [t \in EventType |->
             IF r.objects.classes = {} THEN "Class0"
             ELSE CHOOSE ec \in r.objects.classes : TRUE]]

\* Objects that do not parse have no effect.
HandleNonReadResponse(c, r, k) ==
    IF ~r.objects.ok THEN c
    ELSE CASE r.function = "WRITE" -> HandleWrite(c, r, k)
           [] r.function = "SELECT" -> HandleSelect(c, r, k)
           [] r.function = "OPERATE" -> HandleOperate(c, r, k)
           [] r.function = "DIRECT_OPERATE" -> Execute(c, r)
           [] r.function = "RECORD_CURRENT_TIME" -> HandleRecordCurrentTime(c)
           [] r.function = "ASSIGN_CLASS" -> HandleAssignClass(c, r, k)
           [] r.function = "ENABLE_UNSOLICITED" /\ allowUnsolicited ->
                 [c EXCEPT !.unsolClassMask = @ \cup r.objects.classes]
           [] r.function = "DISABLE_UNSOLICITED" /\ allowUnsolicited ->
                 [c EXCEPT !.unsolClassMask = @ \ r.objects.classes]
           [] OTHER -> c

\* Defect: the request is not recorded, so that its repetition is new.
RespondToNonReadUnrecorded(c, r, k) ==
    BeginTx(GetResponseIIN(HandleNonReadResponse(c, r, k)))

RespondToNonReadRequest(c, r, k) ==
    BeginTx(GetResponseIIN(HandleNonReadResponse([c EXCEPT !.history = <<r>>], r, k)))

-------------------------------------------------------------------------------
(* The states: OnConfirm, OnConfirmTimeout, OnNewReadRequest,                 *)
(* OnNewNonReadRequest, OnRepeatReadRequest, OnRepeatNonReadRequest.          *)

OnConfirm(c, r, k) ==
    IF c.state = "SolicitedConfirmWait" /\ ~r.UNS /\ r.SEQ = c.solConfirmNum
    THEN LET d == CancelConfirmTimer(ForgetRequest([c EXCEPT !.storage = ClearWritten(@)]))
         IN  IF d.selected # {} \/ HasAnySelection(d.storage)
             THEN SendFragment(d, NextSeq(r.SEQ), k)
             ELSE [d EXCEPT !.state = "Idle"]
    ELSE IF c.state = "UnsolicitedConfirmWait" /\ r.UNS /\ r.SEQ = c.unsolConfirmNum
    THEN [CancelConfirmTimer(ForgetRequest(c)) EXCEPT
             !.storage = IF c.completedNull THEN ClearWritten(@) ELSE @,
             !.completedNull = TRUE, !.state = "Idle"]
    ELSE c

\* Only an unsolicited response gives its events back.
OnConfirmTimeout(c) ==
    [c EXCEPT !.state = "Idle",
              !.storage = IF c.state = "UnsolicitedConfirmWait" /\ c.completedNull
                          THEN Unselect(@) ELSE @]

OnNewReadRequest(c, r, k) ==
    CASE c.state = "Idle" -> RespondToReadRequest(c, r, k)
      [] c.state = "SolicitedConfirmWait" -> RespondToReadRequest(CancelConfirmTimer(c), r, k)
      [] OTHER -> [c EXCEPT !.deferred = <<r>>]

\* Defect: the confirm that was awaited is still awaited, with no timer.
OnNewNonReadKeepsWaiting(c, r, k) ==
    CASE c.state = "Idle" -> RespondToNonReadRequest(c, r, k)
      [] c.state = "SolicitedConfirmWait" -> RespondToNonReadRequest(CancelConfirmTimer(c), r, k)
      [] OTHER -> RespondToNonReadRequest([c EXCEPT !.deferred = <<>>], r, k)

OnNewNonReadRequest(c, r, k) ==
    CASE c.state = "Idle" -> RespondToNonReadRequest(c, r, k)
      [] c.state = "SolicitedConfirmWait" ->
            [RespondToNonReadRequest(CancelConfirmTimer(c), r, k) EXCEPT !.state = "Idle"]
      [] OTHER -> RespondToNonReadRequest([c EXCEPT !.deferred = <<>>], r, k)

OnRepeatReadRequest(c, r) ==
    CASE c.state = "Idle" -> RepeatLastResponse(c)
      [] c.state = "SolicitedConfirmWait" -> RepeatLastResponse(RestartConfirmTimer(c))
      [] OTHER -> [c EXCEPT !.deferred = <<r>>]

OnRepeatNonReadRequest(c, r) ==
    IF c.state = "SolicitedConfirmWait" THEN RepeatLastResponse(CancelConfirmTimer(c))
    ELSE RepeatLastResponse(c)

-------------------------------------------------------------------------------
(* Requests: ProcessObjects, OnReceiveSolRequest, the deferred request.       *)

\* A request with the sequence number and the bytes of the last one repeats it.
IsRepeat(c, r) == c.history = <<r>> /\ c.solNum = r.SEQ

\* ProcessNewRequest
ProcessNewRequest(c, r, k) ==
    LET d == [c EXCEPT !.solNum = r.SEQ, !.operated = IF @ = <<r>> THEN @ ELSE <<>>]
    IN  IF r.function = "READ" THEN OnNewReadRequest(d, r, k) ELSE OnNewNonReadRequest(d, r, k)

\* ProcessRequest and OnReceiveSolRequest
ProcessRequest(c, r, k) ==
    IF r.UNS THEN c
    ELSE IF ~IsRepeat(c, r) THEN ProcessNewRequest(c, r, k)
    ELSE IF r.function = "READ" THEN OnRepeatReadRequest(c, r)
    ELSE OnRepeatNonReadRequest(c, r)

\* Defect: a request is answered even while a response is transmitted.
ProcessObjectsAtOnce(c, r, k) ==
    IF r.function \in {"DIRECT_OPERATE_NR", "FREEZE_NR"} THEN c
    ELSE IF r.function = "CONFIRM" THEN OnConfirm(c, r, k)
    ELSE ProcessRequest(c, r, k)

\* ProcessRequestNoAck executes its commands and leaves no trace in the context.
ProcessObjects(c, r, k) ==
    IF r.function \in {"DIRECT_OPERATE_NR", "FREEZE_NR"} THEN c
    ELSE IF c.isTransmitting THEN [c EXCEPT !.deferred = <<r>>]
    ELSE IF r.function = "CONFIRM" THEN OnConfirm(c, r, k)
    ELSE ProcessRequest(c, r, k)

\* ProcessDeferredRequest: a READ stays deferred until the state is idle.
CheckForDeferredRequest(c, k) ==
    IF ~CanTransmit(c) \/ c.deferred = <<>> THEN c
    ELSE LET r == c.deferred[1] IN
         IF r.function = "CONFIRM" THEN [OnConfirm(c, r, k) EXCEPT !.deferred = <<>>]
         ELSE IF r.function = "READ" /\ c.state # "Idle" THEN c
         ELSE [ProcessRequest(c, r, k) EXCEPT !.deferred = <<>>]

-------------------------------------------------------------------------------
(* Unsolicited responses, and what the layers below and the database call.    *)

HasUnsolicitedEvents(c) == c.unsolClassMask \cap UnwrittenClassField(c.storage) # {}

\* BeginUnsolTx, after the confirm timer was restarted.
SendUnsolicited(c) ==
    BeginTx([RestartConfirmTimer(GetResponseIIN(c)) EXCEPT
                !.state = "UnsolicitedConfirmWait",
                !.unsolConfirmNum = c.unsolNum,
                !.unsolNum = NextSeq(@)])

CheckForUnsolicited(c, k) ==
    IF ~CanTransmit(c) \/ c.state # "Idle" \/ ~allowUnsolicited THEN c
    ELSE IF ~c.completedNull THEN SendUnsolicited([c EXCEPT !.awaited = {}])
    ELSE IF ~HasUnsolicitedEvents(c) THEN c
    ELSE LET s == SelectByClass(Unselect(c.storage), c.unsolClassMask, c.storage.next)
         IN  SendUnsolicited([c EXCEPT !.storage = Write(s, k.room),
                                       !.awaited = Written(s, k.room)])

CheckForTaskStart(c, k) == CheckForUnsolicited(CheckForDeferredRequest(c, k), k)

OnLowerLayerUp(c, k) == CheckForTaskStart([c EXCEPT !.isOnline = TRUE], k)

\* The layer below forgets a transmission when it goes down.  The selection of
\* the database, the selected command and the sequence numbers survive.
OnLowerLayerDown(c) ==
    [CancelConfirmTimer(ForgetRequest(c)) EXCEPT
        !.state = "Idle", !.isOnline = FALSE, !.isTransmitting = FALSE,
        !.completedNull = FALSE, !.deferred = <<>>, !.storage = Unselect(@),
        !.firstFragment = TRUE, !.owed = 0]

\* Defect: nothing that waited for the transmission is taken up.
OnTxReadyOnly(c, k) == [c EXCEPT !.isTransmitting = FALSE, !.owed = @ - 1]

OnTxReady(c, k) ==
    CheckForTaskStart([c EXCEPT !.isTransmitting = FALSE, !.owed = @ - 1], k)

\* A message that ProcessMessage rejects has no effect of its own.
OnReceive(c, r, k) == CheckForTaskStart(ProcessObjects(c, r, k), k)
OnReceiveRejected(c, k) == CheckForTaskStart(c, k)

OnTimeout(c, k) == CheckForTaskStart(OnConfirmTimeout(c), k)

\* OutstationStack::Apply: Database::TryCreateEvent records nothing for a point
\* of class 0.
Apply(c, t, k) ==
    CheckForTaskStart(
        IF c.clazz[t] = "Class0" THEN c
        ELSE [c EXCEPT !.storage = Update(@, t, c.clazz[t]),
                       !.overflow = @ \/ Overflows(c.storage, t)], k)
===============================================================================
