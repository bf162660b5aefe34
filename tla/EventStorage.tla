----------------------------- MODULE EventStorage -----------------------------
(***************************************************************************)
(* The outstation's event storage: EventLists and its counters, and the    *)
(* operations EventUpdate, EventSelection, EventWriting and EventStorage   *)
(* perform on them.                                                        *)
(*                                                                         *)
(* An event is named by the number of events recorded before it.  Both the *)
(* aggregate list and the list of the event's type insert at the tail, so  *)
(* the order of the numbers is the order of every list and a list is the   *)
(* set of its members:                                                     *)
(*                                                                         *)
(*   rec      the aggregate list: what is known of each event it holds     *)
(*   typed    the list of each event type, with a capacity of its own      *)
(*   next     the number of the next event                                 *)
(*   total, written, selected   the counters (uint32_t)                    *)
(***************************************************************************)
EXTENDS Integers, FiniteSets

CONSTANTS EventType,    \* the kinds of point that report events
          MaxEvents     \* EventBufferConfig: the capacity of each type's list

ASSUME MaxEventsAssumption ==
    /\ IsFiniteSet(EventType)
    /\ MaxEvents \in [EventType -> Nat]

EventClass == {"EC1", "EC2", "EC3"}
EventState == {"unselected", "selected", "written"}
EventRecord == [type : EventType, clazz : EventClass, state : EventState]

Events(s) == DOMAIN s.rec

EventStorageType(s) ==
    /\ DOMAIN s = {"rec", "typed", "next", "total", "written", "selected"}
    /\ s.next \in Nat
    /\ Events(s) \subseteq 0 .. s.next - 1
    /\ s.rec \in [Events(s) -> EventRecord]
    /\ s.typed \in [EventType -> SUBSET (0 .. s.next - 1)]
    /\ s.total \in [EventClass -> Int]
    /\ s.written \in [EventClass -> Int]
    /\ s.selected \in Int

NoCounts == [c \in EventClass |-> 0]

EmptyStorage ==
    [rec |-> [i \in {} |-> {}], typed |-> [t \in EventType |-> {}], next |-> 0,
     total |-> NoCounts, written |-> NoCounts, selected |-> 0]

\* List::IsFull: no free node is left.  A list of capacity zero is always full.
IsFull(s, t) == Cardinality(s.typed[t]) >= MaxEvents[t]
IsAnyTypeFull(s) == \E t \in EventType : IsFull(s, t)

InState(s, st) == {i \in Events(s) : s.rec[i].state = st}
OfClass(s, S, c) == {i \in S : s.rec[i].clazz = c}

\* The first n of a list: what a loop from its head over the members of C
\* reaches before it has counted to n.
FirstOf(C, n) == {i \in C : Cardinality({j \in C : j < i}) < n}

\* Defect: only the total is adjusted, as if no removed event were selected.
OnRemoveTotalOnly(s, S) ==
    [s EXCEPT !.total = [c \in EventClass |-> @[c] - Cardinality(OfClass(s, S, c))]]

\* EventClassCounters::OnRemove, for every event of S.
OnRemove(s, S) ==
    [s EXCEPT !.selected = @ - Cardinality(S \cap InState(s, "selected")),
              !.written = [c \in EventClass |->
                  @[c] - Cardinality(OfClass(s, S \cap InState(s, "written"), c))],
              !.total = [c \in EventClass |-> @[c] - Cardinality(OfClass(s, S, c))]]

\* Defect: the typed record of a written event is not removed with it.
RemoveRecordOnly(s, S) ==
    [OnRemove(s, S) EXCEPT !.rec = [i \in Events(s) \ S |-> s.rec[i]],
                           !.typed = [t \in EventType |->
                               @[t] \ (S \ InState(s, "written"))]]

\* The events of S leave the aggregate list and the lists of their types.
Remove(s, S) ==
    [OnRemove(s, S) EXCEPT !.rec = [i \in Events(s) \ S |-> s.rec[i]],
                           !.typed = [t \in EventType |-> @[t] \ S]]

\* Defect: the record is not told its type.
AddUntyped(s, t, c) ==
    [s EXCEPT !.rec = [i \in Events(s) \cup {s.next} |->
                  IF i = s.next THEN [type |-> "none", clazz |-> c, state |-> "unselected"]
                  ELSE s.rec[i]],
              !.typed[t] = @ \cup {s.next},
              !.total[c] = @ + 1,
              !.next = @ + 1]

Add(s, t, c) ==
    [s EXCEPT !.rec = [i \in Events(s) \cup {s.next} |->
                  IF i = s.next THEN [type |-> t, clazz |-> c, state |-> "unselected"]
                  ELSE s.rec[i]],
              !.typed[t] = @ \cup {s.next},
              !.total[c] = @ + 1,
              !.next = @ + 1]

\* EventUpdate::Update: a full list makes space by dropping its oldest event,
\* whatever state that one is in.  A list without capacity records nothing.
Update(s, t, c) ==
    IF MaxEvents[t] = 0 THEN s
    ELSE IF IsFull(s, t) THEN Add(Remove(s, FirstOf(s.typed[t], 1)), t, c)
    ELSE Add(s, t, c)

\* EventUpdate::Update returns whether it had to drop an event.
Overflows(s, t) == MaxEvents[t] # 0 /\ IsFull(s, t)

SetState(s, S, st) ==
    [i \in Events(s) |-> IF i \in S THEN [s.rec[i] EXCEPT !.state = st] ELSE s.rec[i]]

Select(s, S) ==
    [s EXCEPT !.rec = SetState(s, S, "selected"), !.selected = @ + Cardinality(S)]

\* EventSelection: at most max of the events that are not selected yet, by the
\* list of one type or by a set of classes over the aggregate list.
SelectByType(s, t, max) ==
    Select(s, FirstOf(s.typed[t] \cap InState(s, "unselected"), max))
SelectByClass(s, classes, max) ==
    Select(s, FirstOf({i \in InState(s, "unselected") : s.rec[i].clazz \in classes}, max))

\* EventWriting::Write: the selected events from the head of the list on, as
\* many as the fragment has room for.  The loop also ends when the counter says
\* that nothing is selected.
Written(s, room) ==
    FirstOf(InState(s, "selected"), IF room < s.selected THEN room ELSE s.selected)
Write(s, room) ==
    LET W == Written(s, room) IN
    [s EXCEPT !.rec = SetState(s, W, "written"),
              !.selected = @ - Cardinality(W),
              !.written = [c \in EventClass |-> @[c] + Cardinality(OfClass(s, W, c))]]

\* Defect: a confirm also clears what was selected and not yet written.
ClearSelected(s) == Remove(s, InState(s, "written") \cup InState(s, "selected"))

ClearWritten(s) == Remove(s, InState(s, "written"))

\* Unselect, and EventClassCounters::ResetOnFail.
Unselect(s) ==
    [s EXCEPT !.rec = SetState(s, Events(s), "unselected"),
              !.selected = 0, !.written = NoCounts]

\* The difference of two uint32_t is positive exactly when they differ.
UnwrittenClassField(s) == {c \in EventClass : s.total[c] # s.written[c]}
HasAnySelection(s) == s.selected # 0
===============================================================================
