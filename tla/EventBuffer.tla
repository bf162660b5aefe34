------------------------------ MODULE EventBuffer ------------------------------
(***************************************************************************)
(* EventBuffer: the storage and the overflow flag behind the interfaces    *)
(* IEventReceiver, IEventSelector and IResponseLoader.  The database       *)
(* records events at any time; the outstation selects, loads, clears or    *)
(* unselects.  Here they may do so in every order.                         *)
(***************************************************************************)
EXTENDS EventStorage

CONSTANTS MaxRecorded    \* bound: events recorded in a behaviour

VARIABLES storage,
          overflow      \* EventBuffer::overflow

bufferVars == <<storage, overflow>>

BufferInit ==
    /\ storage = EmptyStorage
    /\ overflow = FALSE

UpdateAny(t, c) ==
    /\ storage.next < MaxRecorded
    /\ storage' = Update(storage, t, c)
    /\ overflow' = (overflow \/ Overflows(storage, t))

SelectType(t, max) ==
    /\ storage' = SelectByType(storage, t, max)
    /\ UNCHANGED overflow

SelectClass(classes, max) ==
    /\ storage' = SelectByClass(storage, classes, max)
    /\ UNCHANGED overflow

Load(room) ==
    /\ storage' = Write(storage, room)
    /\ UNCHANGED overflow

Clear ==
    /\ storage' = ClearWritten(storage)
    /\ UNCHANGED overflow

UnselectAll ==
    /\ storage' = Unselect(storage)
    /\ UNCHANGED overflow

\* IsOverflown forgets an overflow once every list has space again.  A list without
\* nodes never has (List::IsFull).
IsOverflown ==
    /\ overflow' = (overflow /\ IsAnyTypeFull(storage))
    /\ UNCHANGED storage

BufferNext ==
    \/ \E t \in EventType, c \in EventClass : UpdateAny(t, c)
    \/ \E t \in EventType, max \in 0 .. MaxRecorded : SelectType(t, max)
    \/ \E classes \in SUBSET EventClass, max \in 0 .. MaxRecorded : SelectClass(classes, max)
    \/ \E room \in 0 .. MaxRecorded : Load(room)
    \/ Clear
    \/ UnselectAll
    \/ IsOverflown

BufferSpec == BufferInit /\ [][BufferNext]_bufferVars

-------------------------------------------------------------------------------

\* The storage and the flag keep their types (EventBuffer, EventLists).
BufferTypeOK ==
    /\ EventStorageType(storage)
    /\ overflow \in BOOLEAN

\* The aggregate list and the lists by type hold the same events, no list
\* exceeds its capacity and no type with a free node finds the aggregate list
\* full: EventUpdate::Update dereferences the node that List::Add returns, and
\* EventStorage::ClearWritten removes from both lists.
ListsAgree ==
    \A t \in EventType :
       /\ storage.typed[t] = {i \in Events(storage) : storage.rec[i].type = t}
       /\ Cardinality(storage.typed[t]) <= MaxEvents[t]

\* The counters count the events of each class in each state, whichever events
\* an overflow has dropped since they were selected or written.  An unsigned
\* counter that went below zero would keep an unsolicited response or a
\* selection pending for ever.
CountersAgree ==
    /\ storage.selected = Cardinality(InState(storage, "selected"))
    /\ \A c \in EventClass :
          /\ storage.total[c] = Cardinality(OfClass(storage, Events(storage), c))
          /\ storage.written[c] = Cardinality(OfClass(storage, InState(storage, "written"), c))

\* An event leaves the buffer only when it was written to a response, or as the
\* oldest of a full list, and then the overflow is recorded for the master.
NoSilentLoss ==
    [][\A i \in Events(storage) \ Events(storage)' :
          \/ storage.rec[i].state = "written"
          \/ /\ overflow'
             /\ \A j \in Events(storage) :
                   storage.rec[j].type = storage.rec[i].type => i <= j]_bufferVars

===============================================================================
