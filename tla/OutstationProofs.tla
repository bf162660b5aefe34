---------------------------- MODULE OutstationProofs ----------------------------
(***************************************************************************)
(* What EventBuffer and Outstation keep for every database, every set of   *)
(* event types, every capacity (zero included), every set of requests and  *)
(* all bounds.                                                             *)
(*                                                                         *)
(* First part, EventStorage.  SInv of a storage is its type, the agreement *)
(* of the lists and the agreement of the counters.  None of the three is   *)
(* preserved without the others: an overflow looks up the event to drop in *)
(* the typed list and adjusts the counters by the state of its record.     *)
(*                                                                         *)
(* Second part, EventBuffer: SInv of its storage is inductive.             *)
(*                                                                         *)
(* Third part, Outstation.  CInv is about control: one transmission at a   *)
(* time, a timer for every wait, no command executed twice for one         *)
(* request.  DInv is about data: types, the storage in agreement with its  *)
(* counters (SInv), and what is written against what was sent.  Each is    *)
(* inductive by itself; the one relies on the order in which a handler     *)
(* calls the others, the second on what each of them does to the events.   *)
(***************************************************************************)
EXTENDS EventBuffer, Outstation, FiniteSetTheorems, TLAPS

-------------------------------------------------------------------------------
(* EventStorage.                                                            *)

Lists(s) ==
    \A t \in EventType :
       /\ s.typed[t] = {i \in Events(s) : s.rec[i].type = t}
       /\ Cardinality(s.typed[t]) <= MaxEvents[t]

Counters(s) ==
    /\ s.selected = Cardinality(InState(s, "selected"))
    /\ \A c \in EventClass :
          /\ s.total[c] = Cardinality(OfClass(s, Events(s), c))
          /\ s.written[c] = Cardinality(OfClass(s, InState(s, "written"), c))

SInv(s) == EventStorageType(s) /\ Lists(s) /\ Counters(s)

-------------------------------------------------------------------------------
\* Facts about sets of event numbers.

\* The events of a storage are finitely many, and so are their subsets.
LEMMA FiniteEvents ==
    ASSUME NEW s, EventStorageType(s), NEW S \in SUBSET Events(s)
    PROVE  IsFiniteSet(S) /\ Cardinality(S) \in Nat
<1>1. IsFiniteSet(0 .. s.next - 1)
  BY FS_Interval DEF EventStorageType
<1>2. S \in SUBSET (0 .. s.next - 1)
  BY DEF EventStorageType
<1>3. IsFiniteSet(S)
  BY <1>1, <1>2, FS_Subset
<1> QED
  BY <1>3, FS_CardinalityType

\* A loop over a list reaches only members of the list.
LEMMA FirstOfSubset ==
    ASSUME NEW C, NEW n
    PROVE  FirstOf(C, n) \subseteq C
BY DEF FirstOf

\* The first of a list is its oldest event, and there is one if it is not empty.
LEMMA FirstOfOne ==
    ASSUME NEW C \in SUBSET Nat, IsFiniteSet(C), C # {}
    PROVE  \E m \in C : FirstOf(C, 1) = {m} /\ \A j \in C : m <= j
<1>1. PICK m \in C : \A y \in C : ~ (<<y, m>> \in OpToRel(<, Nat))
  <2> HIDE DEF OpToRel
  <2> QED BY NatLessThanWellFounded, WFMin, Zenon
<1>2. \A y \in C : ~(y < m)
  BY <1>1 DEF OpToRel
<1>3. \A j \in C : m <= j
  BY <1>2
<1>4. {j \in C : j < m} = {}
  BY <1>2
<1>5. m \in FirstOf(C, 1)
  BY <1>4, FS_EmptySet DEF FirstOf
<1>6. ASSUME NEW i \in FirstOf(C, 1), i # m
      PROVE  FALSE
  <2> DEFINE B == {j \in C : j < i}
  <2>1. i \in C /\ Cardinality(B) < 1
    BY <1>6 DEF FirstOf
  <2>2. m \in B
    BY <1>3, <1>6, <2>1
  <2>3. IsFiniteSet(B)
    <3>1. B \in SUBSET C OBVIOUS
    <3> QED BY <3>1, FS_Subset
  <2>4. Cardinality(B) \in Nat /\ Cardinality(B) # 0
    BY <2>2, <2>3, FS_EmptySet, FS_CardinalityType
  <2> QED BY <2>1, <2>4
<1> QED
  BY <1>3, <1>5, <1>6

\* Cardinalities of a difference and of a disjoint union.
LEMMA CardMinus ==
    ASSUME NEW T, IsFiniteSet(T), NEW S \in SUBSET T
    PROVE  /\ Cardinality(T \ S) = Cardinality(T) - Cardinality(S)
           /\ Cardinality(T) \in Nat /\ Cardinality(S) \in Nat
<1>1. T \cap S = S
  OBVIOUS
<1>2. IsFiniteSet(S)
  BY FS_Subset
<1> QED
  BY <1>1, <1>2, FS_Difference, FS_CardinalityType

LEMMA CardPlus ==
    ASSUME NEW T, IsFiniteSet(T), NEW S, IsFiniteSet(S), T \cap S = {}
    PROVE  /\ Cardinality(T \cup S) = Cardinality(T) + Cardinality(S)
           /\ Cardinality(T) \in Nat /\ Cardinality(S) \in Nat
<1>1. Cardinality(T \cap S) = 0
  BY FS_EmptySet
<1> QED
  BY <1>1, FS_Union, FS_CardinalityType

-------------------------------------------------------------------------------
\* The operations on a storage.

\* Removing events from both lists, and from the counters by their states,
\* keeps lists and counters in agreement.
LEMMA RemoveInv ==
    ASSUME NEW s, SInv(s), NEW S \in SUBSET Events(s)
    PROVE  SInv(Remove(s, S))
<1> DEFINE r == Remove(s, S)
<1>0. EventStorageType(s)
  BY DEF SInv
<1>f. /\ DOMAIN r = DOMAIN s
      /\ r.rec = [i \in Events(s) \ S |-> s.rec[i]]
      /\ r.typed = [t \in EventType |-> s.typed[t] \ S]
      /\ r.next = s.next
      /\ r.selected = s.selected - Cardinality(S \cap InState(s, "selected"))
      /\ r.written = [c \in EventClass |->
            s.written[c] - Cardinality(OfClass(s, S \cap InState(s, "written"), c))]
      /\ r.total = [c \in EventClass |-> s.total[c] - Cardinality(OfClass(s, S, c))]
  BY <1>0 DEF Remove, OnRemove, EventStorageType
<1> HIDE DEF r
<1>p. \A c \in EventClass :
         /\ r.written[c] = s.written[c]
                           - Cardinality(OfClass(s, S \cap InState(s, "written"), c))
         /\ r.total[c] = s.total[c] - Cardinality(OfClass(s, S, c))
  BY <1>f
<1>e. Events(r) = Events(s) \ S /\ \A i \in Events(r) : r.rec[i] = s.rec[i]
  BY <1>f DEF Events
<1>c. \A U \in SUBSET Events(s) : Cardinality(U) \in Nat
  BY <1>0, FiniteEvents
<1>i. /\ S \cap InState(s, "selected") \in SUBSET Events(s)
      /\ \A c \in EventClass : /\ OfClass(s, S \cap InState(s, "written"), c) \in SUBSET Events(s)
                               /\ OfClass(s, S, c) \in SUBSET Events(s)
  BY DEF InState, OfClass
<1>1. EventStorageType(r)
  <2>1. r.rec \in [Events(r) -> EventRecord]
    BY <1>0, <1>e, <1>f DEF EventStorageType
  <2>2. r.typed \in [EventType -> SUBSET (0 .. r.next - 1)]
    BY <1>0, <1>f DEF EventStorageType
  <2>3. r.selected \in Int
    BY <1>0, <1>c, <1>f, <1>i DEF EventStorageType
  <2>4. r.written \in [EventClass -> Int] /\ r.total \in [EventClass -> Int]
    <3> DEFINE wr(c) == s.written[c]
                        - Cardinality(OfClass(s, S \cap InState(s, "written"), c))
               tot(c) == s.total[c] - Cardinality(OfClass(s, S, c))
    <3>1. ASSUME NEW c \in EventClass
          PROVE  wr(c) \in Int /\ tot(c) \in Int
      <4>1. /\ Cardinality(OfClass(s, S \cap InState(s, "written"), c)) \in Nat
            /\ Cardinality(OfClass(s, S, c)) \in Nat
        BY <1>c, <1>i
      <4>2. s.written[c] \in Int /\ s.total[c] \in Int
        BY <1>0 DEF EventStorageType
      <4> QED
        BY <4>1, <4>2
    <3>2. \A c \in EventClass : r.written[c] = wr(c) /\ r.total[c] = tot(c)
      BY <1>p
    <3>3. DOMAIN r.written = EventClass /\ DOMAIN r.total = EventClass
      BY <1>f
    <3>4. /\ r.written = [c \in DOMAIN r.written |-> r.written[c]]
          /\ r.total = [c \in DOMAIN r.total |-> r.total[c]]
      BY <1>f
    <3> HIDE DEF wr, tot
    <3> QED
      BY <3>1, <3>2, <3>3, <3>4
  <2> QED
    BY <1>0, <1>e, <1>f, <2>1, <2>2, <2>3, <2>4 DEF EventStorageType
<1>2. Lists(r)
  <2> SUFFICES ASSUME NEW t \in EventType
               PROVE  /\ r.typed[t] = {i \in Events(r) : r.rec[i].type = t}
                      /\ Cardinality(r.typed[t]) <= MaxEvents[t]
    BY DEF Lists
  <2>1. s.typed[t] = {i \in Events(s) : s.rec[i].type = t} /\ Cardinality(s.typed[t]) <= MaxEvents[t]
    BY DEF SInv, Lists
  <2>2. r.typed[t] = s.typed[t] \ S
    BY <1>f
  <2>3. r.typed[t] = {i \in Events(r) : r.rec[i].type = t}
    BY <1>e, <2>1, <2>2
  <2>4. IsFiniteSet(s.typed[t]) /\ Cardinality(s.typed[t]) \in Nat
    BY <1>0, <2>1, FiniteEvents
  <2>5. r.typed[t] \in SUBSET s.typed[t]
    BY <2>2
  <2>6. Cardinality(r.typed[t]) <= Cardinality(s.typed[t]) /\ Cardinality(r.typed[t]) \in Nat
    BY <2>4, <2>5, FS_Subset, FS_CardinalityType
  <2> QED
    BY <2>1, <2>3, <2>4, <2>6, MaxEventsAssumption
<1>3. Counters(r)
  <2>1. r.selected = Cardinality(InState(r, "selected"))
    <3>1. InState(r, "selected") = InState(s, "selected") \ (S \cap InState(s, "selected"))
      BY <1>e DEF InState
    <3>2. IsFiniteSet(InState(s, "selected"))
      BY <1>0, FiniteEvents DEF InState
    <3>3. S \cap InState(s, "selected") \in SUBSET InState(s, "selected")
      OBVIOUS
    <3> QED
      BY <1>f, <3>1, <3>2, <3>3, CardMinus DEF SInv, Counters
  <2>2. ASSUME NEW c \in EventClass
        PROVE  r.total[c] = Cardinality(OfClass(r, Events(r), c))
    <3>1. OfClass(r, Events(r), c) = OfClass(s, Events(s), c) \ OfClass(s, S, c)
      BY <1>e DEF OfClass
    <3>2. IsFiniteSet(OfClass(s, Events(s), c))
      BY <1>0, FiniteEvents DEF OfClass
    <3>3. OfClass(s, S, c) \in SUBSET OfClass(s, Events(s), c)
      BY DEF OfClass
    <3> QED
      BY <1>f, <3>1, <3>2, <3>3, CardMinus DEF SInv, Counters
  <2>3. ASSUME NEW c \in EventClass
        PROVE  r.written[c] = Cardinality(OfClass(r, InState(r, "written"), c))
    <3> DEFINE W == InState(s, "written")
    <3>1. OfClass(r, InState(r, "written"), c) = OfClass(s, W, c) \ OfClass(s, S \cap W, c)
      BY <1>e DEF OfClass, InState
    <3>2. IsFiniteSet(OfClass(s, W, c))
      BY <1>0, FiniteEvents DEF OfClass, InState
    <3>3. OfClass(s, S \cap W, c) \in SUBSET OfClass(s, W, c)
      BY DEF OfClass
    <3>4. s.written[c] = Cardinality(OfClass(s, W, c))
      BY DEF SInv, Counters
    <3>5. r.written[c] = s.written[c] - Cardinality(OfClass(s, S \cap W, c))
      BY <1>p
    <3> QED
      BY <3>1, <3>2, <3>3, <3>4, <3>5, CardMinus
  <2> QED
    BY <2>1, <2>2, <2>3 DEF Counters
<1> QED
  BY <1>1, <1>2, <1>3 DEF SInv, r

\* The new event is in the aggregate list, in the list of its type and in the
\* total of its class; the list had space for it.
LEMMA AddInv ==
    ASSUME NEW s, SInv(s), NEW t \in EventType, NEW c \in EventClass, ~IsFull(s, t)
    PROVE  SInv(Add(s, t, c))
<1> DEFINE r == Add(s, t, c)
           n == s.next
           new == [type |-> t, clazz |-> c, state |-> "unselected"]
<1>0. EventStorageType(s)
  BY DEF SInv
<1>f. /\ DOMAIN r = DOMAIN s
      /\ r.rec = [i \in Events(s) \cup {n} |-> IF i = n THEN new ELSE s.rec[i]]
      /\ r.typed = [s.typed EXCEPT ![t] = @ \cup {n}]
      /\ r.next = n + 1
      /\ r.selected = s.selected
      /\ r.written = s.written
      /\ r.total = [s.total EXCEPT ![c] = @ + 1]
  BY <1>0 DEF Add, EventStorageType
<1> HIDE DEF r
<1>n. n \in Nat /\ n \notin Events(s) /\ \A u \in EventType : n \notin s.typed[u]
  BY <1>0 DEF EventStorageType
<1>e. /\ Events(r) = Events(s) \cup {n}
      /\ r.rec[n] = new
      /\ \A i \in Events(s) : r.rec[i] = s.rec[i]
  BY <1>f, <1>n DEF Events
<1>1. EventStorageType(r)
  <2>1. r.rec \in [Events(r) -> EventRecord]
    <3>1. new \in EventRecord
      BY DEF EventRecord, EventState
    <3>2. \A i \in Events(r) : r.rec[i] \in EventRecord
      BY <1>0, <1>e, <3>1 DEF EventStorageType
    <3> QED
      BY <1>e, <1>f, <3>2
  <2>2. r.typed \in [EventType -> SUBSET (0 .. r.next - 1)]
    BY <1>0, <1>f, <1>n DEF EventStorageType
  <2>3. Events(r) \subseteq 0 .. r.next - 1
    BY <1>0, <1>e, <1>f, <1>n DEF EventStorageType
  <2> QED
    BY <1>0, <1>f, <1>n, <2>1, <2>2, <2>3 DEF EventStorageType
<1>2. Lists(r)
  <2> SUFFICES ASSUME NEW u \in EventType
               PROVE  /\ r.typed[u] = {i \in Events(r) : r.rec[i].type = u}
                      /\ Cardinality(r.typed[u]) <= MaxEvents[u]
    BY DEF Lists
  <2>1. s.typed[u] = {i \in Events(s) : s.rec[i].type = u} /\ Cardinality(s.typed[u]) <= MaxEvents[u]
    BY DEF SInv, Lists
  <2>2. IsFiniteSet(s.typed[u]) /\ Cardinality(s.typed[u]) \in Nat
    BY <1>0, <2>1, FiniteEvents
  <2>3. CASE u = t
    <3>1. r.typed[u] = s.typed[u] \cup {n}
      BY <1>0, <1>f, <2>3 DEF EventStorageType
    <3>2. Cardinality(r.typed[u]) = Cardinality(s.typed[u]) + 1
      BY <1>n, <2>2, <3>1, FS_AddElement
    <3>3. Cardinality(s.typed[u]) < MaxEvents[u]
      BY <2>2, <2>3, MaxEventsAssumption DEF IsFull
    <3>4. r.typed[u] = {i \in Events(r) : r.rec[i].type = u}
      BY <1>e, <2>1, <2>3, <3>1
    <3> QED
      BY <2>2, <3>2, <3>3, <3>4, MaxEventsAssumption
  <2>4. CASE u # t
    <3>1. r.typed[u] = s.typed[u]
      BY <1>0, <1>f, <2>4 DEF EventStorageType
    <3> QED
      BY <1>e, <2>1, <2>4, <3>1
  <2> QED
    BY <2>3, <2>4
<1>3. Counters(r)
  <2>1. InState(r, "selected") = InState(s, "selected") /\ InState(r, "written") = InState(s, "written")
    BY <1>e, <1>n DEF InState
  <2>2. ASSUME NEW d \in EventClass
        PROVE  r.written[d] = Cardinality(OfClass(r, InState(r, "written"), d))
    <3>1. OfClass(r, InState(r, "written"), d) = OfClass(s, InState(s, "written"), d)
      BY <1>e, <2>1 DEF OfClass, InState
    <3> QED
      BY <1>f, <3>1 DEF SInv, Counters
  <2>3. ASSUME NEW d \in EventClass
        PROVE  r.total[d] = Cardinality(OfClass(r, Events(r), d))
    <3>0. IsFiniteSet(OfClass(s, Events(s), d)) /\ n \notin OfClass(s, Events(s), d)
      BY <1>0, <1>n, FiniteEvents DEF OfClass
    <3>1. CASE d = c
      <4>1. OfClass(r, Events(r), d) = OfClass(s, Events(s), d) \cup {n}
        BY <1>e, <3>1 DEF OfClass
      <4>2. r.total[d] = s.total[d] + 1
        BY <1>0, <1>f, <3>1 DEF EventStorageType
      <4> QED
        BY <3>0, <4>1, <4>2, FS_AddElement DEF SInv, Counters
    <3>2. CASE d # c
      <4>1. OfClass(r, Events(r), d) = OfClass(s, Events(s), d)
        BY <1>e, <3>2 DEF OfClass
      <4>2. r.total[d] = s.total[d]
        BY <1>0, <1>f, <3>2 DEF EventStorageType
      <4> QED
        BY <4>1, <4>2 DEF SInv, Counters
    <3> QED
      BY <3>1, <3>2
  <2> QED
    BY <1>f, <2>1, <2>2, <2>3 DEF Counters, SInv
<1> QED
  BY <1>1, <1>2, <1>3 DEF SInv, r

\* r is s with the events of S put into the state st.
StatesChanged(s, S, st, r) ==
    /\ DOMAIN r = DOMAIN s /\ r.next = s.next /\ r.typed = s.typed /\ r.total = s.total
    /\ r.rec = SetState(s, S, st)

\* What such a change does to the events, the lists and the totals.
OnlyStates(s, S, st, r) ==
    /\ Events(r) = Events(s)
    /\ \A i \in Events(s) : /\ r.rec[i].clazz = s.rec[i].clazz
                            /\ r.rec[i].state = IF i \in S THEN st ELSE s.rec[i].state
    /\ r.rec \in [Events(r) -> EventRecord]
    /\ Lists(r)
    /\ \A c \in EventClass : r.total[c] = Cardinality(OfClass(r, Events(r), c))
    /\ \A c \in EventClass, U \in SUBSET Events(s) : OfClass(r, U, c) = OfClass(s, U, c)

\* A change of the records' states alone keeps the lists.
LEMMA SetStateFacts ==
    ASSUME NEW s, SInv(s), NEW S \in SUBSET Events(s), NEW st \in EventState,
           NEW r, StatesChanged(s, S, st, r)
    PROVE  OnlyStates(s, S, st, r)
<1>0. EventStorageType(s)
  BY DEF SInv
<1>1. Events(r) = Events(s)
  BY DEF Events, SetState, StatesChanged
<1>2. \A i \in Events(s) : s.rec[i] \in EventRecord
  BY <1>0 DEF EventStorageType
<1>3. \A i \in Events(s) :
         r.rec[i] = IF i \in S THEN [s.rec[i] EXCEPT !.state = st] ELSE s.rec[i]
  BY DEF SetState, Events, StatesChanged
<1>4. \A i \in Events(s) : /\ r.rec[i].clazz = s.rec[i].clazz
                           /\ r.rec[i].type = s.rec[i].type
                           /\ r.rec[i].state = IF i \in S THEN st ELSE s.rec[i].state
                           /\ r.rec[i] \in EventRecord
  BY <1>2, <1>3 DEF EventRecord
<1>5. r.rec \in [Events(r) -> EventRecord]
  <2>1. r.rec = [i \in Events(s) |-> r.rec[i]]
    BY DEF SetState, StatesChanged
  <2> QED
    BY <1>1, <1>4, <2>1
<1>6. Lists(r)
  <2>1. \A t \in EventType : {i \in Events(r) : r.rec[i].type = t} = {i \in Events(s) : s.rec[i].type = t}
    BY <1>1, <1>4
  <2> QED
    BY <2>1 DEF SInv, Lists, StatesChanged
<1>7. \A c \in EventClass, U \in SUBSET Events(s) : OfClass(r, U, c) = OfClass(s, U, c)
  BY <1>4 DEF OfClass
<1>8. \A c \in EventClass : r.total[c] = Cardinality(OfClass(r, Events(r), c))
  BY <1>1, <1>7 DEF SInv, Counters, StatesChanged
<1> QED
  BY <1>1, <1>4, <1>5, <1>6, <1>7, <1>8 DEF OnlyStates

\* Selecting events that were not selected counts each of them once.
LEMMA SelectInv ==
    ASSUME NEW s, SInv(s), NEW S \in SUBSET InState(s, "unselected")
    PROVE  SInv(Select(s, S)) /\ Select(s, S).typed = s.typed /\ Events(Select(s, S)) = Events(s)
<1> DEFINE r == Select(s, S)
<1>0. EventStorageType(s) /\ S \in SUBSET Events(s) /\ "selected" \in EventState
  BY DEF SInv, InState, EventState
<1>f. /\ DOMAIN r = DOMAIN s /\ r.next = s.next /\ r.typed = s.typed /\ r.total = s.total
      /\ r.written = s.written
      /\ r.rec = SetState(s, S, "selected")
      /\ r.selected = s.selected + Cardinality(S)
  BY <1>0 DEF Select, EventStorageType
<1> HIDE DEF r
<1>1. /\ Events(r) = Events(s)
      /\ \A i \in Events(s) : /\ r.rec[i].clazz = s.rec[i].clazz
                              /\ r.rec[i].state = IF i \in S THEN "selected" ELSE s.rec[i].state
      /\ r.rec \in [Events(r) -> EventRecord]
      /\ Lists(r)
      /\ \A c \in EventClass : r.total[c] = Cardinality(OfClass(r, Events(r), c))
      /\ \A c \in EventClass, U \in SUBSET Events(s) : OfClass(r, U, c) = OfClass(s, U, c)
  <2>1. StatesChanged(s, S, "selected", r)
    BY <1>f DEF StatesChanged
  <2>2. OnlyStates(s, S, "selected", r)
    BY <1>0, <2>1, SetStateFacts
  <2> QED
    BY <2>2 DEF OnlyStates
<1>2. /\ IsFiniteSet(S) /\ IsFiniteSet(InState(s, "selected")) /\ Cardinality(S) \in Nat
      /\ S \cap InState(s, "selected") = {}
  BY <1>0, FiniteEvents DEF InState
<1>3. InState(r, "selected") = InState(s, "selected") \cup S
  BY <1>0, <1>1 DEF InState
<1>4. r.selected = Cardinality(InState(r, "selected"))
  BY <1>2, <1>3, <1>f, CardPlus DEF SInv, Counters
<1>5. InState(r, "written") = InState(s, "written")
  BY <1>0, <1>1 DEF InState
<1>6. \A c \in EventClass : r.written[c] = Cardinality(OfClass(r, InState(r, "written"), c))
  BY <1>1, <1>5, <1>f DEF SInv, Counters, InState
<1>7. EventStorageType(r)
  BY <1>0, <1>1, <1>2, <1>f DEF EventStorageType
<1> QED
  BY <1>1, <1>4, <1>6, <1>7, <1>f DEF SInv, Counters, r

\* Writing moves events from one counter to the other.
LEMMA WriteInv ==
    ASSUME NEW s, SInv(s), NEW room
    PROVE  /\ SInv(Write(s, room))
           /\ Write(s, room).typed = s.typed
           /\ Events(Write(s, room)) = Events(s)
<1> DEFINE r == Write(s, room)
           W == Written(s, room)
           P == InState(s, "written")
<1>0. EventStorageType(s) /\ "written" \in EventState
  BY DEF SInv, EventState
<1>w. W \in SUBSET InState(s, "selected") /\ W \in SUBSET Events(s) /\ P \in SUBSET Events(s)
  BY FirstOfSubset DEF Written, InState
<1>f. /\ DOMAIN r = DOMAIN s /\ r.next = s.next /\ r.typed = s.typed /\ r.total = s.total
      /\ r.rec = SetState(s, W, "written")
      /\ r.selected = s.selected - Cardinality(W)
      /\ r.written = [c \in EventClass |-> s.written[c] + Cardinality(OfClass(s, W, c))]
  BY <1>0 DEF Write, EventStorageType
<1> HIDE DEF r, W
<1>1. /\ Events(r) = Events(s)
      /\ \A i \in Events(s) : /\ r.rec[i].clazz = s.rec[i].clazz
                              /\ r.rec[i].state = IF i \in W THEN "written" ELSE s.rec[i].state
      /\ r.rec \in [Events(r) -> EventRecord]
      /\ Lists(r)
      /\ \A c \in EventClass : r.total[c] = Cardinality(OfClass(r, Events(r), c))
      /\ \A c \in EventClass, U \in SUBSET Events(s) : OfClass(r, U, c) = OfClass(s, U, c)
  <2>1. StatesChanged(s, W, "written", r)
    BY <1>f DEF StatesChanged
  <2>2. OnlyStates(s, W, "written", r)
    BY <1>0, <1>w, <2>1, SetStateFacts
  <2> QED
    BY <2>2 DEF OnlyStates
<1>2. IsFiniteSet(InState(s, "selected")) /\ Cardinality(W) \in Nat
  BY <1>0, <1>w, FiniteEvents DEF InState
<1>3. InState(r, "selected") = InState(s, "selected") \ W
  BY <1>1, <1>w DEF InState
<1>4. r.selected = Cardinality(InState(r, "selected"))
  BY <1>2, <1>3, <1>f, <1>w, CardMinus DEF SInv, Counters
<1>5. InState(r, "written") = P \cup W
  BY <1>1, <1>w DEF InState
<1>6. ASSUME NEW c \in EventClass
      PROVE  /\ r.written[c] = Cardinality(OfClass(r, InState(r, "written"), c))
             /\ r.written[c] \in Int
  <2>1. OfClass(r, InState(r, "written"), c) = OfClass(s, P, c) \cup OfClass(s, W, c)
    BY <1>1, <1>5, <1>w DEF OfClass
  <2>2. OfClass(s, P, c) \cap OfClass(s, W, c) = {}
    BY <1>w DEF OfClass, InState
  <2>3. IsFiniteSet(OfClass(s, P, c)) /\ IsFiniteSet(OfClass(s, W, c))
    <3>1. OfClass(s, P, c) \in SUBSET Events(s) /\ OfClass(s, W, c) \in SUBSET Events(s)
      BY <1>w DEF OfClass
    <3> QED
      BY <1>0, <3>1, FiniteEvents
  <2>4. s.written[c] = Cardinality(OfClass(s, P, c))
    BY DEF SInv, Counters
  <2>5. r.written[c] = s.written[c] + Cardinality(OfClass(s, W, c))
    BY <1>f
  <2> QED
    BY <2>1, <2>2, <2>3, <2>4, <2>5, CardPlus
<1>7. r.written \in [EventClass -> Int]
  <2>1. r.written = [c \in DOMAIN r.written |-> r.written[c]] /\ DOMAIN r.written = EventClass
    BY <1>f
  <2> QED
    BY <1>6, <2>1
<1>8. EventStorageType(r)
  BY <1>0, <1>1, <1>2, <1>7, <1>f DEF EventStorageType
<1> QED
  BY <1>1, <1>4, <1>6, <1>8, <1>f DEF SInv, Counters, r

\* Unselecting clears both counters and leaves no event in either state.
LEMMA UnselectInv ==
    ASSUME NEW s, SInv(s)
    PROVE  /\ SInv(Unselect(s))
           /\ Unselect(s).typed = s.typed
           /\ Events(Unselect(s)) = Events(s)
<1> DEFINE r == Unselect(s)
<1>0. EventStorageType(s) /\ "unselected" \in EventState
  BY DEF SInv, EventState
<1>f. /\ DOMAIN r = DOMAIN s /\ r.next = s.next /\ r.typed = s.typed /\ r.total = s.total
      /\ r.rec = SetState(s, Events(s), "unselected")
      /\ r.selected = 0
      /\ r.written = NoCounts
  BY <1>0 DEF Unselect, EventStorageType
<1> HIDE DEF r
<1>a. PICK S \in SUBSET Events(s) : S = Events(s) /\ r.rec = SetState(s, S, "unselected")
  BY <1>f
<1>b. /\ DOMAIN r = DOMAIN s /\ r.next = s.next /\ r.typed = s.typed /\ r.total = s.total
  BY <1>f
<1>c. /\ Events(r) = Events(s)
      /\ \A i \in Events(s) : /\ r.rec[i].clazz = s.rec[i].clazz
                              /\ r.rec[i].state = IF i \in S THEN "unselected" ELSE s.rec[i].state
      /\ r.rec \in [Events(r) -> EventRecord]
      /\ Lists(r)
      /\ \A c \in EventClass : r.total[c] = Cardinality(OfClass(r, Events(r), c))
      /\ \A c \in EventClass, U \in SUBSET Events(s) : OfClass(r, U, c) = OfClass(s, U, c)
  <2>1. StatesChanged(s, S, "unselected", r)
    BY <1>a, <1>b DEF StatesChanged
  <2>2. OnlyStates(s, S, "unselected", r)
    BY <1>0, <2>1, SetStateFacts
  <2> QED
    BY <2>2 DEF OnlyStates
<1>1. /\ Events(r) = Events(s)
      /\ \A i \in Events(s) : r.rec[i].state = "unselected"
      /\ r.rec \in [Events(r) -> EventRecord]
      /\ Lists(r)
      /\ \A c \in EventClass : r.total[c] = Cardinality(OfClass(r, Events(r), c))
  BY <1>a, <1>c
<1>2. InState(r, "selected") = {} /\ InState(r, "written") = {}
  BY <1>1 DEF InState
<1>3. \A c \in EventClass : OfClass(r, InState(r, "written"), c) = {}
  BY <1>2 DEF OfClass
<1>4. Counters(r)
  BY <1>1, <1>2, <1>3, <1>f, FS_EmptySet DEF Counters, NoCounts
<1>5. EventStorageType(r)
  BY <1>0, <1>1, <1>f DEF EventStorageType, NoCounts
<1> QED
  BY <1>1, <1>4, <1>5, <1>f DEF SInv, r

\* What a full list drops: its oldest event.
LEMMA DroppedIsOldest ==
    ASSUME NEW s, SInv(s), NEW t \in EventType, Overflows(s, t)
    PROVE  \E m \in s.typed[t] : /\ FirstOf(s.typed[t], 1) = {m}
                                 /\ m \in Events(s)
                                 /\ \A j \in Events(s) : s.rec[j].type = t => m <= j
                                 /\ s.rec[m].type = t
<1> DEFINE C == s.typed[t]
<1>1. /\ EventStorageType(s)
      /\ C = {i \in Events(s) : s.rec[i].type = t} /\ C \in SUBSET Events(s)
  BY DEF SInv, Lists
<1>2. IsFiniteSet(C) /\ C \in SUBSET Nat
  BY <1>1, FiniteEvents DEF EventStorageType
<1>3. C # {}
  BY <1>2, FS_EmptySet, MaxEventsAssumption DEF Overflows, IsFull
<1> HIDE DEF C
<1>4. PICK m \in C : FirstOf(C, 1) = {m} /\ \A j \in C : m <= j
  BY <1>2, <1>3, FirstOfOne
<1> QED
  BY <1>1, <1>4 DEF C

LEMMA UpdateInv ==
    ASSUME NEW s, SInv(s), NEW t \in EventType, NEW c \in EventClass
    PROVE  SInv(Update(s, t, c))
<1>1. CASE MaxEvents[t] = 0
  BY <1>1 DEF Update
<1>2. CASE MaxEvents[t] # 0 /\ ~IsFull(s, t)
  BY <1>2, AddInv DEF Update
<1>3. CASE Overflows(s, t)
  <2>1. PICK m \in s.typed[t] : FirstOf(s.typed[t], 1) = {m} /\ m \in Events(s)
    BY <1>3, DroppedIsOldest
  <2> DEFINE r == Remove(s, {m})
  <2>2. SInv(r)
    BY <2>1, RemoveInv
  <2>3. EventStorageType(s) /\ s.typed[t] \in SUBSET Events(s) /\ Cardinality(s.typed[t]) <= MaxEvents[t]
    BY DEF SInv, Lists
  <2>4. r.typed[t] = s.typed[t] \ {m}
    BY <2>3 DEF Remove, OnRemove, EventStorageType
  <2>5. ~IsFull(r, t)
    <3>1. IsFiniteSet(s.typed[t]) /\ Cardinality(s.typed[t]) \in Nat
      BY <2>3, FiniteEvents
    <3> HIDE DEF r
    <3>2. Cardinality(r.typed[t]) = Cardinality(s.typed[t]) - 1
      <4> DEFINE T == s.typed[t]
      <4>1. m \in T /\ IsFiniteSet(T) /\ r.typed[t] = T \ {m}
        BY <2>1, <2>4, <3>1
      <4> HIDE DEF T
      <4>2. Cardinality(T \ {m}) = Cardinality(T) - 1
        BY <4>1, FS_RemoveElement
      <4> QED
        BY <4>1, <4>2 DEF T
    <3>3. MaxEvents[t] \in Nat
      BY MaxEventsAssumption
    <3> QED
      BY <2>3, <3>1, <3>2, <3>3 DEF IsFull
  <2>6. Update(s, t, c) = Add(r, t, c)
    BY <1>3, <2>1 DEF Update, Overflows
  <2> QED
    BY <2>2, <2>5, <2>6, AddInv
<1> QED
  BY <1>1, <1>2, <1>3 DEF Overflows

\* An empty storage: no event, and every counter zero.
LEMMA EmptyInv == SInv(EmptyStorage)
<1> DEFINE empty == EmptyStorage
<1>1. /\ empty = EmptyStorage /\ DOMAIN empty.rec = {}
      /\ \A t \in EventType : empty.typed[t] = {}
  BY DEF EmptyStorage
<1>2. EventStorageType(empty)
  <2>1. /\ DOMAIN empty = {"rec", "typed", "next", "total", "written", "selected"}
        /\ empty.next = 0 /\ empty.selected = 0
        /\ empty.rec = [i \in {} |-> {}]
        /\ empty.typed = [t \in EventType |-> {}]
        /\ empty.total = NoCounts /\ empty.written = NoCounts
    BY <1>1 DEF EmptyStorage
  <2>2. Events(empty) = {} /\ empty.rec \in [Events(empty) -> EventRecord]
    BY <2>1 DEF Events
  <2>3. NoCounts \in [EventClass -> Int]
    BY DEF NoCounts
  <2> QED
    BY <2>1, <2>2, <2>3 DEF EventStorageType
<1>3. Lists(empty)
  <2> SUFFICES ASSUME NEW t \in EventType
               PROVE  /\ empty.typed[t] = {i \in Events(empty) : empty.rec[i].type = t}
                      /\ Cardinality(empty.typed[t]) <= MaxEvents[t]
    BY DEF Lists
  <2>1. {i \in Events(empty) : empty.rec[i].type = t} = {} /\ empty.typed[t] = {}
    BY <1>1 DEF Events
  <2>2. MaxEvents[t] \in Nat /\ Cardinality({}) = 0
    BY MaxEventsAssumption, FS_EmptySet
  <2> QED
    BY <2>1, <2>2
<1>4. /\ InState(empty, "selected") = {}
      /\ \A c \in EventClass : /\ OfClass(empty, Events(empty), c) = {}
                               /\ OfClass(empty, InState(empty, "written"), c) = {}
  BY <1>1 DEF InState, OfClass, Events
<1>5. Counters(empty)
  BY <1>1, <1>4, FS_EmptySet DEF Counters, EmptyStorage, NoCounts
<1> QED
  BY <1>2, <1>3, <1>5 DEF SInv

\* What a selection selects was not selected before.
LEMMA SelectionsUnselected ==
    ASSUME NEW s, SInv(s), NEW max
    PROVE  /\ \A t \in EventType :
                 FirstOf(s.typed[t] \cap InState(s, "unselected"), max)
                     \in SUBSET InState(s, "unselected")
           /\ \A classes :
                 FirstOf({i \in InState(s, "unselected") : s.rec[i].clazz \in classes}, max)
                     \in SUBSET InState(s, "unselected")
BY FirstOfSubset

\* What an update removes from the lists is the oldest event of a full list.
LEMMA UpdateRemoves ==
    ASSUME NEW s, SInv(s), NEW t \in EventType, NEW c \in EventClass,
           NEW i \in Events(s) \ Events(Update(s, t, c))
    PROVE  /\ Overflows(s, t)
           /\ \A j \in Events(s) : s.rec[j].type = s.rec[i].type => i <= j
<1>1. \A r : DOMAIN r = DOMAIN s => Events(Add(r, t, c)) = Events(r) \cup {r.next}
  BY DEF Add, Events, SInv, EventStorageType
<1>2. Overflows(s, t)
  BY <1>1 DEF Update, Overflows
<1>3. PICK m \in s.typed[t] : /\ FirstOf(s.typed[t], 1) = {m}
                              /\ \A j \in Events(s) : s.rec[j].type = t => m <= j
                              /\ s.rec[m].type = t
  BY <1>2, DroppedIsOldest
<1>4. Update(s, t, c) = Add(Remove(s, {m}), t, c)
  BY <1>2, <1>3 DEF Update, Overflows
<1>5. DOMAIN Remove(s, {m}) = DOMAIN s /\ Events(Remove(s, {m})) = Events(s) \ {m}
  BY DEF Remove, OnRemove, Events, SInv, EventStorageType
<1>6. i = m
  BY <1>1, <1>4, <1>5
<1> QED
  BY <1>2, <1>3, <1>6

-------------------------------------------------------------------------------
\* What is written after each operation.

LEMMA SelectByClassInv ==
    ASSUME NEW s, SInv(s), NEW classes, NEW max
    PROVE  /\ SInv(SelectByClass(s, classes, max))
           /\ InState(SelectByClass(s, classes, max), "written") = InState(s, "written")
<1> DEFINE S == FirstOf({i \in InState(s, "unselected") : s.rec[i].clazz \in classes}, max)
           r == Select(s, S)
<1>1. S \in SUBSET InState(s, "unselected")
  BY SelectionsUnselected
<1> HIDE DEF S
<1>2. SInv(r) /\ Events(r) = Events(s)
  BY <1>1, SelectInv
<1>3. \A i \in Events(s) :
         r.rec[i] = IF i \in S THEN [s.rec[i] EXCEPT !.state = "selected"] ELSE s.rec[i]
  BY DEF Select, SetState, SInv, EventStorageType
<1>4. \A i \in Events(s) : s.rec[i] \in EventRecord
  BY DEF SInv, EventStorageType
<1>5. \A i \in Events(s) : r.rec[i].state = "written" <=> s.rec[i].state = "written"
  BY <1>1, <1>3, <1>4 DEF InState, EventRecord
<1> HIDE DEF r
<1>6. InState(r, "written") = InState(s, "written")
  BY <1>2, <1>5 DEF InState
<1> QED
  BY <1>2, <1>6 DEF r, S, SelectByClass

LEMMA UnselectWrites ==
    ASSUME NEW s, SInv(s)
    PROVE  SInv(Unselect(s)) /\ InState(Unselect(s), "written") = {}
<1> DEFINE r == Unselect(s)
<1>1. SInv(r) /\ Events(r) = Events(s)
  BY UnselectInv
<1>2. \A i \in Events(s) : r.rec[i] = [s.rec[i] EXCEPT !.state = "unselected"]
  BY DEF Unselect, SetState, SInv, EventStorageType
<1>3. \A i \in Events(s) : s.rec[i] \in EventRecord
  BY DEF SInv, EventStorageType
<1>4. \A i \in Events(s) : r.rec[i].state = "unselected"
  BY <1>2, <1>3 DEF EventRecord
<1> HIDE DEF r
<1>5. InState(r, "written") = {}
  BY <1>1, <1>4 DEF InState
<1> QED
  BY <1>1, <1>5 DEF r

LEMMA ClearWrites ==
    ASSUME NEW s, SInv(s)
    PROVE  SInv(ClearWritten(s)) /\ InState(ClearWritten(s), "written") = {}
<1> DEFINE W == InState(s, "written")
           r == Remove(s, W)
<1>1. W \in SUBSET Events(s)
  BY DEF InState
<1>2. SInv(r)
  BY <1>1, RemoveInv
<1>3. r.rec = [i \in Events(s) \ W |-> s.rec[i]]
  BY DEF Remove, OnRemove, SInv, EventStorageType
<1> HIDE DEF r
<1>4. InState(r, "written") = {}
  BY <1>3 DEF InState, Events
<1> QED
  BY <1>2, <1>4 DEF ClearWritten, r

\* A response adds to the written events those it carries.
LEMMA WriteWrites ==
    ASSUME NEW s, SInv(s), NEW room
    PROVE  /\ SInv(Write(s, room))
           /\ Written(s, room) \in SUBSET Events(s)
           /\ InState(Write(s, room), "written") \subseteq
                 InState(s, "written") \cup Written(s, room)
<1> DEFINE W == Written(s, room)
           r == Write(s, room)
<1>1. SInv(r) /\ Events(r) = Events(s)
  BY WriteInv
<1>2. W \in SUBSET Events(s)
  BY FirstOfSubset DEF Written, InState
<1>3. \A i \in Events(s) :
         r.rec[i] = IF i \in W THEN [s.rec[i] EXCEPT !.state = "written"] ELSE s.rec[i]
  BY DEF Write, SetState, SInv, EventStorageType
<1> HIDE DEF r, W
<1>4. InState(r, "written") \subseteq InState(s, "written") \cup W
  BY <1>1, <1>3 DEF InState
<1> QED
  BY <1>1, <1>2, <1>4 DEF r, W

\* An update adds an event that is not written and may drop one that is.
LEMMA AddWrites ==
    ASSUME NEW s, SInv(s), NEW t, NEW c
    PROVE  InState(Add(s, t, c), "written") \subseteq InState(s, "written")
<1> DEFINE r == Add(s, t, c)
           new == [type |-> t, clazz |-> c, state |-> "unselected"]
<1>1. r.rec = [i \in Events(s) \cup {s.next} |-> IF i = s.next THEN new ELSE s.rec[i]]
  BY DEF Add, SInv, EventStorageType
<1> HIDE DEF r
<1>2. ASSUME NEW i \in InState(r, "written")
      PROVE  i \in InState(s, "written")
  <2>1. i \in Events(s) \cup {s.next} /\ r.rec[i].state = "written"
    BY <1>1 DEF InState, Events
  <2>2. i # s.next
    BY <1>1, <2>1
  <2>3. i \in Events(s) /\ r.rec[i] = s.rec[i]
    BY <1>1, <2>1, <2>2
  <2> QED
    BY <2>1, <2>3 DEF InState
<1> QED
  BY <1>2 DEF r

LEMMA UpdateWrites ==
    ASSUME NEW s, SInv(s), NEW t \in EventType, NEW c \in EventClass
    PROVE  /\ SInv(Update(s, t, c))
           /\ InState(Update(s, t, c), "written") \subseteq InState(s, "written")
<1>1. SInv(Update(s, t, c))
  BY UpdateInv
<1>2. CASE MaxEvents[t] = 0
  BY <1>1, <1>2 DEF Update
<1>3. CASE MaxEvents[t] # 0 /\ ~IsFull(s, t)
  BY <1>1, <1>3, AddWrites DEF Update
<1>4. CASE MaxEvents[t] # 0 /\ IsFull(s, t)
  <2> DEFINE D == FirstOf(s.typed[t], 1)
             r == Remove(s, D)
  <2>1. D \in SUBSET Events(s)
    BY FirstOfSubset DEF SInv, Lists
  <2>2. SInv(r)
    BY <2>1, RemoveInv
  <2>3. r.rec = [i \in Events(s) \ D |-> s.rec[i]]
    BY DEF Remove, OnRemove, SInv, EventStorageType
  <2> HIDE DEF r
  <2>4. InState(r, "written") \subseteq InState(s, "written")
    BY <2>3 DEF InState, Events
  <2>5. InState(Add(r, t, c), "written") \subseteq InState(r, "written")
    BY <2>2, AddWrites
  <2> QED
    BY <1>1, <1>4, <2>4, <2>5 DEF Update, r
<1> QED
  BY <1>2, <1>3, <1>4

\* A class whose counters agree has no event left that was not written.
LEMMA AllWritten ==
    ASSUME NEW s, SInv(s), NEW i \in Events(s), s.rec[i].clazz \notin UnwrittenClassField(s)
    PROVE  s.rec[i].state = "written"
<1> DEFINE c == s.rec[i].clazz
           T == OfClass(s, Events(s), c)
           W == OfClass(s, InState(s, "written"), c)
<1>1. c \in EventClass
  BY DEF SInv, EventStorageType, EventRecord
<1>2. s.total[c] = s.written[c]
  BY <1>1 DEF UnwrittenClassField
<1>3. Cardinality(T) = Cardinality(W)
  BY <1>1, <1>2 DEF SInv, Counters
<1>4. T \in SUBSET Events(s) /\ W \in SUBSET T /\ i \in T
  BY DEF OfClass, InState
<1>5. IsFiniteSet(T)
  BY <1>4, FiniteEvents DEF SInv
<1> HIDE DEF T, W
<1>6. W = T
  BY <1>3, <1>4, <1>5, FS_Subset
<1> QED
  BY <1>4, <1>6 DEF W, OfClass, InState

-------------------------------------------------------------------------------
(* EventBuffer.                                                             *)

BufferInv == SInv(storage) /\ overflow \in BOOLEAN

LEMMA BufferInitInv == BufferInit => BufferInv
BY EmptyInv DEF BufferInit, BufferInv

LEMMA BufferNextInv == BufferInv /\ [BufferNext]_bufferVars => BufferInv'
<1> SUFFICES ASSUME BufferInv, [BufferNext]_bufferVars PROVE BufferInv'
  OBVIOUS
<1>0. SInv(storage)
  BY DEF BufferInv
<1>1. ASSUME NEW t \in EventType, NEW c \in EventClass, UpdateAny(t, c)
      PROVE  BufferInv'
  <2>1. SInv(storage')
    BY <1>0, <1>1, UpdateInv DEF UpdateAny
  <2>2. overflow' \in BOOLEAN
    BY <1>1, Zenon DEF UpdateAny, BufferInv
  <2> QED
    BY <2>1, <2>2 DEF BufferInv
<1>2. ASSUME NEW t \in EventType, NEW max, SelectType(t, max)
      PROVE  BufferInv'
  BY <1>0, <1>2, SelectInv, SelectionsUnselected DEF SelectType, SelectByType, BufferInv
<1>3. ASSUME NEW classes, NEW max, SelectClass(classes, max)
      PROVE  BufferInv'
  BY <1>0, <1>3, SelectInv, SelectionsUnselected DEF SelectClass, SelectByClass, BufferInv
<1>4. ASSUME NEW room, Load(room)
      PROVE  BufferInv'
  BY <1>0, <1>4, WriteInv DEF Load, BufferInv
<1>5. CASE Clear
  <2>1. InState(storage, "written") \in SUBSET Events(storage)
    BY DEF InState
  <2> QED
    BY <1>0, <1>5, <2>1, RemoveInv DEF Clear, ClearWritten, BufferInv
<1>6. CASE UnselectAll
  BY <1>0, <1>6, UnselectInv DEF UnselectAll, BufferInv
<1>7. CASE IsOverflown
  <2>1. overflow' \in BOOLEAN
    BY <1>7, Zenon DEF IsOverflown, BufferInv
  <2> QED
    BY <1>0, <1>7, <2>1 DEF IsOverflown, BufferInv
<1>8. CASE UNCHANGED bufferVars
  BY <1>8 DEF bufferVars, BufferInv
<1> QED
  BY <1>1, <1>2, <1>3, <1>4, <1>5, <1>6, <1>7, <1>8 DEF BufferNext

LEMMA BufferInvariance == BufferSpec => []BufferInv
BY BufferInitInv, BufferNextInv, PTL DEF BufferSpec

\* The lists by type partition the aggregate list and keep to their capacity
\* (EventUpdate::Update, EventStorage::ClearWritten).
THEOREM ListsAlwaysAgree == BufferSpec => []ListsAgree
<1>1. BufferInv => ListsAgree
  BY DEF BufferInv, SInv, Lists, ListsAgree
<1> QED
  BY <1>1, BufferInvariance, PTL

\* The counters are those of the events in the lists, so that no unsigned
\* counter ever goes below zero (EventClassCounters).
THEOREM CountersAlwaysAgree == BufferSpec => []CountersAgree
<1>1. BufferInv => CountersAgree
  BY DEF BufferInv, SInv, Counters, CountersAgree
<1> QED
  BY <1>1, BufferInvariance, PTL

\* Type correctness.
THEOREM BufferTypeCorrect == BufferSpec => []BufferTypeOK
<1>1. BufferInv => BufferTypeOK
  BY DEF BufferInv, SInv, BufferTypeOK
<1> QED
  BY <1>1, BufferInvariance, PTL

\* An event is lost only to a confirmed response or to a recorded overflow, and
\* then it is the oldest of its type.
THEOREM NothingLostSilently == BufferSpec => NoSilentLoss
<1> DEFINE Lost == \A i \in Events(storage) \ Events(storage)' :
                      \/ storage.rec[i].state = "written"
                      \/ /\ overflow'
                         /\ \A j \in Events(storage) :
                               storage.rec[j].type = storage.rec[i].type => i <= j
<1>1. BufferInv /\ [BufferNext]_bufferVars => [Lost]_bufferVars
  <2> SUFFICES ASSUME BufferInv, BufferNext, NEW i \in Events(storage) \ Events(storage')
               PROVE  \/ storage.rec[i].state = "written"
                      \/ /\ overflow'
                         /\ \A j \in Events(storage) :
                               storage.rec[j].type = storage.rec[i].type => i <= j
    BY DEF Events
  <2>0. SInv(storage)
    BY DEF BufferInv
  <2>1. ASSUME NEW t \in EventType, NEW c \in EventClass, UpdateAny(t, c)
        PROVE  /\ overflow'
               /\ \A j \in Events(storage) : storage.rec[j].type = storage.rec[i].type => i <= j
    <3>1. /\ Overflows(storage, t)
          /\ \A j \in Events(storage) : storage.rec[j].type = storage.rec[i].type => i <= j
      BY <2>0, <2>1, UpdateRemoves DEF UpdateAny
    <3> QED
      BY <2>1, <3>1, Zenon DEF UpdateAny
  <2>2. ASSUME NEW t \in EventType, NEW max, SelectType(t, max) PROVE FALSE
    BY <2>0, <2>2, SelectInv, SelectionsUnselected DEF SelectType, SelectByType
  <2>3. ASSUME NEW classes, NEW max, SelectClass(classes, max) PROVE FALSE
    BY <2>0, <2>3, SelectInv, SelectionsUnselected DEF SelectClass, SelectByClass
  <2>4. ASSUME NEW room, Load(room) PROVE FALSE
    BY <2>0, <2>4, WriteInv DEF Load
  <2>5. CASE Clear
    <3>1. Events(storage') = Events(storage) \ InState(storage, "written")
      BY <2>0, <2>5 DEF Clear, ClearWritten, Remove, OnRemove, Events, SInv, EventStorageType
    <3> QED
      BY <3>1 DEF InState
  <2>6. CASE UnselectAll
    BY <2>0, <2>6, UnselectInv DEF UnselectAll
  <2>7. CASE IsOverflown
    BY <2>7 DEF IsOverflown
  <2> QED
    BY <2>1, <2>2, <2>3, <2>4, <2>5, <2>6, <2>7 DEF BufferNext
<1> QED
  BY <1>1, BufferInvariance, PTL DEF BufferSpec, NoSilentLoss

-------------------------------------------------------------------------------
(* Outstation.                                                              *)

Fields(c) ==
    DOMAIN c = {"state", "isOnline", "isTransmitting", "confirmTimer", "solNum",
                "solConfirmNum", "unsolNum", "unsolConfirmNum", "completedNull",
                "history", "deferred", "storage", "overflow", "selected", "firstFragment",
                "control", "time", "unsolClassMask", "clazz", "restart",
                "owed", "awaited", "asked", "operated"}

Accounting(c) ==
    /\ c.isOnline \in BOOLEAN
    /\ c.isTransmitting \in BOOLEAN
    /\ c.isTransmitting => c.isOnline
    /\ c.owed = IF c.isTransmitting THEN 1 ELSE 0

\* Only a READ leads to a wait for a solicited confirm, so that the repetition of
\* another request, which would cancel the timer, cannot come there.
Waiting(c) ==
    /\ c.state # "Idle" => c.isOnline /\ IsActive(c.confirmTimer)
    /\ c.state = "SolicitedConfirmWait" =>
          c.history = <<>> \/ c.history[1].function = "READ"

\* A request whose commands were executed is still the one that repetitions are
\* compared with.
Commands(c) ==
    \/ c.operated = <<>>
    \/ /\ c.operated = c.history
       /\ Len(c.history) = 1
       /\ c.history[1].SEQ = c.solNum

Basic(c) == Fields(c) /\ Accounting(c) /\ c.confirmTimer \in TimerRefType

CInv(c) == Basic(c) /\ Waiting(c) /\ Commands(c)

\* The fields that the invariant speaks of.
Same(c, d) ==
    /\ Fields(d)
    /\ d.state = c.state
    /\ d.isOnline = c.isOnline
    /\ d.isTransmitting = c.isTransmitting
    /\ d.confirmTimer = c.confirmTimer
    /\ d.owed = c.owed
    /\ d.solNum = c.solNum
    /\ d.history = c.history
    /\ d.operated = c.operated

-------------------------------------------------------------------------------
\* Steps that the invariant does not see, and the elementary ones.

LEMMA TimerFacts ==
    ASSUME NEW t \in TimerRefType
    PROVE  /\ TimerRestart(t) \in TimerRefType
           /\ IsActive(TimerRestart(t))
           /\ TimerCancel(t) \in TimerRefType
           /\ TimerExpire(t) \in TimerRefType
           /\ IsActive(TimerExpire(t))
           /\ CurrentCallback(t) \in TimerRefType
           /\ t.stale > 0 => StaleCallback(t) \in TimerRefType
BY DEF TimerRefType, TimerRestart, TimerCancel, TimerExpire, CurrentCallback, StaleCallback,
       IsActive

LEMMA SameKeeps ==
    ASSUME NEW c, NEW d, CInv(c), Same(c, d)
    PROVE  CInv(d)
BY DEF CInv, Basic, Same, Accounting, Waiting, Commands

LEMMA SameBasic ==
    ASSUME NEW c, NEW d, Basic(c), Same(c, d)
    PROVE  Basic(d)
BY DEF Basic, Same, Accounting

LEMMA IINSame ==
    ASSUME NEW c, Fields(c)
    PROVE  Same(c, GetResponseIIN(c))
BY DEF Fields, Same, GetResponseIIN

LEMMA HandleReadSame ==
    ASSUME NEW c, NEW x, Fields(c)
    PROVE  Same(c, HandleRead(c, x))
BY DEF Fields, Same, HandleRead

LEMMA LoadSame ==
    ASSUME NEW c, NEW k, NEW seq, Fields(c)
    PROVE  Same(c, [LoadResponse(c, k) EXCEPT !.solConfirmNum = seq])
BY DEF Fields, Same, LoadResponse

\* A transmission may begin when none is under way.
LEMMA BeginTxFacts ==
    ASSUME NEW c, Basic(c), CanTransmit(c)
    PROVE  LET d == BeginTx(c)
           IN  /\ Basic(d)
               /\ d.isTransmitting
               /\ d.state = c.state
               /\ d.isOnline = c.isOnline
               /\ d.confirmTimer = c.confirmTimer
               /\ d.solNum = c.solNum
               /\ d.history = c.history
               /\ d.operated = c.operated
<1> DEFINE d == BeginTx(c)
<1>1. c.owed = 0 /\ c.isOnline = TRUE
  BY DEF Basic, Accounting, CanTransmit
<1>2. /\ Fields(d)
      /\ d.isTransmitting = TRUE
      /\ d.owed = 1
      /\ d.state = c.state
      /\ d.isOnline = c.isOnline
      /\ d.confirmTimer = c.confirmTimer
      /\ d.solNum = c.solNum
      /\ d.history = c.history
      /\ d.operated = c.operated
  BY <1>1 DEF BeginTx, Basic, Fields
<1> HIDE DEF d
<1>3. Basic(d)
  BY <1>1, <1>2 DEF Basic, Accounting
<1> QED
  BY <1>2, <1>3 DEF d

LEMMA RestartFacts ==
    ASSUME NEW c, Basic(c)
    PROVE  LET d == RestartConfirmTimer(c)
           IN  /\ Basic(d)
               /\ IsActive(d.confirmTimer)
               /\ d.state = c.state
               /\ d.isOnline = c.isOnline
               /\ d.isTransmitting = c.isTransmitting
               /\ d.solNum = c.solNum
               /\ d.history = c.history
               /\ d.operated = c.operated
BY TimerFacts DEF RestartConfirmTimer, Basic, Fields, Accounting

LEMMA CancelFacts ==
    ASSUME NEW c, Basic(c)
    PROVE  LET d == CancelConfirmTimer(c)
           IN  /\ Basic(d)
               /\ d.state = c.state
               /\ d.isOnline = c.isOnline
               /\ d.isTransmitting = c.isTransmitting
               /\ d.solNum = c.solNum
               /\ d.history = c.history
               /\ d.operated = c.operated
BY TimerFacts DEF CancelConfirmTimer, Basic, Fields, Accounting

LEMMA ForgetFacts ==
    ASSUME NEW c, Basic(c)
    PROVE  LET d == ForgetRequest(c)
           IN  /\ Basic(d)
               /\ d.state = c.state
               /\ d.isOnline = c.isOnline
               /\ d.isTransmitting = c.isTransmitting
               /\ d.confirmTimer = c.confirmTimer
               /\ d.solNum = c.solNum
               /\ d.history = <<>>
               /\ d.operated = <<>>
BY DEF ForgetRequest, Basic, Fields, Accounting

-------------------------------------------------------------------------------
\* Answers.

\* A fragment ends in the idle state or in a wait with its timer.
LEMMA SendFragmentKeeps ==
    ASSUME NEW c, NEW seq, NEW k, Basic(c), CanTransmit(c), Commands(c),
           c.history = <<>> \/ c.history[1].function = "READ"
    PROVE  CInv(SendFragment(c, seq, k))
<1> DEFINE a == [LoadResponse(c, k) EXCEPT !.solConfirmNum = seq]
           b == GetResponseIIN(a)
           d == BeginTx(b)
           e == RestartConfirmTimer(d)
<1>1. Same(c, a) /\ Basic(a)
  BY LoadSame, SameBasic DEF Basic
<1>2. Same(a, b) /\ Basic(b)
  BY <1>1, IINSame, SameBasic DEF Basic
<1>3. CanTransmit(b)
  BY <1>1, <1>2 DEF CanTransmit, Same
<1>4. /\ Basic(d)
      /\ d.isOnline
      /\ d.solNum = c.solNum
      /\ d.history = c.history
      /\ d.operated = c.operated
  BY <1>1, <1>2, <1>3, BeginTxFacts DEF Same, CanTransmit
<1>5. /\ Basic(e)
      /\ IsActive(e.confirmTimer)
      /\ e.isOnline
      /\ e.solNum = c.solNum
      /\ e.history = c.history
      /\ e.operated = c.operated
  BY <1>4, RestartFacts
<1> HIDE DEF a, b, d, e
<1>6. CASE AsksForConfirm(c, k)
  <2> DEFINE f == [e EXCEPT !.state = "SolicitedConfirmWait",
                            !.awaited = Written(c.storage, k.room)]
  <2>1. CInv(f)
    BY <1>5 DEF CInv, Basic, Fields, Accounting, Waiting, Commands
  <2> QED
    BY <1>6, <2>1 DEF SendFragment, a, b, d, e
<1>7. CASE ~AsksForConfirm(c, k)
  <2> DEFINE f == [d EXCEPT !.state = "Idle"]
  <2>1. CInv(f)
    BY <1>4 DEF CInv, Basic, Fields, Accounting, Waiting, Commands
  <2> QED
    BY <1>7, <2>1 DEF SendFragment, a, b, d, e
<1> QED
  BY <1>6, <1>7

LEMMA RespondToReadKeeps ==
    ASSUME NEW c, NEW r, NEW k, Basic(c), CanTransmit(c), c.operated = <<>>,
           r.function = "READ"
    PROVE  CInv(RespondToReadRequest(c, r, k))
<1> DEFINE a == [c EXCEPT !.history = <<r>>]
           d == HandleRead(a, r.objects)
<1>1. /\ Basic(a)
      /\ CanTransmit(a)
      /\ a.operated = <<>>
      /\ a.history = <<r>>
  BY DEF Basic, Fields, Accounting, CanTransmit
<1> HIDE DEF a
<1>2. Same(a, d) /\ Basic(d)
  BY <1>1, HandleReadSame, SameBasic DEF Basic
<1>3. /\ CanTransmit(d)
      /\ d.operated = <<>>
      /\ d.history = <<r>>
  BY <1>1, <1>2 DEF Same, CanTransmit
<1> HIDE DEF d
<1>4. CASE r.objects.ok
  <2>1. CInv(SendFragment(d, r.SEQ, k))
    BY <1>2, <1>3, SendFragmentKeeps DEF Commands
  <2> QED
    BY <1>4, <2>1 DEF RespondToReadRequest, a, d
<1>5. CASE ~r.objects.ok
  <2> DEFINE f == [d EXCEPT !.solConfirmNum = r.SEQ, !.state = "Idle"]
             g == GetResponseIIN(f)
             h == BeginTx(g)
  <2>1. /\ Basic(f)
        /\ CanTransmit(f)
        /\ f.operated = <<>>
        /\ f.state = "Idle"
    BY <1>2, <1>3 DEF Basic, Fields, Accounting, CanTransmit
  <2> HIDE DEF f
  <2>2. Same(f, g) /\ Basic(g)
    BY <2>1, IINSame, SameBasic DEF Basic
  <2>3. CanTransmit(g) /\ g.operated = <<>> /\ g.state = "Idle"
    BY <2>1, <2>2 DEF Same, CanTransmit
  <2> HIDE DEF g
  <2>4. CInv(h)
    BY <2>2, <2>3, BeginTxFacts DEF CInv, Waiting, Commands
  <2> QED
    BY <1>5, <2>4 DEF RespondToReadRequest, a, d, f, g
<1> QED
  BY <1>4, <1>5

\* A handler executes the commands of its request once, if at all.
LEMMA HandlerFacts ==
    ASSUME NEW c, NEW r, NEW k, Basic(c)
    PROVE  LET d == HandleNonReadResponse(c, r, k)
           IN  /\ Basic(d)
               /\ d.state = c.state
               /\ d.isOnline = c.isOnline
               /\ d.isTransmitting = c.isTransmitting
               /\ d.confirmTimer = c.confirmTimer
               /\ d.solNum = c.solNum
               /\ d.history = c.history
               /\ d.operated = c.operated \/ d.operated = Append(c.operated, r)
BY SMTT(60) DEF HandleNonReadResponse, HandleWrite, HandleSelect, HandleOperate, HandleRecordCurrentTime,
       HandleAssignClass, Execute, Basic, Fields, Accounting

LEMMA RespondToNonReadFacts ==
    ASSUME NEW c, NEW r, NEW k, Basic(c), CanTransmit(c), c.operated = <<>>, c.solNum = r.SEQ
    PROVE  LET d == RespondToNonReadRequest(c, r, k)
           IN  /\ Basic(d)
               /\ d.state = c.state
               /\ d.isOnline = c.isOnline
               /\ d.confirmTimer = c.confirmTimer
               /\ Commands(d)
<1> DEFINE a == [c EXCEPT !.history = <<r>>]
           b == HandleNonReadResponse(a, r, k)
           f == GetResponseIIN(b)
           d == BeginTx(f)
<1>1. /\ Basic(a)
      /\ CanTransmit(a)
      /\ a.operated = <<>>
      /\ a.history = <<r>>
      /\ a.solNum = r.SEQ
      /\ a.state = c.state
      /\ a.isOnline = c.isOnline
      /\ a.confirmTimer = c.confirmTimer
  BY DEF Basic, Fields, Accounting, CanTransmit
<1> HIDE DEF a
<1>2. /\ Basic(b)
      /\ CanTransmit(b)
      /\ b.history = <<r>>
      /\ b.solNum = r.SEQ
      /\ b.state = c.state
      /\ b.isOnline = c.isOnline
      /\ b.confirmTimer = c.confirmTimer
      /\ b.operated = <<>> \/ b.operated = Append(<<>>, r)
  <2>1. /\ Basic(b)
        /\ b.state = a.state
        /\ b.isOnline = a.isOnline
        /\ b.isTransmitting = a.isTransmitting
        /\ b.confirmTimer = a.confirmTimer
        /\ b.solNum = a.solNum
        /\ b.history = a.history
        /\ b.operated = a.operated \/ b.operated = Append(a.operated, r)
    BY <1>1, HandlerFacts
  <2> HIDE DEF b
  <2> QED
    BY <1>1, <2>1 DEF CanTransmit
<1>3. b.operated = <<>> \/ b.operated = <<r>>
  <2>1. Append(<<>>, r) = <<r>>
    OBVIOUS
  <2> QED
    BY <1>2, <2>1
<1>4. Commands(b)
  <2>1. Len(<<r>>) = 1 /\ <<r>>[1] = r
    OBVIOUS
  <2> QED
    BY <1>2, <1>3, <2>1 DEF Commands
<1> HIDE DEF b
<1>5. Same(b, f) /\ Basic(f)
  BY <1>2, IINSame, SameBasic DEF Basic
<1>6. CanTransmit(f)
  BY <1>2, <1>5 DEF Same, CanTransmit
<1> HIDE DEF f
<1>7. /\ Basic(d)
      /\ d.state = c.state
      /\ d.isOnline = c.isOnline
      /\ d.confirmTimer = c.confirmTimer
      /\ d.solNum = b.solNum
      /\ d.history = b.history
      /\ d.operated = b.operated
  BY <1>2, <1>5, <1>6, BeginTxFacts DEF Same
<1>8. Commands(d)
  BY <1>4, <1>7 DEF Commands
<1> QED
  BY <1>7, <1>8 DEF RespondToNonReadRequest, a, b, f

-------------------------------------------------------------------------------
\* The states.

LEMMA OnConfirmKeeps ==
    ASSUME NEW c, NEW r, NEW k, CInv(c), CanTransmit(c)
    PROVE  CInv(OnConfirm(c, r, k))
<1>1. CASE c.state = "SolicitedConfirmWait" /\ ~r.UNS /\ r.SEQ = c.solConfirmNum
  <2> DEFINE a == [c EXCEPT !.storage = ClearWritten(@)]
             b == ForgetRequest(a)
             d == CancelConfirmTimer(b)
  <2>1. Basic(a) /\ CanTransmit(a)
    BY DEF CInv, Basic, Fields, Accounting, CanTransmit
  <2> HIDE DEF a
  <2>2. Basic(b) /\ CanTransmit(b) /\ b.history = <<>> /\ b.operated = <<>>
    BY <2>1, ForgetFacts DEF CanTransmit
  <2> HIDE DEF b
  <2>3. Basic(d) /\ CanTransmit(d) /\ d.history = <<>> /\ d.operated = <<>>
    BY <2>2, CancelFacts DEF CanTransmit
  <2> HIDE DEF d
  <2>4. CInv(SendFragment(d, NextSeq(r.SEQ), k))
    BY <2>3, SendFragmentKeeps DEF Commands
  <2>5. CInv([d EXCEPT !.state = "Idle"])
    BY <2>3 DEF CInv, Basic, Fields, Accounting, Waiting, Commands
  <2> QED
    BY <1>1, <2>4, <2>5 DEF OnConfirm, a, b, d
<1>2. CASE c.state = "UnsolicitedConfirmWait" /\ r.UNS /\ r.SEQ = c.unsolConfirmNum
  <2> DEFINE b == ForgetRequest(c)
             d == CancelConfirmTimer(b)
             e == [d EXCEPT !.storage = IF c.completedNull THEN ClearWritten(@) ELSE @,
                            !.completedNull = TRUE, !.state = "Idle"]
  <2>1. Basic(b) /\ b.operated = <<>>
    BY ForgetFacts DEF CInv
  <2> HIDE DEF b
  <2>2. Basic(d) /\ d.operated = <<>>
    BY <2>1, CancelFacts
  <2> HIDE DEF d
  <2>3. CInv(e)
    BY <2>2 DEF CInv, Basic, Fields, Accounting, Waiting, Commands
  <2> QED
    BY <1>2, <2>3 DEF OnConfirm, b, d
<1>3. CASE /\ ~(c.state = "SolicitedConfirmWait" /\ ~r.UNS /\ r.SEQ = c.solConfirmNum)
           /\ ~(c.state = "UnsolicitedConfirmWait" /\ r.UNS /\ r.SEQ = c.unsolConfirmNum)
  BY <1>3 DEF OnConfirm
<1> QED
  BY <1>1, <1>2, <1>3

LEMMA OnNewReadKeeps ==
    ASSUME NEW c, NEW r, NEW k, CInv(c), CanTransmit(c), c.operated = <<>>,
           r.function = "READ"
    PROVE  CInv(OnNewReadRequest(c, r, k))
<1>1. CASE c.state = "Idle"
  BY <1>1, RespondToReadKeeps DEF OnNewReadRequest, CInv
<1>2. CASE c.state = "SolicitedConfirmWait"
  <2> DEFINE d == CancelConfirmTimer(c)
  <2>1. Basic(d) /\ CanTransmit(d) /\ d.operated = <<>>
    BY CancelFacts DEF CInv, CanTransmit
  <2> HIDE DEF d
  <2>2. CInv(RespondToReadRequest(d, r, k))
    BY <2>1, RespondToReadKeeps
  <2> QED
    BY <1>2, <2>2 DEF OnNewReadRequest, d
<1>3. CASE c.state # "Idle" /\ c.state # "SolicitedConfirmWait"
  <2>1. CInv([c EXCEPT !.deferred = <<r>>])
    BY <1>3 DEF CInv, Basic, Fields, Accounting, Waiting, Commands
  <2> QED
    BY <1>3, <2>1 DEF OnNewReadRequest
<1> QED
  BY <1>1, <1>2, <1>3

LEMMA OnNewNonReadKeeps ==
    ASSUME NEW c, NEW r, NEW k, CInv(c), CanTransmit(c), c.operated = <<>>, c.solNum = r.SEQ
    PROVE  CInv(OnNewNonReadRequest(c, r, k))
<1>1. CASE c.state = "Idle"
  <2> DEFINE d == RespondToNonReadRequest(c, r, k)
  <2>1. Basic(d) /\ d.state = "Idle" /\ Commands(d)
    BY <1>1, RespondToNonReadFacts DEF CInv
  <2> HIDE DEF d
  <2>2. CInv(d)
    BY <2>1 DEF CInv, Waiting
  <2> QED
    BY <1>1, <2>2 DEF OnNewNonReadRequest, d
<1>2. CASE c.state = "SolicitedConfirmWait"
  <2> DEFINE a == CancelConfirmTimer(c)
             d == RespondToNonReadRequest(a, r, k)
  <2>1. Basic(a) /\ CanTransmit(a) /\ a.operated = <<>> /\ a.solNum = r.SEQ
    BY CancelFacts DEF CInv, CanTransmit
  <2> HIDE DEF a
  <2>2. Basic(d) /\ Commands(d)
    BY <2>1, RespondToNonReadFacts
  <2> HIDE DEF d
  <2>3. CInv([d EXCEPT !.state = "Idle"])
    BY <2>2 DEF CInv, Basic, Fields, Accounting, Waiting, Commands
  <2> QED
    BY <1>2, <2>3 DEF OnNewNonReadRequest, a, d
<1>3. CASE c.state # "Idle" /\ c.state # "SolicitedConfirmWait"
  <2> DEFINE a == [c EXCEPT !.deferred = <<>>]
             d == RespondToNonReadRequest(a, r, k)
  <2>1. /\ Basic(a)
        /\ CanTransmit(a)
        /\ a.operated = <<>>
        /\ a.solNum = r.SEQ
        /\ a.state = c.state
        /\ a.isOnline = c.isOnline
        /\ a.confirmTimer = c.confirmTimer
    BY DEF CInv, Basic, Fields, Accounting, CanTransmit
  <2> HIDE DEF a
  <2>2. /\ Basic(d)
        /\ d.state = c.state
        /\ d.isOnline = c.isOnline
        /\ d.confirmTimer = c.confirmTimer
        /\ Commands(d)
    BY <2>1, RespondToNonReadFacts
  <2> HIDE DEF d
  <2>3. CInv(d)
    BY <1>3, <2>2 DEF CInv, Waiting
  <2> QED
    BY <1>3, <2>3 DEF OnNewNonReadRequest, a, d
<1> QED
  BY <1>1, <1>2, <1>3

LEMMA OnRepeatReadKeeps ==
    ASSUME NEW c, NEW r, CInv(c), CanTransmit(c)
    PROVE  CInv(OnRepeatReadRequest(c, r))
<1>1. CASE c.state = "Idle"
  <2>1. CInv(BeginTx(c))
    BY BeginTxFacts DEF CInv, Waiting, Commands
  <2> QED
    BY <1>1, <2>1 DEF OnRepeatReadRequest, RepeatLastResponse
<1>2. CASE c.state = "SolicitedConfirmWait"
  <2> DEFINE a == RestartConfirmTimer(c)
  <2>1. /\ Basic(a)
        /\ CanTransmit(a)
        /\ IsActive(a.confirmTimer)
        /\ a.state = c.state
        /\ a.isOnline = c.isOnline
        /\ a.solNum = c.solNum
        /\ a.history = c.history
        /\ a.operated = c.operated
    BY RestartFacts DEF CInv, CanTransmit
  <2> HIDE DEF a
  <2>2. CInv(BeginTx(a))
    BY <2>1, BeginTxFacts DEF CInv, Waiting, Commands
  <2> QED
    BY <1>2, <2>2 DEF OnRepeatReadRequest, RepeatLastResponse, a
<1>3. CASE c.state # "Idle" /\ c.state # "SolicitedConfirmWait"
  <2>1. CInv([c EXCEPT !.deferred = <<r>>])
    BY <1>3 DEF CInv, Basic, Fields, Accounting, Waiting, Commands
  <2> QED
    BY <1>3, <2>1 DEF OnRepeatReadRequest
<1> QED
  BY <1>1, <1>2, <1>3

\* Only a READ can be repeated while a solicited confirm is awaited.
LEMMA OnRepeatNonReadKeeps ==
    ASSUME NEW c, NEW r, CInv(c), CanTransmit(c), c.history = <<r>>, r.function # "READ"
    PROVE  CInv(OnRepeatNonReadRequest(c, r))
<1>1. c.state # "SolicitedConfirmWait"
  <2>1. <<r>> # <<>> /\ <<r>>[1] = r
    OBVIOUS
  <2> QED
    BY <2>1 DEF CInv, Waiting
<1>2. CInv(BeginTx(c))
  BY BeginTxFacts DEF CInv, Waiting, Commands
<1> QED
  BY <1>1, <1>2 DEF OnRepeatNonReadRequest, RepeatLastResponse

-------------------------------------------------------------------------------
\* Requests.

\* A request that is not a repetition has not been executed: the one executed
\* last is in the history.
LEMMA ProcessNewKeeps ==
    ASSUME NEW c, NEW r, NEW k, CInv(c), CanTransmit(c), ~IsRepeat(c, r)
    PROVE  CInv(ProcessNewRequest(c, r, k))
<1> DEFINE d == [c EXCEPT !.solNum = r.SEQ, !.operated = IF @ = <<r>> THEN @ ELSE <<>>]
<1>1. c.operated # <<r>>
  <2>1. SUFFICES ASSUME c.operated = <<r>> PROVE FALSE
    OBVIOUS
  <2>2. <<r>> # <<>> /\ <<r>>[1] = r
    OBVIOUS
  <2>3. c.history = <<r>> /\ c.solNum = r.SEQ
    BY <2>1, <2>2 DEF CInv, Commands
  <2> QED
    BY <2>3 DEF IsRepeat
<1>2. CInv(d) /\ CanTransmit(d) /\ d.operated = <<>> /\ d.solNum = r.SEQ
  BY <1>1 DEF CInv, Basic, Fields, Accounting, Waiting, Commands, CanTransmit
<1> HIDE DEF d
<1>3. CASE r.function = "READ"
  <2>1. CInv(OnNewReadRequest(d, r, k))
    BY <1>2, <1>3, OnNewReadKeeps
  <2> QED
    BY <1>3, <2>1 DEF ProcessNewRequest, d
<1>4. CASE r.function # "READ"
  <2>1. CInv(OnNewNonReadRequest(d, r, k))
    BY <1>2, OnNewNonReadKeeps
  <2> QED
    BY <1>4, <2>1 DEF ProcessNewRequest, d
<1> QED
  BY <1>3, <1>4

LEMMA ProcessRequestKeeps ==
    ASSUME NEW c, NEW r, NEW k, CInv(c), CanTransmit(c)
    PROVE  CInv(ProcessRequest(c, r, k))
<1>1. CASE r.UNS
  BY <1>1 DEF ProcessRequest
<1>2. CASE ~r.UNS /\ ~IsRepeat(c, r)
  BY <1>2, ProcessNewKeeps DEF ProcessRequest
<1>3. CASE ~r.UNS /\ IsRepeat(c, r) /\ r.function = "READ"
  BY <1>3, OnRepeatReadKeeps DEF ProcessRequest
<1>4. CASE ~r.UNS /\ IsRepeat(c, r) /\ r.function # "READ"
  <2>1. c.history = <<r>>
    BY <1>4 DEF IsRepeat
  <2> QED
    BY <1>4, <2>1, OnRepeatNonReadKeeps DEF ProcessRequest
<1> QED
  BY <1>1, <1>2, <1>3, <1>4

LEMMA DeferKeeps ==
    ASSUME NEW c, NEW x, CInv(c)
    PROVE  CInv([c EXCEPT !.deferred = x])
BY DEF CInv, Basic, Fields, Accounting, Waiting, Commands

LEMMA ProcessObjectsKeeps ==
    ASSUME NEW c, NEW r, NEW k, CInv(c), c.isOnline
    PROVE  CInv(ProcessObjects(c, r, k))
<1>1. CASE c.isTransmitting
  BY <1>1, DeferKeeps DEF ProcessObjects
<1>2. CASE ~c.isTransmitting
  <2>1. CanTransmit(c)
    BY <1>2 DEF CanTransmit
  <2> QED
    BY <1>2, <2>1, OnConfirmKeeps, ProcessRequestKeeps DEF ProcessObjects
<1> QED
  BY <1>1, <1>2

LEMMA DeferredKeeps ==
    ASSUME NEW c, NEW k, CInv(c)
    PROVE  CInv(CheckForDeferredRequest(c, k))
<1>1. CASE ~CanTransmit(c) \/ c.deferred = <<>>
  BY <1>1 DEF CheckForDeferredRequest
<1>2. CASE CanTransmit(c) /\ c.deferred # <<>>
  <2> DEFINE r == c.deferred[1]
  <2>1. CInv([OnConfirm(c, r, k) EXCEPT !.deferred = <<>>])
    BY <1>2, OnConfirmKeeps, DeferKeeps
  <2>2. CInv([ProcessRequest(c, r, k) EXCEPT !.deferred = <<>>])
    BY <1>2, ProcessRequestKeeps, DeferKeeps
  <2> QED
    BY <1>2, <2>1, <2>2 DEF CheckForDeferredRequest
<1> QED
  BY <1>1, <1>2

-------------------------------------------------------------------------------
\* Unsolicited responses, and every handler's last call.

LEMMA SendUnsolicitedKeeps ==
    ASSUME NEW c, CInv(c), CanTransmit(c)
    PROVE  CInv(SendUnsolicited(c))
<1> DEFINE a == GetResponseIIN(c)
           b == RestartConfirmTimer(a)
           d == [b EXCEPT !.state = "UnsolicitedConfirmWait",
                          !.unsolConfirmNum = c.unsolNum,
                          !.unsolNum = NextSeq(@)]
<1>1. Same(c, a) /\ CInv(a) /\ CanTransmit(a)
  <2>1. Same(c, a)
    BY IINSame DEF CInv, Basic
  <2> HIDE DEF a
  <2> QED
    BY <2>1, SameKeeps DEF Same, CanTransmit
<1> HIDE DEF a
<1>2. /\ Basic(b)
      /\ CanTransmit(b)
      /\ IsActive(b.confirmTimer)
      /\ Commands(b)
  BY <1>1, RestartFacts DEF CInv, CanTransmit, Commands
<1> HIDE DEF b
<1>3. /\ CInv(d)
      /\ CanTransmit(d)
  BY <1>2 DEF CInv, Basic, Fields, Accounting, Waiting, Commands, CanTransmit
<1> HIDE DEF d
<1>4. CInv(BeginTx(d))
  BY <1>3, BeginTxFacts DEF CInv, Waiting, Commands
<1> QED
  BY <1>4 DEF SendUnsolicited, a, b, d

LEMMA UnsolicitedKeeps ==
    ASSUME NEW c, NEW k, CInv(c)
    PROVE  CInv(CheckForUnsolicited(c, k))
<1>1. CASE ~CanTransmit(c) \/ c.state # "Idle" \/ ~allowUnsolicited
  BY <1>1 DEF CheckForUnsolicited
<1>2. CASE CanTransmit(c) /\ c.state = "Idle" /\ allowUnsolicited
  <2> DEFINE s == SelectByClass(Unselect(c.storage), c.unsolClassMask, c.storage.next)
             a == [c EXCEPT !.awaited = {}]
             b == [c EXCEPT !.storage = Write(s, k.room), !.awaited = Written(s, k.room)]
  <2>1. CInv(a) /\ CanTransmit(a)
    BY <1>2 DEF CInv, Basic, Fields, Accounting, Waiting, Commands, CanTransmit
  <2>2. CInv(b) /\ CanTransmit(b)
    BY <1>2 DEF CInv, Basic, Fields, Accounting, Waiting, Commands, CanTransmit
  <2> HIDE DEF a, b
  <2>3. CInv(SendUnsolicited(a)) /\ CInv(SendUnsolicited(b))
    BY <2>1, <2>2, SendUnsolicitedKeeps
  <2> QED
    BY <1>2, <2>3 DEF CheckForUnsolicited, a, b
<1> QED
  BY <1>1, <1>2

LEMMA TaskStartKeeps ==
    ASSUME NEW c, NEW k, CInv(c)
    PROVE  CInv(CheckForTaskStart(c, k))
BY DeferredKeeps, UnsolicitedKeeps DEF CheckForTaskStart

LEMMA TimeoutKeeps ==
    ASSUME NEW c, NEW k, Basic(c), Commands(c)
    PROVE  CInv(OnTimeout(c, k))
<1> DEFINE d == OnConfirmTimeout(c)
<1>1. CInv(d)
  BY DEF OnConfirmTimeout, CInv, Basic, Fields, Accounting, Waiting, Commands
<1> HIDE DEF d
<1> QED
  BY <1>1, TaskStartKeeps DEF OnTimeout, d

LEMMA ApplyKeeps ==
    ASSUME NEW c, NEW t, NEW k, CInv(c)
    PROVE  CInv(Apply(c, t, k))
<1> DEFINE d == [c EXCEPT !.storage = Update(@, t, c.clazz[t]),
                          !.overflow = @ \/ Overflows(c.storage, t)]
<1>1. CInv(d)
  BY DEF CInv, Basic, Fields, Accounting, Waiting, Commands
<1> HIDE DEF d
<1> QED
  BY <1>1, TaskStartKeeps DEF Apply, d

LEMMA DownKeeps ==
    ASSUME NEW c, CInv(c)
    PROVE  CInv(OnLowerLayerDown(c))
<1> DEFINE a == ForgetRequest(c)
           b == CancelConfirmTimer(a)
<1>1. Basic(a) /\ a.operated = <<>>
  BY ForgetFacts DEF CInv
<1> HIDE DEF a
<1>2. Basic(b) /\ b.operated = <<>>
  BY <1>1, CancelFacts
<1> HIDE DEF b
<1> DEFINE d == [b EXCEPT
        !.state = "Idle", !.isOnline = FALSE, !.isTransmitting = FALSE,
        !.completedNull = FALSE, !.deferred = <<>>, !.storage = Unselect(@),
        !.firstFragment = TRUE, !.owed = 0]
<1>3. CInv(d)
  BY <1>2 DEF CInv, Basic, Fields, Accounting, Waiting, Commands
<1> QED
  BY <1>3 DEF OnLowerLayerDown, a, b

-------------------------------------------------------------------------------
\* The data of a context.

\* The type of every field, the storage in agreement with its counters, and no
\* cell selected that the READ being answered did not ask for, octet strings
\* excepted.
Data(c) ==
    /\ Fields(c)
    /\ c.state \in {"Idle", "SolicitedConfirmWait", "UnsolicitedConfirmWait"}
    /\ c.confirmTimer \in TimerRefType
    /\ c.isOnline \in BOOLEAN /\ c.isTransmitting \in BOOLEAN /\ c.completedNull \in BOOLEAN
    /\ c.overflow \in BOOLEAN /\ c.firstFragment \in BOOLEAN /\ c.restart \in BOOLEAN
    /\ c.solNum \in AppSeqNum /\ c.solConfirmNum \in AppSeqNum
    /\ c.unsolNum \in AppSeqNum /\ c.unsolConfirmNum \in AppSeqNum
    /\ IsOptional(c.history, Request)
    /\ IsOptional(c.deferred, Request)
    /\ SInv(c.storage)
    /\ c.selected \subseteq StaticCells
    /\ c.selected \ OctetCells \subseteq c.asked
    /\ IsOptional(c.control, [expectedSeq : AppSeqNum, objects : Objects])
    /\ IsOptional(c.time, AppSeqNum)
    /\ c.unsolClassMask \subseteq EventClass
    /\ c.clazz \in [EventType -> EventClass \cup {"Class0"}]
    /\ c.owed \in Nat
    /\ c.awaited \subseteq Nat
    /\ c.asked \subseteq StaticCells
    /\ c.operated \in Seq(Request)

\* What is written while a confirm is awaited is what the awaited fragment
\* carries.
Sent(c) ==
    \/ c.state = "Idle"
    \/ c.state = "UnsolicitedConfirmWait" /\ ~c.completedNull /\ c.awaited = {}
    \/ InState(c.storage, "written") \subseteq c.awaited

DInv(c) == Data(c) /\ Sent(c)

\* The fields that Sent speaks of.
Still(c, d) ==
    /\ d.state = c.state
    /\ d.completedNull = c.completedNull
    /\ d.storage = c.storage
    /\ d.awaited = c.awaited

LEMMA StillSent ==
    ASSUME NEW c, NEW d, Sent(c), Still(c, d)
    PROVE  Sent(d)
BY DEF Sent, Still

LEMMA Optional ==
    ASSUME NEW S
    PROVE  /\ IsOptional(<<>>, S)
           /\ \A r \in S : IsOptional(<<r>>, S)
           /\ \A s : IsOptional(s, S) /\ s # <<>> => s[1] \in S
BY DEF IsOptional

LEMMA NextSeqType ==
    ASSUME NEW n \in AppSeqNum
    PROVE  NextSeq(n) \in AppSeqNum
BY SeqAssumption DEF NextSeq, AppSeqNum

LEMMA RequestFields ==
    ASSUME NEW r \in Request
    PROVE  /\ r.SEQ \in AppSeqNum
           /\ r.UNS \in BOOLEAN
           /\ r.objects \in Objects
           /\ r.objects.ok \in BOOLEAN
           /\ r.objects.classes \subseteq EventClass
           /\ r.objects.count \in Nat
           /\ r.objects.cells \subseteq StaticCells
BY DEF Request, Objects

LEMMA BeginTxData ==
    ASSUME NEW c, Data(c)
    PROVE  Data(BeginTx(c)) /\ Still(c, BeginTx(c)) /\ BeginTx(c).isTransmitting
BY DEF Data, Fields, BeginTx, Still

LEMMA IINData ==
    ASSUME NEW c, Data(c)
    PROVE  Data(GetResponseIIN(c)) /\ Still(c, GetResponseIIN(c))
<1>1. (c.overflow /\ IsAnyTypeFull(c.storage)) \in BOOLEAN
  BY Zenon DEF Data
<1> QED
  BY <1>1 DEF Data, Fields, GetResponseIIN, Still

LEMMA RestartData ==
    ASSUME NEW c, Data(c)
    PROVE  Data(RestartConfirmTimer(c)) /\ Still(c, RestartConfirmTimer(c))
<1>1. TimerRestart(c.confirmTimer) \in TimerRefType
  BY TimerFacts DEF Data
<1> QED
  BY <1>1 DEF Data, Fields, RestartConfirmTimer, Still

LEMMA CancelData ==
    ASSUME NEW c, Data(c)
    PROVE  Data(CancelConfirmTimer(c)) /\ Still(c, CancelConfirmTimer(c))
<1>1. TimerCancel(c.confirmTimer) \in TimerRefType
  BY TimerFacts DEF Data
<1> QED
  BY <1>1 DEF Data, Fields, CancelConfirmTimer, Still

LEMMA ForgetData ==
    ASSUME NEW c, Data(c)
    PROVE  Data(ForgetRequest(c)) /\ Still(c, ForgetRequest(c))
<1>1. IsOptional(<<>>, Request) /\ <<>> \in Seq(Request)
  BY Optional
<1> QED
  BY <1>1 DEF Data, Fields, ForgetRequest, Still

\* A READ starts with no event written, whatever an earlier response left.
LEMMA HandleReadData ==
    ASSUME NEW c, Data(c), NEW x \in Objects
    PROVE  /\ Data(HandleRead(c, x))
           /\ InState(HandleRead(c, x).storage, "written") = {}
<1> DEFINE s == IF x.ok THEN SelectByClass(Unselect(c.storage), x.classes, x.count)
                        ELSE Unselect(c.storage)
           S == DatabaseUnselect(c.selected) \cup (IF x.ok THEN x.cells ELSE {})
           d == HandleRead(c, x)
<1>1. SInv(Unselect(c.storage)) /\ InState(Unselect(c.storage), "written") = {}
  BY UnselectWrites DEF Data
<1>2. SInv(s) /\ InState(s, "written") = {}
  BY <1>1, SelectByClassInv
<1>3. x.cells \subseteq StaticCells
  BY DEF Objects
<1>4. S \subseteq StaticCells /\ S \ OctetCells \subseteq x.cells
  BY <1>3, CellAssumption DEF DatabaseUnselect
<1>5. /\ d = [c EXCEPT !.firstFragment = TRUE, !.storage = s, !.selected = S, !.asked = x.cells]
  BY DEF HandleRead
<1> HIDE DEF s, S, d
<1>6. Data(d) /\ d.storage = s
  BY <1>2, <1>3, <1>4, <1>5 DEF Data, Fields
<1> QED
  BY <1>2, <1>6 DEF d

LEMMA LoadData ==
    ASSUME NEW c, Data(c), NEW k, NEW seq \in AppSeqNum
    PROVE  LET a == [LoadResponse(c, k) EXCEPT !.solConfirmNum = seq]
           IN  /\ Data(a)
               /\ a.storage = Write(c.storage, k.room)
<1>1. SInv(Write(c.storage, k.room))
  BY WriteWrites DEF Data
<1>2. /\ c.selected \ LoadedCells(c, k.room) \subseteq StaticCells
      /\ (c.selected \ LoadedCells(c, k.room)) \ OctetCells \subseteq c.asked
  BY DEF Data
<1> QED
  BY <1>1, <1>2 DEF Data, Fields, LoadResponse

LEMMA SendFragmentData ==
    ASSUME NEW c, Data(c), NEW k, NEW seq \in AppSeqNum,
           InState(c.storage, "written") = {}
    PROVE  DInv(SendFragment(c, seq, k))
<1> DEFINE a == [LoadResponse(c, k) EXCEPT !.solConfirmNum = seq]
           b == GetResponseIIN(a)
           d == BeginTx(b)
           e == RestartConfirmTimer(d)
           W == Written(c.storage, k.room)
<1>1. Data(a) /\ a.storage = Write(c.storage, k.room)
  BY LoadData
<1>2. /\ W \in SUBSET Events(c.storage)
      /\ InState(Write(c.storage, k.room), "written") \subseteq W
  BY WriteWrites DEF Data
<1>3. W \subseteq Nat
  BY <1>2 DEF Data, SInv, EventStorageType
<1> HIDE DEF a, W
<1>4. Data(b) /\ b.storage = a.storage
  BY <1>1, IINData DEF Still
<1> HIDE DEF b
<1>5. Data(d) /\ d.storage = a.storage
  BY <1>4, BeginTxData DEF Still
<1> HIDE DEF d
<1>6. Data(e) /\ e.storage = a.storage
  BY <1>5, RestartData DEF Still
<1> HIDE DEF e
<1>7. CASE AsksForConfirm(c, k)
  <2> DEFINE f == [e EXCEPT !.state = "SolicitedConfirmWait", !.awaited = W]
  <2>1. Data(f) /\ f.storage = a.storage /\ f.awaited = W
    BY <1>3, <1>6 DEF Data, Fields
  <2> HIDE DEF f
  <2>2. DInv(f)
    BY <1>1, <1>2, <2>1 DEF DInv, Sent
  <2> QED
    BY <1>7, <2>2 DEF SendFragment, a, b, d, e, f, W
<1>8. CASE ~AsksForConfirm(c, k)
  <2> DEFINE f == [d EXCEPT !.state = "Idle"]
  <2>1. DInv(f)
    BY <1>5 DEF DInv, Sent, Data, Fields
  <2> QED
    BY <1>8, <2>1 DEF SendFragment, a, b, d
<1> QED
  BY <1>7, <1>8

LEMMA RespondToReadData ==
    ASSUME NEW c, Data(c), NEW r \in Request, NEW k
    PROVE  DInv(RespondToReadRequest(c, r, k))
<1> DEFINE a == [c EXCEPT !.history = <<r>>]
           d == HandleRead(a, r.objects)
<1>0. r.objects \in Objects /\ r.SEQ \in AppSeqNum /\ IsOptional(<<r>>, Request)
  BY RequestFields, Optional
<1>1. Data(a)
  BY <1>0 DEF Data, Fields
<1> HIDE DEF a
<1>2. Data(d) /\ InState(d.storage, "written") = {}
  BY <1>0, <1>1, HandleReadData
<1> HIDE DEF d
<1>3. CASE r.objects.ok
  BY <1>0, <1>2, <1>3, SendFragmentData DEF RespondToReadRequest, a, d
<1>4. CASE ~r.objects.ok
  <2> DEFINE f == [d EXCEPT !.solConfirmNum = r.SEQ, !.state = "Idle"]
             g == GetResponseIIN(f)
             h == BeginTx(g)
  <2>1. Data(f) /\ f.state = "Idle"
    BY <1>0, <1>2 DEF Data, Fields
  <2> HIDE DEF f
  <2>2. Data(g) /\ g.state = "Idle"
    BY <2>1, IINData DEF Still
  <2> HIDE DEF g
  <2>3. DInv(h)
    BY <2>2, BeginTxData DEF Still, DInv, Sent
  <2> QED
    BY <1>4, <2>3 DEF RespondToReadRequest, a, d, f, g, h
<1> QED
  BY <1>3, <1>4

\* The handlers of other requests leave the events alone.
LEMMA HandlerData ==
    ASSUME NEW c, Data(c), NEW r \in Request, NEW k
    PROVE  LET d == HandleNonReadResponse(c, r, k)
           IN  Data(d) /\ Still(c, d)
<1>0. /\ r.objects \in Objects
      /\ r.objects.classes \subseteq EventClass
  BY RequestFields
<1>1. Data(HandleWrite(c, r, k)) /\ Still(c, HandleWrite(c, r, k))
  <2> DEFINE a == [c EXCEPT !.restart = FALSE]
             b == [c EXCEPT !.time = <<>>]
  <2>1. Data(a) /\ Still(c, a)
    BY DEF Data, Fields, Still
  <2>2. IsOptional(<<>>, AppSeqNum)
    BY Optional
  <2>3. Data(b) /\ Still(c, b)
    BY <2>2 DEF Data, Fields, Still
  <2>4. Still(c, c)
    BY DEF Still
  <2> HIDE DEF a, b
  <2>5. HandleWrite(c, r, k) \in {a, b, c}
    BY DEF HandleWrite, a, b
  <2> QED
    BY <2>1, <2>3, <2>4, <2>5
<1>2. Data(HandleSelect(c, r, k)) /\ Still(c, HandleSelect(c, r, k))
  <2> DEFINE x == [expectedSeq |-> NextSeq(c.solNum), objects |-> r.objects]
  <2>1. x \in [expectedSeq : AppSeqNum, objects : Objects]
    BY <1>0, NextSeqType DEF Data
  <2>2. IsOptional(<<x>>, [expectedSeq : AppSeqNum, objects : Objects])
    BY <2>1, Optional
  <2> HIDE DEF x
  <2>3. HandleSelect(c, r, k) = IF k.accept THEN [c EXCEPT !.control = <<x>>] ELSE c
    BY DEF HandleSelect, x
  <2> QED
    BY <2>2, <2>3 DEF Data, Fields, Still
<1>3. Data(Execute(c, r)) /\ Still(c, Execute(c, r))
  <2>1. Append(c.operated, r) \in Seq(Request)
    BY DEF Data
  <2> QED
    BY <2>1 DEF Execute, Data, Fields, Still
<1>4. Data(HandleOperate(c, r, k)) /\ Still(c, HandleOperate(c, r, k))
  BY <1>3 DEF HandleOperate, Still
<1>5. Data(HandleRecordCurrentTime(c)) /\ Still(c, HandleRecordCurrentTime(c))
  <2>1. IsOptional(<<NextSeq(c.solNum)>>, AppSeqNum)
    BY Optional, NextSeqType DEF Data
  <2> QED
    BY <2>1 DEF HandleRecordCurrentTime, Data, Fields, Still
<1>6. Data(HandleAssignClass(c, r, k)) /\ Still(c, HandleAssignClass(c, r, k))
  <2> DEFINE ec == IF r.objects.classes = {} THEN "Class0"
                   ELSE CHOOSE x \in r.objects.classes : TRUE
  <2>1. ec \in EventClass \cup {"Class0"}
    <3>1. ASSUME r.objects.classes # {}
          PROVE  (CHOOSE x \in r.objects.classes : TRUE) \in r.objects.classes
      BY <3>1
    <3> QED
      BY <1>0, <3>1
  <2>2. HandleAssignClass(c, r, k) =
           IF ~k.accept THEN c ELSE [c EXCEPT !.clazz = [t \in EventType |-> ec]]
    BY DEF HandleAssignClass
  <2> HIDE DEF ec
  <2>3. [t \in EventType |-> ec] \in [EventType -> EventClass \cup {"Class0"}]
    BY <2>1
  <2> QED
    BY <2>2, <2>3 DEF Data, Fields, Still
<1>7. LET d == [c EXCEPT !.unsolClassMask = @ \cup r.objects.classes]
      IN  Data(d) /\ Still(c, d)
  BY <1>0 DEF Data, Fields, Still
<1>8. LET d == [c EXCEPT !.unsolClassMask = @ \ r.objects.classes]
      IN  Data(d) /\ Still(c, d)
  BY DEF Data, Fields, Still
<1>9. Still(c, c)
  BY DEF Still
<1> QED
  BY <1>1, <1>2, <1>3, <1>4, <1>5, <1>6, <1>7, <1>8, <1>9 DEF HandleNonReadResponse

LEMMA RespondToNonReadData ==
    ASSUME NEW c, Data(c), NEW r \in Request, NEW k
    PROVE  LET d == RespondToNonReadRequest(c, r, k)
           IN  Data(d) /\ Still(c, d)
<1> DEFINE a == [c EXCEPT !.history = <<r>>]
           b == HandleNonReadResponse(a, r, k)
           f == GetResponseIIN(b)
           d == BeginTx(f)
<1>0. IsOptional(<<r>>, Request)
  BY Optional
<1>1. Data(a) /\ Still(c, a)
  BY <1>0 DEF Data, Fields, Still
<1> HIDE DEF a
<1>2. Data(b) /\ Still(a, b)
  BY <1>1, HandlerData
<1> HIDE DEF b
<1>3. Data(f) /\ Still(b, f)
  BY <1>2, IINData
<1> HIDE DEF f
<1>4. Data(d) /\ Still(f, d)
  BY <1>3, BeginTxData
<1> HIDE DEF d
<1>5. Still(c, d)
  BY <1>1, <1>2, <1>3, <1>4 DEF Still
<1> QED
  BY <1>4, <1>5 DEF RespondToNonReadRequest, a, b, f, d

LEMMA DeferData ==
    ASSUME NEW c, DInv(c), NEW x, IsOptional(x, Request)
    PROVE  DInv([c EXCEPT !.deferred = x])
BY DEF DInv, Sent, Data, Fields

\* A confirm clears what is written before more is sent.
LEMMA OnConfirmData ==
    ASSUME NEW c, DInv(c), NEW r \in Request, NEW k
    PROVE  DInv(OnConfirm(c, r, k))
<1>0. SInv(ClearWritten(c.storage)) /\ InState(ClearWritten(c.storage), "written") = {}
  BY ClearWrites DEF DInv, Data
<1>1. CASE c.state = "SolicitedConfirmWait" /\ ~r.UNS /\ r.SEQ = c.solConfirmNum
  <2> DEFINE a == [c EXCEPT !.storage = ClearWritten(@)]
             b == ForgetRequest(a)
             d == CancelConfirmTimer(b)
  <2>1. Data(a) /\ InState(a.storage, "written") = {}
    BY <1>0 DEF DInv, Data, Fields
  <2> HIDE DEF a
  <2>2. Data(b) /\ InState(b.storage, "written") = {}
    BY <2>1, ForgetData DEF Still
  <2> HIDE DEF b
  <2>3. Data(d) /\ InState(d.storage, "written") = {}
    BY <2>2, CancelData DEF Still
  <2> HIDE DEF d
  <2>4. DInv(SendFragment(d, NextSeq(r.SEQ), k))
    BY <2>3, SendFragmentData, NextSeqType, RequestFields
  <2>5. DInv([d EXCEPT !.state = "Idle"])
    BY <2>3 DEF DInv, Sent, Data, Fields
  <2> QED
    BY <1>1, <2>4, <2>5 DEF OnConfirm, a, b, d
<1>2. CASE c.state = "UnsolicitedConfirmWait" /\ r.UNS /\ r.SEQ = c.unsolConfirmNum
  <2> DEFINE b == ForgetRequest(c)
             d == CancelConfirmTimer(b)
             e == [d EXCEPT !.storage = IF c.completedNull THEN ClearWritten(@) ELSE @,
                            !.completedNull = TRUE, !.state = "Idle"]
  <2>1. Data(b) /\ b.storage = c.storage
    BY ForgetData DEF DInv, Still
  <2> HIDE DEF b
  <2>2. Data(d) /\ d.storage = c.storage
    BY <2>1, CancelData DEF Still
  <2> HIDE DEF d
  <2>3. DInv(e)
    BY <1>0, <2>2 DEF DInv, Sent, Data, Fields
  <2> QED
    BY <1>2, <2>3 DEF OnConfirm, b, d
<1>3. CASE /\ ~(c.state = "SolicitedConfirmWait" /\ ~r.UNS /\ r.SEQ = c.solConfirmNum)
           /\ ~(c.state = "UnsolicitedConfirmWait" /\ r.UNS /\ r.SEQ = c.unsolConfirmNum)
  BY <1>3 DEF OnConfirm
<1> QED
  BY <1>1, <1>2, <1>3

LEMMA OnNewReadData ==
    ASSUME NEW c, DInv(c), NEW r \in Request, NEW k
    PROVE  DInv(OnNewReadRequest(c, r, k))
<1>1. DInv(RespondToReadRequest(c, r, k))
  BY RespondToReadData DEF DInv
<1>2. DInv(RespondToReadRequest(CancelConfirmTimer(c), r, k))
  BY CancelData, RespondToReadData DEF DInv
<1>3. DInv([c EXCEPT !.deferred = <<r>>])
  BY DeferData, Optional
<1> QED
  BY <1>1, <1>2, <1>3 DEF OnNewReadRequest

LEMMA OnNewNonReadData ==
    ASSUME NEW c, DInv(c), NEW r \in Request, NEW k
    PROVE  DInv(OnNewNonReadRequest(c, r, k))
<1>1. DInv(RespondToNonReadRequest(c, r, k))
  BY RespondToNonReadData, StillSent DEF DInv
<1>2. DInv([RespondToNonReadRequest(CancelConfirmTimer(c), r, k) EXCEPT !.state = "Idle"])
  <2> DEFINE d == RespondToNonReadRequest(CancelConfirmTimer(c), r, k)
  <2>1. Data(d)
    BY CancelData, RespondToNonReadData DEF DInv
  <2> HIDE DEF d
  <2>2. DInv([d EXCEPT !.state = "Idle"])
    BY <2>1 DEF DInv, Sent, Data, Fields
  <2> QED
    BY <2>2 DEF d
<1>3. DInv(RespondToNonReadRequest([c EXCEPT !.deferred = <<>>], r, k))
  <2> DEFINE a == [c EXCEPT !.deferred = <<>>]
  <2>1. DInv(a)
    BY DeferData, Optional
  <2> HIDE DEF a
  <2>2. DInv(RespondToNonReadRequest(a, r, k))
    BY <2>1, RespondToNonReadData, StillSent DEF DInv
  <2> QED
    BY <2>2 DEF a
<1> QED
  BY <1>1, <1>2, <1>3 DEF OnNewNonReadRequest

LEMMA RepeatData ==
    ASSUME NEW c, DInv(c), NEW r \in Request
    PROVE  DInv(OnRepeatReadRequest(c, r)) /\ DInv(OnRepeatNonReadRequest(c, r))
<1>1. DInv(BeginTx(c))
  BY BeginTxData, StillSent DEF DInv
<1>2. DInv(BeginTx(RestartConfirmTimer(c))) /\ DInv(BeginTx(CancelConfirmTimer(c)))
  <2>1. DInv(RestartConfirmTimer(c)) /\ DInv(CancelConfirmTimer(c))
    BY RestartData, CancelData, StillSent DEF DInv
  <2> QED
    BY <2>1, BeginTxData, StillSent DEF DInv
<1>3. DInv([c EXCEPT !.deferred = <<r>>])
  BY DeferData, Optional
<1> QED
  BY <1>1, <1>2, <1>3 DEF OnRepeatReadRequest, OnRepeatNonReadRequest, RepeatLastResponse

LEMMA ProcessRequestData ==
    ASSUME NEW c, DInv(c), NEW r \in Request, NEW k
    PROVE  DInv(ProcessRequest(c, r, k))
<1> DEFINE d == [c EXCEPT !.solNum = r.SEQ, !.operated = IF @ = <<r>> THEN @ ELSE <<>>]
<1>1. DInv(d)
  <2>1. r.SEQ \in AppSeqNum
    BY RequestFields
  <2> DEFINE x == IF c.operated = <<r>> THEN c.operated ELSE <<>>
  <2>2. x \in Seq(Request)
    BY DEF DInv, Data
  <2> HIDE DEF x
  <2>3. d = [c EXCEPT !.solNum = r.SEQ, !.operated = x]
    BY DEF x
  <2> QED
    BY <2>1, <2>2, <2>3 DEF DInv, Sent, Data, Fields
<1> HIDE DEF d
<1>2. DInv(OnNewReadRequest(d, r, k)) /\ DInv(OnNewNonReadRequest(d, r, k))
  BY <1>1, OnNewReadData, OnNewNonReadData
<1>3. DInv(ProcessNewRequest(c, r, k))
  BY <1>2 DEF ProcessNewRequest, d
<1> QED
  BY <1>3, RepeatData DEF ProcessRequest

LEMMA ProcessObjectsData ==
    ASSUME NEW c, DInv(c), NEW r \in Request, NEW k
    PROVE  DInv(ProcessObjects(c, r, k))
<1>1. DInv([c EXCEPT !.deferred = <<r>>])
  BY DeferData, Optional
<1> QED
  BY <1>1, OnConfirmData, ProcessRequestData DEF ProcessObjects

\* A request stays deferred only while the outstation transmits or waits.
LEMMA DeferredData ==
    ASSUME NEW c, DInv(c), NEW k
    PROVE  LET d == CheckForDeferredRequest(c, k)
           IN  /\ DInv(d)
               /\ CanTransmit(d) /\ d.state = "Idle" => d.deferred = <<>>
<1>1. CASE ~CanTransmit(c) \/ c.deferred = <<>>
  BY <1>1 DEF CheckForDeferredRequest
<1>2. CASE CanTransmit(c) /\ c.deferred # <<>>
  <2> DEFINE r == c.deferred[1]
             a == OnConfirm(c, r, k)
             b == ProcessRequest(c, r, k)
  <2>1. r \in Request /\ IsOptional(<<>>, Request)
    BY <1>2, Optional DEF DInv, Data
  <2>2. DInv(a) /\ DInv(b)
    BY <2>1, OnConfirmData, ProcessRequestData
  <2> HIDE DEF a, b
  <2>3. DInv([a EXCEPT !.deferred = <<>>]) /\ DInv([b EXCEPT !.deferred = <<>>])
    BY <2>1, <2>2, DeferData
  <2>4. [a EXCEPT !.deferred = <<>>].deferred = <<>> /\ [b EXCEPT !.deferred = <<>>].deferred = <<>>
    BY <2>2 DEF DInv, Data, Fields
  <2> QED
    BY <1>2, <2>3, <2>4 DEF CheckForDeferredRequest, a, b
<1> QED
  BY <1>1, <1>2

LEMMA SendUnsolicitedData ==
    ASSUME NEW c, Data(c),
           \/ ~c.completedNull /\ c.awaited = {}
           \/ InState(c.storage, "written") \subseteq c.awaited
    PROVE  DInv(SendUnsolicited(c)) /\ SendUnsolicited(c).isTransmitting
<1> DEFINE a == GetResponseIIN(c)
           b == RestartConfirmTimer(a)
           d == [b EXCEPT !.state = "UnsolicitedConfirmWait",
                          !.unsolConfirmNum = c.unsolNum,
                          !.unsolNum = NextSeq(@)]
<1>1. Data(a) /\ Still(c, a)
  BY IINData
<1> HIDE DEF a
<1>2. Data(b) /\ Still(a, b)
  BY <1>1, RestartData
<1> HIDE DEF b
<1>3. NextSeq(b.unsolNum) \in AppSeqNum /\ c.unsolNum \in AppSeqNum
  BY <1>2, NextSeqType DEF Data
<1>4. /\ Data(d)
      /\ d.state = "UnsolicitedConfirmWait"
      /\ d.completedNull = b.completedNull /\ d.awaited = b.awaited /\ d.storage = b.storage
  BY <1>2, <1>3 DEF Data, Fields
<1> HIDE DEF d
<1>5. Sent(d)
  BY <1>1, <1>2, <1>4 DEF Still, Sent
<1>6. DInv(BeginTx(d)) /\ BeginTx(d).isTransmitting
  BY <1>4, <1>5, BeginTxData, StillSent DEF DInv
<1> QED
  BY <1>6 DEF SendUnsolicited, a, b, d

\* The context is settled: nothing that could be done was left undone.
Settled(c) ==
    CanTransmit(c) /\ c.state = "Idle" =>
       /\ c.deferred = <<>>
       /\ allowUnsolicited =>
             /\ c.completedNull
             /\ \A i \in Events(c.storage) :
                   c.storage.rec[i].clazz \in c.unsolClassMask =>
                      c.storage.rec[i].state = "written"

\* An outstation that finds no event to report has none: the counters say so.
LEMMA UnsolicitedData ==
    ASSUME NEW c, DInv(c), NEW k, CanTransmit(c) /\ c.state = "Idle" => c.deferred = <<>>
    PROVE  DInv(CheckForUnsolicited(c, k)) /\ Settled(CheckForUnsolicited(c, k))
<1>1. CASE ~CanTransmit(c) \/ c.state # "Idle" \/ ~allowUnsolicited
  BY <1>1 DEF CheckForUnsolicited, Settled
<1>2. CASE CanTransmit(c) /\ c.state = "Idle" /\ allowUnsolicited /\ ~c.completedNull
  <2> DEFINE a == [c EXCEPT !.awaited = {}]
  <2>1. Data(a) /\ ~a.completedNull /\ a.awaited = {}
    BY <1>2 DEF DInv, Data, Fields
  <2> HIDE DEF a
  <2>2. DInv(SendUnsolicited(a)) /\ SendUnsolicited(a).isTransmitting
    BY <2>1, SendUnsolicitedData
  <2>3. Settled(SendUnsolicited(a))
    BY <2>2 DEF Settled, CanTransmit
  <2> QED
    BY <1>2, <2>2, <2>3 DEF CheckForUnsolicited, a
<1>3. CASE /\ CanTransmit(c) /\ c.state = "Idle" /\ allowUnsolicited /\ c.completedNull
           /\ ~HasUnsolicitedEvents(c)
  <2>1. \A i \in Events(c.storage) :
           c.storage.rec[i].clazz \in c.unsolClassMask => c.storage.rec[i].state = "written"
    BY <1>3, AllWritten DEF HasUnsolicitedEvents, DInv, Data
  <2> QED
    BY <1>3, <2>1 DEF CheckForUnsolicited, Settled
<1>4. CASE /\ CanTransmit(c) /\ c.state = "Idle" /\ allowUnsolicited /\ c.completedNull
           /\ HasUnsolicitedEvents(c)
  <2> DEFINE u == Unselect(c.storage)
             s == SelectByClass(u, c.unsolClassMask, c.storage.next)
             W == Written(s, k.room)
             w == Write(s, k.room)
             b == [c EXCEPT !.storage = w, !.awaited = W]
  <2>1. SInv(u) /\ InState(u, "written") = {}
    BY UnselectWrites DEF DInv, Data
  <2> HIDE DEF u
  <2>2. SInv(s) /\ InState(s, "written") = {}
    BY <2>1, SelectByClassInv
  <2> HIDE DEF s
  <2>3. SInv(w) /\ W \in SUBSET Events(s) /\ InState(w, "written") \subseteq W
    BY <2>2, WriteWrites
  <2>4. W \subseteq Nat
    BY <2>2, <2>3 DEF SInv, EventStorageType
  <2> HIDE DEF w, W
  <2>5. Data(b) /\ b.storage = w /\ b.awaited = W
    BY <2>3, <2>4 DEF DInv, Data, Fields
  <2> HIDE DEF b
  <2>6. DInv(SendUnsolicited(b)) /\ SendUnsolicited(b).isTransmitting
    BY <2>3, <2>5, SendUnsolicitedData
  <2>7. Settled(SendUnsolicited(b))
    BY <2>6 DEF Settled, CanTransmit
  <2> QED
    BY <1>4, <2>6, <2>7 DEF CheckForUnsolicited, u, s, w, W, b
<1> QED
  BY <1>1, <1>2, <1>3, <1>4

LEMMA TaskStartData ==
    ASSUME NEW c, DInv(c), NEW k
    PROVE  DInv(CheckForTaskStart(c, k)) /\ Settled(CheckForTaskStart(c, k))
<1> DEFINE d == CheckForDeferredRequest(c, k)
<1>1. DInv(d) /\ (CanTransmit(d) /\ d.state = "Idle" => d.deferred = <<>>)
  BY DeferredData
<1> HIDE DEF d
<1> QED
  BY <1>1, UnsolicitedData DEF CheckForTaskStart, d

-------------------------------------------------------------------------------
\* The specification.

LEMMA InitInv == Init => CInv(ctx)
BY DEF Init, InitContext, TimerOff, CInv, Basic, Fields, Accounting, Waiting, Commands,
       TimerRefType

LEMMA NextInv == CInv(ctx) /\ [Next]_vars => CInv(ctx)'
<1> SUFFICES ASSUME CInv(ctx), [Next]_vars
             PROVE  CInv(ctx')
  OBVIOUS
<1>1. CASE LowerLayerUp
  <2> DEFINE a == [ctx EXCEPT !.isOnline = TRUE]
  <2>1. CInv(a)
    BY DEF CInv, Basic, Fields, Accounting, Waiting, Commands
  <2> HIDE DEF a
  <2> QED
    BY <1>1, <2>1, TaskStartKeeps DEF LowerLayerUp, OnLowerLayerUp, a
<1>2. CASE LowerLayerDown
  BY <1>2, DownKeeps DEF LowerLayerDown
<1>3. CASE TxReady
  <2> DEFINE a == [ctx EXCEPT !.isTransmitting = FALSE, !.owed = @ - 1]
  <2>1. ctx.owed = 1
    BY <1>3 DEF TxReady, CInv, Basic, Accounting
  <2>2. CInv(a)
    BY <2>1 DEF CInv, Basic, Fields, Accounting, Waiting, Commands
  <2> HIDE DEF a
  <2> QED
    BY <1>3, <2>2, TaskStartKeeps DEF TxReady, OnTxReady, a
<1>4. CASE ReceiveRequest
  BY <1>4, ProcessObjectsKeeps, TaskStartKeeps DEF ReceiveRequest, OnReceive
<1>5. ASSUME NEW r \in Confirms, ReceiveConfirm(r)
      PROVE  CInv(ctx')
  BY <1>5, ProcessObjectsKeeps, TaskStartKeeps DEF ReceiveConfirm, OnReceive
<1>6. CASE ReceiveRejected
  BY <1>6, TaskStartKeeps DEF ReceiveRejected, OnReceiveRejected
<1>7. CASE DatabaseUpdate
  BY <1>7, ApplyKeeps DEF DatabaseUpdate
<1>8. CASE ApplicationRestart
  BY <1>8 DEF ApplicationRestart, CInv, Basic, Fields, Accounting, Waiting, Commands
<1>9. CASE ConfirmTimerExpires
  <2>1. TimerExpire(ctx.confirmTimer) \in TimerRefType
    BY TimerFacts DEF CInv, Basic
  <2>2. IsActive(TimerExpire(ctx.confirmTimer))
    BY TimerFacts DEF CInv, Basic
  <2> QED
    BY <1>9, <2>1, <2>2
    DEF ConfirmTimerExpires, CInv, Basic, Fields, Accounting, Waiting, Commands
<1>10. CASE ConfirmTimerCallback
  <2> DEFINE a == [ctx EXCEPT !.confirmTimer = CurrentCallback(@)]
  <2>1. CurrentCallback(ctx.confirmTimer) \in TimerRefType
    BY TimerFacts DEF CInv, Basic
  <2>2. Basic(a) /\ Commands(a)
    BY <2>1 DEF CInv, Basic, Fields, Accounting, Commands
  <2> HIDE DEF a
  <2> QED
    BY <1>10, <2>2, TimeoutKeeps DEF ConfirmTimerCallback, a
<1>11. CASE StaleConfirmTimerCallback
  <2> DEFINE a == [ctx EXCEPT !.confirmTimer = StaleCallback(@)]
  <2>1. StaleCallback(ctx.confirmTimer) \in TimerRefType
    BY <1>11, TimerFacts DEF StaleConfirmTimerCallback, CInv, Basic
  <2>2. Basic(a) /\ Commands(a)
    BY <2>1 DEF CInv, Basic, Fields, Accounting, Commands
  <2> HIDE DEF a
  <2> QED
    BY <1>11, <2>2, TimeoutKeeps DEF StaleConfirmTimerCallback, a
<1>12. CASE UNCHANGED vars
  BY <1>12 DEF vars
<1> QED
  BY <1>1, <1>2, <1>3, <1>4, <1>5, <1>6, <1>7, <1>8, <1>9, <1>10, <1>11, <1>12 DEF Next

LEMMA Always == Spec => []CInv(ctx)
BY InitInv, NextInv, PTL DEF Spec

\* For every database, set of requests and bound: an outstation that awaits a
\* confirm is online and its confirm timer is active, whatever requests come
\* meanwhile and whichever handlers outlived a Cancel (OContext::confirmTimer).
THEOREM TimerWhileWaiting == Spec => []WaitHasTimer
<1>1. CInv(ctx) => WaitHasTimer
  BY DEF CInv, Waiting, WaitHasTimer
<1> QED
  BY <1>1, Always, PTL

\* For every database, set of requests and bound: the layer below has at most one
\* fragment, and exactly while isTransmitting is set (OContext::BeginTx).
THEOREM OneAtATime == Spec => []OneTransmission
<1>1. CInv(ctx) => OneTransmission
  BY DEF CInv, Basic, Accounting, OneTransmission
<1> QED
  BY <1>1, Always, PTL

\* For every database, set of requests and bound: between two confirms or two
\* different requests, at most one execution of commands (RequestHistory,
\* OContext::OnReceiveSolRequest).
THEOREM NotExecutedTwice == Spec => []ExecutedOnce
<1>1. CInv(ctx) => ExecutedOnce
  <2> SUFFICES ASSUME CInv(ctx)
               PROVE  Len(ctx.operated) <= 1
    BY DEF ExecutedOnce
  <2>1. CASE ctx.operated = <<>>
    <3>1. Len(<<>>) = 0
      OBVIOUS
    <3>2. Len(ctx.operated) = 0
      BY <2>1, <3>1, Zenon
    <3> QED
      BY <3>2
  <2>2. CASE ctx.operated = ctx.history /\ Len(ctx.history) = 1
    <3>1. Len(ctx.operated) = 1
      BY <2>2, Zenon
    <3> QED
      BY <3>1
  <2> QED
    BY <2>1, <2>2 DEF CInv, Commands
<1> QED
  BY <1>1, Always, PTL

-------------------------------------------------------------------------------
\* The data and the wakeups.

LEMMA TimeoutData ==
    ASSUME NEW c, Data(c), NEW k
    PROVE  DInv(OnTimeout(c, k)) /\ Settled(OnTimeout(c, k))
<1> DEFINE d == OnConfirmTimeout(c)
           s == IF c.state = "UnsolicitedConfirmWait" /\ c.completedNull
                THEN Unselect(c.storage) ELSE c.storage
<1>1. SInv(s)
  BY UnselectWrites DEF Data
<1>2. d = [c EXCEPT !.state = "Idle", !.storage = s]
  BY DEF OnConfirmTimeout
<1> HIDE DEF d, s
<1>3. DInv(d)
  BY <1>1, <1>2 DEF DInv, Sent, Data, Fields
<1> QED
  BY <1>3, TaskStartData DEF OnTimeout, d

LEMMA ApplyData ==
    ASSUME NEW c, DInv(c), NEW t \in EventType, NEW k
    PROVE  DInv(Apply(c, t, k)) /\ Settled(Apply(c, t, k))
<1>1. CASE c.clazz[t] = "Class0"
  BY <1>1, TaskStartData DEF Apply
<1>2. CASE c.clazz[t] # "Class0"
  <2> DEFINE s == Update(c.storage, t, c.clazz[t])
             o == c.overflow \/ Overflows(c.storage, t)
             d == [c EXCEPT !.storage = s, !.overflow = o]
  <2>1. c.clazz[t] \in EventClass
    BY <1>2 DEF DInv, Data
  <2>2. SInv(s) /\ InState(s, "written") \subseteq InState(c.storage, "written")
    BY <2>1, UpdateWrites DEF DInv, Data
  <2>3. o \in BOOLEAN
    BY Zenon
  <2> HIDE DEF s, o
  <2>4. /\ Data(d) /\ d.storage = s /\ d.state = c.state
        /\ d.completedNull = c.completedNull /\ d.awaited = c.awaited
    BY <2>2, <2>3 DEF DInv, Data, Fields
  <2>5. Apply(c, t, k) = CheckForTaskStart(d, k)
    BY <1>2 DEF Apply, s, o
  <2> HIDE DEF d
  <2>6. DInv(d)
    BY <2>2, <2>4 DEF DInv, Sent
  <2> QED
    BY <2>5, <2>6, TaskStartData
<1> QED
  BY <1>1, <1>2

LEMMA DownData ==
    ASSUME NEW c, DInv(c)
    PROVE  DInv(OnLowerLayerDown(c)) /\ Settled(OnLowerLayerDown(c))
<1> DEFINE a == ForgetRequest(c)
           b == CancelConfirmTimer(a)
           d == [b EXCEPT
                    !.state = "Idle", !.isOnline = FALSE, !.isTransmitting = FALSE,
                    !.completedNull = FALSE, !.deferred = <<>>, !.storage = Unselect(@),
                    !.firstFragment = TRUE, !.owed = 0]
<1>1. Data(a)
  BY ForgetData DEF DInv
<1> HIDE DEF a
<1>2. Data(b)
  BY <1>1, CancelData
<1> HIDE DEF b
<1>3. SInv(Unselect(b.storage)) /\ IsOptional(<<>>, Request)
  BY <1>2, UnselectWrites, Optional DEF Data
<1>4. Data(d) /\ d.state = "Idle" /\ d.isOnline = FALSE
  BY <1>2, <1>3 DEF Data, Fields
<1> HIDE DEF d
<1>5. DInv(d) /\ Settled(d)
  BY <1>4 DEF DInv, Sent, Settled, CanTransmit
<1> QED
  BY <1>5 DEF OnLowerLayerDown, a, b, d

LEMMA ConfirmType == Confirms \subseteq Request
<1>1. NoObjects \in Objects
  BY DEF NoObjects, Objects
<1> QED
  BY <1>1 DEF Confirms, Request, FunctionCode

DataInv == DInv(ctx) /\ Settled(ctx) /\ received \in Nat /\ downs \in Nat

LEMMA DataInit == Init => DataInv
<1> SUFFICES ASSUME Init PROVE DataInv
  OBVIOUS
<1>1. Data(ctx)
  <2>1. ctx = InitContext(InitialClass)
    BY DEF Init
  <2>2. 0 \in AppSeqNum
    BY SeqAssumption DEF AppSeqNum
  <2>3. SInv(EmptyStorage)
    BY EmptyInv
  <2>4. /\ IsOptional(<<>>, Request)
        /\ IsOptional(<<>>, [expectedSeq : AppSeqNum, objects : Objects])
        /\ IsOptional(<<>>, AppSeqNum)
        /\ <<>> \in Seq(Request)
    BY Optional
  <2>5. TimerOff \in TimerRefType
    BY DEF TimerOff, TimerRefType
  <2> QED
    BY <2>1, <2>2, <2>3, <2>4, <2>5, ParamsAssumption, ClassAssumption
    DEF InitContext, Data, Fields
<1>2. ctx.state = "Idle" /\ ctx.isOnline = FALSE
  BY DEF Init, InitContext
<1>3. DInv(ctx) /\ Settled(ctx)
  BY <1>1, <1>2 DEF DInv, Sent, Settled, CanTransmit
<1> QED
  BY <1>3 DEF DataInv, Init

LEMMA DataNext == DataInv /\ [Next]_vars => DataInv'
<1> SUFFICES ASSUME DataInv, [Next]_vars
             PROVE  DInv(ctx') /\ Settled(ctx') /\ received' \in Nat /\ downs' \in Nat
  BY DEF DataInv
<1>0. DInv(ctx) /\ Settled(ctx) /\ received \in Nat /\ downs \in Nat
  BY DEF DataInv
<1>1. received' \in Nat /\ downs' \in Nat
  BY <1>0 DEF Next, vars, LowerLayerUp, LowerLayerDown, TxReady, ReceiveRequest,
              ReceiveConfirm, ReceiveRejected, DatabaseUpdate, ApplicationRestart,
              ConfirmTimerExpires, ConfirmTimerCallback, StaleConfirmTimerCallback
<1>2. CASE LowerLayerUp
  <2> DEFINE a == [ctx EXCEPT !.isOnline = TRUE]
  <2>1. DInv(a)
    BY <1>0 DEF DInv, Sent, Data, Fields
  <2> HIDE DEF a
  <2> QED
    BY <1>1, <1>2, <2>1, TaskStartData DEF LowerLayerUp, OnLowerLayerUp, a
<1>3. CASE LowerLayerDown
  BY <1>0, <1>1, <1>3, DownData DEF LowerLayerDown
<1>4. CASE TxReady
  <2> DEFINE a == [ctx EXCEPT !.isTransmitting = FALSE, !.owed = @ - 1]
  <2>1. ctx.owed - 1 \in Nat
    BY <1>0, <1>4 DEF TxReady, DInv, Data
  <2>2. DInv(a)
    BY <1>0, <2>1 DEF DInv, Sent, Data, Fields
  <2> HIDE DEF a
  <2> QED
    BY <1>1, <1>4, <2>2, TaskStartData DEF TxReady, OnTxReady, a
<1>5. CASE ReceiveRequest
  BY <1>0, <1>1, <1>5, RequestsAssumption, ProcessObjectsData, TaskStartData
  DEF ReceiveRequest, OnReceive
<1>6. ASSUME NEW r \in Confirms, ReceiveConfirm(r)
      PROVE  DInv(ctx') /\ Settled(ctx')
  BY <1>0, <1>6, ConfirmType, ProcessObjectsData, TaskStartData DEF ReceiveConfirm, OnReceive
<1>7. CASE ReceiveRejected
  BY <1>0, <1>1, <1>7, TaskStartData DEF ReceiveRejected, OnReceiveRejected
<1>8. CASE DatabaseUpdate
  BY <1>0, <1>1, <1>8, ApplyData DEF DatabaseUpdate
<1>9. CASE ApplicationRestart
  <2>1. ctx' = [ctx EXCEPT !.restart = TRUE]
    BY <1>9 DEF ApplicationRestart
  <2>2. DInv(ctx')
    BY <1>0, <2>1 DEF DInv, Sent, Data, Fields
  <2>3. Settled(ctx')
    BY <1>0, <2>1 DEF DInv, Data, Fields, Settled, CanTransmit
  <2> QED
    BY <1>1, <2>2, <2>3
<1>10. CASE ConfirmTimerExpires
  <2>1. TimerExpire(ctx.confirmTimer) \in TimerRefType
    BY <1>0, TimerFacts DEF DInv, Data
  <2>2. ctx' = [ctx EXCEPT !.confirmTimer = TimerExpire(@)]
    BY <1>10 DEF ConfirmTimerExpires
  <2>3. DInv(ctx')
    BY <1>0, <2>1, <2>2 DEF DInv, Sent, Data, Fields
  <2>4. Settled(ctx')
    BY <1>0, <2>2 DEF DInv, Data, Fields, Settled, CanTransmit
  <2> QED
    BY <1>1, <2>3, <2>4
<1>11. CASE ConfirmTimerCallback
  <2> DEFINE a == [ctx EXCEPT !.confirmTimer = CurrentCallback(@)]
  <2>1. CurrentCallback(ctx.confirmTimer) \in TimerRefType
    BY <1>0, TimerFacts DEF DInv, Data
  <2>2. Data(a)
    BY <1>0, <2>1 DEF DInv, Data, Fields
  <2> HIDE DEF a
  <2> QED
    BY <1>1, <1>11, <2>2, TimeoutData DEF ConfirmTimerCallback, a
<1>12. CASE StaleConfirmTimerCallback
  <2> DEFINE a == [ctx EXCEPT !.confirmTimer = StaleCallback(@)]
  <2>1. StaleCallback(ctx.confirmTimer) \in TimerRefType
    BY <1>0, <1>12, TimerFacts DEF StaleConfirmTimerCallback, DInv, Data
  <2>2. Data(a)
    BY <1>0, <2>1 DEF DInv, Data, Fields
  <2> HIDE DEF a
  <2> QED
    BY <1>1, <1>12, <2>2, TimeoutData DEF StaleConfirmTimerCallback, a
<1>13. CASE UNCHANGED vars
  BY <1>0, <1>13 DEF vars
<1> QED
  BY <1>1, <1>2, <1>3, <1>4, <1>5, <1>6, <1>7, <1>8, <1>9, <1>10, <1>11, <1>12, <1>13 DEF Next

LEMMA DataAlways == Spec => []DataInv
BY DataInit, DataNext, PTL DEF Spec

\* For every database, set of requests and bound the context keeps its type:
\* every sequence number wraps, at most one request is deferred or remembered
\* (OContext, AppSeqNum).
THEOREM TypeCorrect == Spec => []TypeOK
<1>1. DataInv => TypeOK
  BY DEF DataInv, DInv, Data, Fields, SInv, TypeOK, OContextType
<1> QED
  BY <1>1, DataAlways, PTL

\* For every database, set of requests and bound: what is marked written while a
\* confirm is awaited is carried by the fragment that is awaited, so that a
\* confirm never clears an event the master has not seen, whichever events were
\* recorded or dropped meanwhile (OutstationStates::OnConfirm,
\* EventStorage::ClearWritten).
THEOREM OnlySentIsCleared == Spec => []WrittenWasSent
<1>1. DataInv => WrittenWasSent
  BY DEF DataInv, DInv, Sent, WrittenWasSent
<1> QED
  BY <1>1, DataAlways, PTL

\* For every database, set of requests and bound: an outstation that may transmit
\* and is idle has nothing to do.  No request waits and, when unsolicited
\* responses are allowed, every event of an enabled class has been written
\* (OContext::CheckForTaskStart, EventClassCounters).
THEOREM NoWakeupLost == Spec => []NothingLeftWaiting
<1>1. DataInv => NothingLeftWaiting
  BY DEF DataInv, Settled, NothingLeftWaiting
<1> QED
  BY <1>1, DataAlways, PTL

\* In a database without octet strings only the cells that the READ asked for are
\* ever selected: DatabaseBuffers::Unselect forgets every other kind of cell, so
\* that the missing line for octet strings is all that breaks the property.
THEOREM OctetsAreTheException ==
    ASSUME OctetCells = {}
    PROVE  Spec => []OnlyAskedIsSelected
<1>1. DataInv => OnlyAskedIsSelected
  BY DEF DataInv, DInv, Data, OnlyAskedIsSelected
<1> QED
  BY <1>1, DataAlways, PTL
===============================================================================
