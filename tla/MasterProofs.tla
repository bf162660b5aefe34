------------------------------ MODULE MasterProofs ------------------------------
(***************************************************************************)
(* What Master keeps for every set of masters and tasks, all periods and   *)
(* all bounds: the scheduler and its masters agree on who runs what, no    *)
(* task is lost or doubled, every wait has an end, no wakeup is lost.      *)
(*                                                                         *)
(* The operators of MasterContext pass a record on, so the invariant is an *)
(* operator on such a record.  While a task completes it does not hold:    *)
(* CompleteTask reports the completion before CompleteCurrentFor takes the *)
(* task from the scheduler, and a confirm may be sent in between.  Keeps,  *)
(* Completed and Ended relate such a record to the one the handler began   *)
(* with.                                                                   *)
(***************************************************************************)
EXTENDS Master, WellFoundedInduction, TLAPS

Assigned(x, r) == IF x.current # None /\ Owner[x.current] = r THEN x.current ELSE None

Agree(x) == \A r \in Runner : x.runner[r].activeTask = Assigned(x, r)

Accounted(c) == c.owed = IF c.isSending THEN 1 ELSE 0

\* A master by itself: its state, what it transmits and what it waits for.
ContextOK(c) ==
    /\ (c.tstate = "IDLE") <=> (c.activeTask = None)
    /\ Accounted(c)
    /\ c.tstate = "TASK_READY" => c.isSending
    /\ c.tstate = "WAIT_FOR_RESPONSE" => IsActive(c.responseTimer)
    /\ c.confirmQueue > 0 /\ c.isOnline => c.isSending \/ c.tstate = "IDLE"

Contexts(x) == \A r \in Runner : ContextOK(x.runner[r])

Due(x, t) ==
    IF IsRecurring(t)
    THEN IF t \in x.bound /\ x.runner[Owner[t]].isOnline THEN 1 ELSE 0
    ELSE 1 - x.told[t]

Once(x) == \A t \in Task : x.queue[t] + (IF x.current = t THEN 1 ELSE 0) = Due(x, t)

\* The tasks of a master that is offline are neither queued nor running.
Online(x) ==
    \A t \in Task : x.queue[t] > 0 \/ x.current = t => x.runner[Owner[t]].isOnline

Bound(x) == \A t \in x.bound : IsRecurring(t)

TaskWake(x) ==
    x.current = None => \A t \in Queued(x) :
       ExpirationTime(x, t) # Never /\ ~IsBlocked(x, t) =>
          IsActive(x.taskTimer) /\ x.taskDue <= ExpirationTime(x, t)

StartWake(x) ==
    \A t \in Queued(x) : ~IsRecurring(t) =>
       IsActive(x.startTimer) /\ x.startDue <= x.behavior[t].start

Wake(x) == ~x.pending => TaskWake(x) /\ StartWake(x)

Base(x) ==
    x \in SystemType /\ Agree(x) /\ Contexts(x) /\ Once(x) /\ Online(x) /\ Bound(x)

Good(x) == Base(x) /\ Wake(x)

\* Base, but for the master that is in the middle of a handler.
BaseBut(x, r) ==
    /\ x \in SystemType /\ Agree(x) /\ Once(x) /\ Online(x) /\ Bound(x)
    /\ \A q \in Runner \ {r} : ContextOK(x.runner[q])

-------------------------------------------------------------------------------
\* The values that the handlers compute have their types.

LEMMA TimerFacts ==
    ASSUME NEW t \in TimerRefType
    PROVE  /\ TimerStart(t) \in TimerRefType /\ IsActive(TimerStart(t))
           /\ TimerRestart(t) \in TimerRefType /\ IsActive(TimerRestart(t))
           /\ TimerCancel(t) \in TimerRefType
           /\ TimerExpire(t) \in TimerRefType /\ IsActive(TimerExpire(t))
           /\ CurrentCallback(t) \in TimerRefType
           /\ t.stale > 0 => StaleCallback(t) \in TimerRefType
BY DEF TimerRefType, TimerStart, TimerRestart, TimerCancel, TimerExpire, CurrentCallback,
       StaleCallback, IsActive

LEMMA DelayTypes ==
    ASSUME NEW t \in Task
    PROVE  /\ MinRetryDelay(t) \in Time
           /\ MaxRetryDelay(t) \in Time
           /\ \A d \in Time : CalcNextRetryTimeout(t, d) \in Time
<1>1. MinRetryDelay(t) \in Time /\ MaxRetryDelay(t) \in Time
  BY TimesAssumption DEF MinRetryDelay, MaxRetryDelay, Time
<1>2. \A d \in Time : CalcNextRetryTimeout(t, d) \in Time
  BY <1>1, TimesAssumption DEF CalcNextRetryTimeout, Time
<1> QED
  BY <1>1, <1>2

LEMMA BehaviorTypes ==
    ASSUME NEW t \in Task, NEW b \in Behavior
    PROVE  /\ InitBehavior(t) \in Behavior
           /\ BehaviorReset(t, b) \in Behavior
           /\ BehaviorReset(t, b).start = b.start
           /\ \A result : CompletedBehavior(t, b, result) \in Behavior
<1>1. /\ 0 \in Time /\ Never \in Time /\ ScanPeriod \in Time /\ StartTimeout \in Time
      /\ MinRetryDelay(t) \in Time
      /\ b.retry \in Time /\ b.start \in Time /\ b.expiration \in Time
      /\ CalcNextRetryTimeout(t, b.retry) \in Time
  BY DelayTypes, TimesAssumption DEF Behavior, Time
<1>2. InitBehavior(t) \in Behavior
  BY <1>1 DEF InitBehavior, Behavior
<1>3. BehaviorReset(t, b) \in Behavior /\ BehaviorReset(t, b).start = b.start
  BY <1>1 DEF BehaviorReset, Behavior
<1>4. /\ BehaviorTimeout(t, b) \in Behavior
      /\ BehaviorSuccess(t, b) \in Behavior
      /\ BehaviorDisable(b) \in Behavior
  BY <1>1 DEF BehaviorTimeout, BehaviorSuccess, BehaviorDisable, Behavior
<1> QED
  BY <1>2, <1>3, <1>4 DEF CompletedBehavior

LEMMA StepTypes ==
    ASSUME NEW t \in Task, NEW n \in Nat
    PROVE  /\ InitStep(t) \in Nat
           /\ Initialize(t, n) \in Nat
           /\ BuildStep(t, n) \in Nat
           /\ \A p : ResponseStep(t, n, p) \in Nat
BY DEF InitStep, Initialize, BuildStep, ResponseStep

LEMMA SeqTypes ==
    ASSUME NEW n \in Nat
    PROVE  (n + 1) % SeqMod \in 0 .. SeqMod - 1
BY SeqAssumption

LEMMA Fields ==
    ASSUME NEW x \in SystemType
    PROVE  /\ x.runner \in [Runner -> MContext]
           /\ x.queue \in [Task -> Nat]
           /\ x.current \in Task \cup {None}
           /\ x.pending \in BOOLEAN
           /\ x.demanded \in SUBSET Task
           /\ x.taskTimer \in TimerRefType
           /\ x.taskDue \in Time
           /\ x.startTimer \in TimerRefType
           /\ x.startDue \in Time
           /\ x.behavior \in [Task -> Behavior]
           /\ x.step \in [Task -> Nat]
           /\ x.blocking \in SUBSET Task
           /\ x.bound \in SUBSET Task
           /\ x.told \in [Task -> Nat]
BY DEF SystemType

-------------------------------------------------------------------------------
\* How a handler changes the record.

\* Nothing changes but what a master or a task keeps for itself.
Keeps(x, y, r) ==
    /\ y \in SystemType
    /\ \A q \in Runner \ {r} : y.runner[q] = x.runner[q]
    /\ y.runner[r].isOnline = x.runner[r].isOnline
    /\ y.runner[r].activeTask = x.runner[r].activeTask
    /\ y.queue = x.queue /\ y.current = x.current /\ y.pending = x.pending
    /\ y.taskTimer = x.taskTimer /\ y.taskDue = x.taskDue
    /\ y.startTimer = x.startTimer /\ y.startDue = x.startDue
    /\ y.behavior = x.behavior /\ y.blocking = x.blocking
    /\ y.bound = x.bound /\ y.told = x.told

\* Task t has been told its result as well, but is still the current one.
Completed(x, y, r, t) ==
    /\ y \in SystemType
    /\ \A q \in Runner \ {r} : y.runner[q] = x.runner[q]
    /\ y.runner[r].isOnline = x.runner[r].isOnline
    /\ y.runner[r].activeTask = x.runner[r].activeTask
    /\ y.queue = x.queue /\ y.current = x.current /\ y.bound = x.bound
    /\ \A u \in Task \ {t} : y.told[u] = x.told[u]
    /\ y.told[t] = IF IsRecurring(t) THEN x.told[t] ELSE x.told[t] + 1

\* The scheduler has taken t back and will look for the next task.
Ended(x, y, r, t) ==
    /\ y \in SystemType
    /\ \A q \in Runner \ {r} : y.runner[q] = x.runner[q]
    /\ y.runner[r].isOnline = x.runner[r].isOnline
    /\ y.runner[r].activeTask = None
    /\ y.current = None /\ y.pending /\ y.bound = x.bound
    /\ \A u \in Task \ {t} : y.told[u] = x.told[u] /\ y.queue[u] = x.queue[u]
    /\ y.told[t] = IF IsRecurring(t) THEN x.told[t] ELSE x.told[t] + 1
    /\ y.queue[t] = IF IsRecurring(t) THEN x.queue[t] + 1 ELSE x.queue[t]

LEMMA KeepsTransitive ==
    ASSUME NEW r \in Runner, NEW x, NEW y, NEW z, Keeps(x, y, r), Keeps(y, z, r)
    PROVE  Keeps(x, z, r)
BY DEF Keeps

LEMMA KeepsCompleted ==
    ASSUME NEW r \in Runner, NEW t \in Task, NEW x, NEW y, NEW z,
           Keeps(x, y, r), Completed(y, z, r, t)
    PROVE  Completed(x, z, r, t)
BY DEF Keeps, Completed

LEMMA CompletedKeeps ==
    ASSUME NEW r \in Runner, NEW t \in Task, NEW x, NEW y, NEW z,
           Completed(x, y, r, t), Keeps(y, z, r)
    PROVE  Completed(x, z, r, t)
BY DEF Keeps, Completed

\* Whoever keeps all but its own fields keeps the invariant, if its fields agree.
LEMMA KeepsBase ==
    ASSUME NEW r \in Runner, NEW x, NEW y, BaseBut(x, r), Keeps(x, y, r), ContextOK(y.runner[r])
    PROVE  Base(y)
<1>1. Agree(y)
  <2>1. \A q \in Runner : y.runner[q].activeTask = x.runner[q].activeTask
    BY DEF Keeps
  <2>2. \A q \in Runner : Assigned(y, q) = Assigned(x, q)
    BY DEF Assigned, Keeps
  <2> QED
    BY <2>1, <2>2 DEF BaseBut, Agree
<1>2. Contexts(y)
  BY DEF BaseBut, Contexts, Keeps
<1>3. \A q \in Runner : y.runner[q].isOnline = x.runner[q].isOnline
  BY DEF Keeps
<1>4. \A t \in Task : Owner[t] \in Runner
  BY TasksAssumption
<1>5. Once(y)
  BY <1>3, <1>4 DEF BaseBut, Once, Due, Keeps
<1>6. Online(y)
  BY <1>3, <1>4 DEF BaseBut, Online, Keeps
<1> QED
  BY <1>1, <1>2, <1>5, <1>6 DEF Base, BaseBut, Keeps, Bound

LEMMA KeepsWake ==
    ASSUME NEW r \in Runner, NEW x, NEW y, Wake(x), Keeps(x, y, r)
    PROVE  Wake(y)
BY DEF Wake, TaskWake, StartWake, Keeps, Queued, ExpirationTime, IsBlocked

LEMMA KeepsGood ==
    ASSUME NEW r \in Runner, NEW x, NEW y, Good(x), Keeps(x, y, r), ContextOK(y.runner[r])
    PROVE  Good(y)
BY KeepsBase, KeepsWake DEF Good, Base, BaseBut, Contexts

\* A task that ended is accounted for, and the posted check wakes everybody up.
LEMMA EndedGood ==
    ASSUME NEW r \in Runner, NEW t \in Task, NEW x, NEW y, BaseBut(x, r), x.current = t,
           Owner[t] = r, Ended(x, y, r, t), ContextOK(y.runner[r])
    PROVE  Good(y)
<1>0. t # None /\ x \in SystemType
  BY NoneAssumption DEF BaseBut
<1>1. Agree(y)
  <2>1. \A q \in Runner : Assigned(y, q) = None
    BY DEF Assigned, Ended
  <2>2. \A q \in Runner \ {r} : Assigned(x, q) = None
    BY DEF Assigned
  <2>3. \A q \in Runner \ {r} : x.runner[q].activeTask = None
    BY <2>2 DEF BaseBut, Agree
  <2> QED
    BY <2>1, <2>3 DEF Agree, Ended
<1>2. Contexts(y)
  BY DEF BaseBut, Contexts, Ended
<1>3. \A q \in Runner : y.runner[q].isOnline = x.runner[q].isOnline
  BY DEF Ended
<1>4. \A u \in Task : Owner[u] \in Runner
  BY TasksAssumption
<1>5. \A u \in Task : x.queue[u] \in Nat /\ x.told[u] \in Nat /\ u # None
  BY <1>0, Fields, NoneAssumption
<1>6. x.queue[t] = 0
  BY <1>5 DEF BaseBut, Once, Due
<1>7. x.runner[r].isOnline
  BY DEF BaseBut, Online
<1>8. Once(y)
  <2> SUFFICES ASSUME NEW u \in Task
               PROVE  y.queue[u] = Due(y, u)
    BY <1>5, Fields DEF Once, Ended
  <2>1. x.queue[u] + (IF x.current = u THEN 1 ELSE 0) = Due(x, u)
    BY DEF BaseBut, Once
  <2>2. CASE u # t
    BY <2>1, <2>2, <1>3, <1>4, <1>5 DEF Due, Ended
  <2>3. CASE u = t
    <3>1. Due(x, t) = 1
      BY <1>6, <2>1, <2>3
    <3>2. CASE IsRecurring(t)
      BY <2>3, <3>1, <3>2, <1>3, <1>4, <1>5, <1>6 DEF Due, Ended
    <3>3. CASE ~IsRecurring(t)
      BY <2>3, <3>1, <3>3, <1>5, <1>6 DEF Due, Ended
    <3> QED
      BY <3>2, <3>3
  <2> QED
    BY <2>2, <2>3
<1>9. Online(y)
  <2> SUFFICES ASSUME NEW u \in Task, y.queue[u] > 0 \/ y.current = u
               PROVE  y.runner[Owner[u]].isOnline
    BY DEF Online
  <2>1. u = t \/ x.queue[u] > 0
    BY <1>5 DEF Ended
  <2> QED
    BY <2>1, <1>3, <1>4 DEF BaseBut, Online
<1> QED
  BY <1>1, <1>2, <1>8, <1>9 DEF Good, Base, BaseBut, Wake, Ended, Bound

-------------------------------------------------------------------------------
\* The elementary operations.

WithRunner(x, r, c) == [x EXCEPT !.runner[r] = c]

LEMMA RunnerUpdate ==
    ASSUME NEW x \in SystemType, NEW r \in Runner, NEW c \in MContext,
           c.isOnline = x.runner[r].isOnline, c.activeTask = x.runner[r].activeTask
    PROVE  LET y == WithRunner(x, r, c)
           IN  Keeps(x, y, r) /\ y.runner[r] = c /\ y.step = x.step
<1> DEFINE y == WithRunner(x, r, c)
<1>1. [x.runner EXCEPT ![r] = c] \in [Runner -> MContext]
  BY Fields
<1>2. y \in SystemType
  BY <1>1 DEF SystemType, WithRunner
<1> QED
  BY <1>2 DEF Keeps, SystemType, WithRunner

WithStep(x, t, n) == [x EXCEPT !.step[t] = n]

LEMMA StepUpdate ==
    ASSUME NEW x \in SystemType, NEW r \in Runner, NEW t \in Task, NEW n \in Nat
    PROVE  LET y == WithStep(x, t, n)
           IN  Keeps(x, y, r) /\ y.runner = x.runner
<1> DEFINE y == WithStep(x, t, n)
<1>1. [x.step EXCEPT ![t] = n] \in [Task -> Nat]
  BY Fields
<1>2. y \in SystemType
  BY <1>1 DEF SystemType, WithStep
<1> QED
  BY <1>2 DEF Keeps, SystemType, WithStep

LEMMA TransmitFacts ==
    ASSUME NEW x \in SystemType, NEW r \in Runner
    PROVE  LET y == Transmit(x, r)
           IN  /\ Keeps(x, y, r)
               /\ y.runner[r] = [x.runner[r] EXCEPT !.isSending = TRUE, !.owed = @ + 1]
<1> DEFINE c == [x.runner[r] EXCEPT !.isSending = TRUE, !.owed = @ + 1]
<1>1. x.runner[r] \in MContext /\ x.runner[r].owed + 1 \in Nat
  BY Fields DEF MContext
<1>2. c \in MContext /\ c.isOnline = x.runner[r].isOnline
      /\ c.activeTask = x.runner[r].activeTask
  BY <1>1 DEF MContext
<1>3. Transmit(x, r) = WithRunner(x, r, c)
  BY <1>1, Fields DEF Transmit, WithRunner, SystemType, MContext
<1> HIDE DEF c
<1>4. Keeps(x, Transmit(x, r), r) /\ Transmit(x, r).runner[r] = c
  BY <1>2, <1>3, RunnerUpdate
<1> QED
  BY <1>4 DEF c

LEMMA CompleteTaskFacts ==
    ASSUME NEW x \in SystemType, NEW r \in Runner, NEW t \in Task, NEW result
    PROVE  LET y == CompleteTask(x, t, result)
           IN  Completed(x, y, r, t) /\ y.runner = x.runner
<1> DEFINE y == CompleteTask(x, t, result)
           b == CompletedBehavior(t, x.behavior[t], result)
           k == CASE result = "NO_COMMS" -> x.blocking
                  [] result = "SUCCESS" -> x.blocking \ {t}
                  [] OTHER -> IF BlocksLowerPriority(t) THEN x.blocking \cup {t} ELSE x.blocking
           n == InitStep(t)
           m == IF IsRecurring(t) THEN x.told[t] ELSE x.told[t] + 1
<1>1. y = [x EXCEPT !.behavior[t] = b, !.blocking = k, !.step[t] = n, !.told[t] = m]
  BY DEF CompleteTask, SystemType
<1>2. b \in Behavior /\ k \in SUBSET Task /\ n \in Nat /\ m \in Nat
  <2>1. x.behavior[t] \in Behavior /\ x.blocking \in SUBSET Task /\ x.told[t] \in Nat
    BY Fields
  <2>2. b \in Behavior
    BY <2>1, BehaviorTypes
  <2>3. n \in Nat
    BY StepTypes
  <2>4. k \in SUBSET Task
    BY <2>1
  <2> QED
    BY <2>1, <2>2, <2>3, <2>4
<1> HIDE DEF y, b, k, n
<1>3. y \in SystemType
  BY <1>1, <1>2 DEF SystemType
<1> QED
  BY <1>1, <1>3 DEF Completed, SystemType, y

\* The end of a task: the scheduler takes it back from the master.
EndTask(x, r) == [CompleteActiveTask(x, r) EXCEPT !.runner[r].tstate = "IDLE"]

LEMMA EndFacts ==
    ASSUME NEW r \in Runner, NEW t \in Task, NEW x, NEW y, Completed(x, y, r, t),
           y.current = t, Owner[t] = r, y.runner[r].activeTask = t
    PROVE  LET z == EndTask(y, r)
           IN  /\ Ended(x, z, r, t)
               /\ z.runner[r].tstate = "IDLE"
               /\ z.runner[r].isSending = y.runner[r].isSending
               /\ z.runner[r].owed = y.runner[r].owed
<1> DEFINE z == EndTask(y, r)
           c == [y.runner[r] EXCEPT !.activeTask = None, !.tstate = "IDLE"]
           q == IF IsRecurring(t) THEN [y.queue EXCEPT ![t] = @ + 1] ELSE y.queue
           k == [y EXCEPT !.runner[r] = c, !.queue = q, !.current = None, !.pending = TRUE]
<1>0. y \in SystemType /\ t # None
  BY NoneAssumption DEF Completed
<1>1. y.runner[r] \in MContext /\ y.queue \in [Task -> Nat]
  BY <1>0, Fields
<1>2. /\ c \in MContext /\ c.isOnline = y.runner[r].isOnline
      /\ c.activeTask = None /\ c.tstate = "IDLE"
      /\ c.isSending = y.runner[r].isSending /\ c.owed = y.runner[r].owed
  BY <1>1 DEF MContext
<1>3. q \in [Task -> Nat]
  BY <1>1
<1>4. z = k
  <2> DEFINE w == [y EXCEPT !.runner[r].activeTask = None]
  <2>1. w \in SystemType /\ w.current = t /\ w.queue = y.queue
    BY <1>0, <1>1 DEF SystemType, MContext
  <2>2. CompleteActiveTask(y, r) = CompleteCurrentFor(w, r)
    BY <1>0 DEF CompleteActiveTask
  <2>3. CompleteCurrentFor(w, r) = [w EXCEPT !.queue = q, !.current = None, !.pending = TRUE]
    <3>1. CASE IsRecurring(t)
      BY <2>1, <3>1, <1>0 DEF CompleteCurrentFor, PostCheckForTaskRun, Add, SystemType
    <3>2. CASE ~IsRecurring(t)
      BY <2>1, <3>2, <1>0 DEF CompleteCurrentFor, PostCheckForTaskRun, SystemType
    <3> QED
      BY <3>1, <3>2
  <2> DEFINE d == [y.runner[r] EXCEPT !.activeTask = None]
             f == [y.runner EXCEPT ![r] = d]
  <2>4. y.runner \in [Runner -> MContext] /\ d \in MContext
    BY <1>0, <1>1, Fields DEF MContext
  <2>5. w = [y EXCEPT !.runner = f]
    BY <1>0, <1>1 DEF SystemType, MContext
  <2>6. [d EXCEPT !.tstate = "IDLE"] = c
    BY <1>1 DEF MContext
  <2> HIDE DEF q, d, c
  <2>7. f \in [Runner -> MContext] /\ f[r] = d
    BY <2>4
  <2>8. [f EXCEPT ![r].tstate = "IDLE"] = [y.runner EXCEPT ![r] = c]
    BY <2>4, <2>6, <2>7
  <2> HIDE DEF f, w
  <2> DEFINE v == [w EXCEPT !.queue = q, !.current = None, !.pending = TRUE]
             g == [f EXCEPT ![r].tstate = "IDLE"]
  <2>9. v = [y EXCEPT !.runner = f, !.queue = q, !.current = None, !.pending = TRUE]
    BY <2>5, <1>0 DEF SystemType
  <2>10. z = [v EXCEPT !.runner[r].tstate = "IDLE"]
    BY <2>2, <2>3 DEF EndTask
  <2> HIDE DEF v
  <2>11. z = [v EXCEPT !.runner = g]
    BY <2>9, <2>10, <1>0 DEF SystemType
  <2> HIDE DEF g, z
  <2>12. z = [y EXCEPT !.runner = g, !.queue = q, !.current = None, !.pending = TRUE]
    BY <2>9, <2>11, <1>0 DEF SystemType
  <2>13. g = [y.runner EXCEPT ![r] = c]
    BY <2>8 DEF g
  <2> QED
    BY <2>12, <2>13, <1>0 DEF SystemType
<1> HIDE DEF z, c
<1>5. k \in SystemType
  <2>1. [y.runner EXCEPT ![r] = c] \in [Runner -> MContext]
    BY <1>0, <1>2, Fields
  <2> HIDE DEF q
  <2> QED
    BY <2>1, <1>0, <1>3 DEF SystemType
<1>6. /\ k.runner[r] = c /\ \A p \in Runner \ {r} : k.runner[p] = y.runner[p]
      /\ k.current = None /\ k.pending = TRUE /\ k.bound = y.bound /\ k.told = y.told
      /\ k.queue = q
  BY <1>0 DEF SystemType
<1>7. /\ \A u \in Task \ {t} : q[u] = y.queue[u]
      /\ q[t] = IF IsRecurring(t) THEN y.queue[t] + 1 ELSE y.queue[t]
  BY <1>1
<1> HIDE DEF k, q
<1>8. Ended(x, z, r, t)
  BY <1>2, <1>4, <1>5, <1>6, <1>7 DEF Ended, Completed
<1> QED
  BY <1>2, <1>4, <1>6, <1>8 DEF z

LEMMA EndedKeeps ==
    ASSUME NEW r \in Runner, NEW t \in Task, NEW x, NEW y, NEW z,
           Ended(x, y, r, t), Keeps(y, z, r)
    PROVE  Ended(x, z, r, t)
BY DEF Keeps, Ended

LEMMA KeepsEnded ==
    ASSUME NEW r \in Runner, NEW t \in Task, NEW x, NEW y, NEW z,
           Keeps(x, y, r), Ended(y, z, r, t)
    PROVE  Ended(x, z, r, t)
BY DEF Keeps, Ended

\* What CheckConfirmTransmit and QueueConfirm make of a master.
Confirming(c, d) ==
    /\ d.tstate = c.tstate
    /\ d.activeTask = c.activeTask
    /\ d.responseTimer = c.responseTimer
    /\ Accounted(d)
    /\ c.isSending => d.isSending
    /\ d.confirmQueue > 0 => d.isSending

LEMMA CheckConfirmFacts ==
    ASSUME NEW x \in SystemType, NEW r \in Runner, Accounted(x.runner[r])
    PROVE  LET y == CheckConfirmTransmit(x, r)
           IN  Keeps(x, y, r) /\ Confirming(x.runner[r], y.runner[r])
<1>0. x.runner[r] \in MContext
  BY Fields
<1>1. CASE x.runner[r].isSending \/ x.runner[r].confirmQueue = 0
  <2>1. CheckConfirmTransmit(x, r) = x
    BY <1>1 DEF CheckConfirmTransmit
  <2>2. x.runner[r].confirmQueue > 0 => x.runner[r].isSending
    BY <1>0, <1>1 DEF MContext
  <2> QED
    BY <2>1, <2>2 DEF Keeps, Confirming
<1>2. CASE ~(x.runner[r].isSending \/ x.runner[r].confirmQueue = 0)
  <2> DEFINE y == Transmit(x, r)
             c == [y.runner[r] EXCEPT !.confirmQueue = @ - 1]
  <2>1. /\ Keeps(x, y, r)
        /\ y.runner[r] = [x.runner[r] EXCEPT !.isSending = TRUE, !.owed = @ + 1]
    BY TransmitFacts
  <2>2. y \in SystemType
    BY <2>1 DEF Keeps
  <2>3. CheckConfirmTransmit(x, r) = [y EXCEPT !.runner[r].confirmQueue = @ - 1]
    BY <1>2 DEF CheckConfirmTransmit
  <2>4. /\ y.runner[r] \in MContext
        /\ y.runner[r].confirmQueue = x.runner[r].confirmQueue
        /\ y.runner[r].isSending = TRUE
        /\ y.runner[r].owed = x.runner[r].owed + 1
        /\ y.runner[r].tstate = x.runner[r].tstate
        /\ y.runner[r].activeTask = x.runner[r].activeTask
        /\ y.runner[r].responseTimer = x.runner[r].responseTimer
    BY <2>1, <2>2, <1>0, Fields DEF MContext
  <2>5. x.runner[r].confirmQueue - 1 \in Nat
    BY <1>0, <1>2 DEF MContext
  <2>6. c \in MContext /\ c.isOnline = y.runner[r].isOnline
        /\ c.activeTask = y.runner[r].activeTask /\ c.tstate = y.runner[r].tstate
        /\ c.responseTimer = y.runner[r].responseTimer /\ c.isSending = TRUE
        /\ c.owed = y.runner[r].owed
    BY <2>4, <2>5 DEF MContext
  <2>7. CheckConfirmTransmit(x, r) = WithRunner(y, r, c)
    BY <2>2, <2>3, <2>4 DEF WithRunner, SystemType, MContext
  <2> HIDE DEF c
  <2>8. /\ Keeps(y, CheckConfirmTransmit(x, r), r)
        /\ CheckConfirmTransmit(x, r).runner[r] = c
    BY <2>2, <2>6, <2>7, RunnerUpdate
  <2>9. Accounted(c)
    BY <2>4, <2>6, <1>2, <1>0 DEF Accounted, MContext
  <2> QED
    BY <2>1, <2>4, <2>6, <2>8, <2>9, KeepsTransitive DEF Confirming
<1> QED
  BY <1>1, <1>2

LEMMA QueueConfirmFacts ==
    ASSUME NEW x \in SystemType, NEW r \in Runner, Accounted(x.runner[r])
    PROVE  LET y == QueueConfirm(x, r)
           IN  Keeps(x, y, r) /\ Confirming(x.runner[r], y.runner[r])
<1> DEFINE c == [x.runner[r] EXCEPT !.confirmQueue = @ + 1]
           y == WithRunner(x, r, c)
<1>1. x.runner[r] \in MContext
  BY Fields
<1>2. x.runner[r].confirmQueue + 1 \in Nat
  BY <1>1 DEF MContext
<1>3. c \in MContext /\ c.isOnline = x.runner[r].isOnline
      /\ c.activeTask = x.runner[r].activeTask /\ c.tstate = x.runner[r].tstate
      /\ c.responseTimer = x.runner[r].responseTimer
      /\ c.isSending = x.runner[r].isSending /\ c.owed = x.runner[r].owed
  BY <1>1, <1>2 DEF MContext
<1>4. QueueConfirm(x, r) = CheckConfirmTransmit(y, r)
  BY <1>1 DEF QueueConfirm, WithRunner, SystemType, MContext
<1> HIDE DEF c
<1>5. Keeps(x, y, r) /\ y.runner[r] = c
  BY <1>3, RunnerUpdate
<1>6. y \in SystemType /\ Accounted(y.runner[r])
  BY <1>3, <1>5 DEF Keeps, Accounted
<1> HIDE DEF y
<1>7. Keeps(y, QueueConfirm(x, r), r) /\ Confirming(y.runner[r], QueueConfirm(x, r).runner[r])
  BY <1>4, <1>6, CheckConfirmFacts
<1> QED
  BY <1>3, <1>5, <1>7, KeepsTransitive DEF Confirming

-------------------------------------------------------------------------------
\* The handlers of a master that runs task t.

Runs(x, r, t) ==
    x.current = t /\ Owner[t] = r /\ x.runner[r].activeTask = t

\* The master still runs t or t has ended; either way the master is in order.
Outcome(x, y, r, t) ==
    (Keeps(x, y, r) \/ Ended(x, y, r, t)) /\ ContextOK(y.runner[r])

LEMMA OutcomeGoodBut ==
    ASSUME NEW r \in Runner, NEW t \in Task, NEW x, NEW y, BaseBut(x, r), Wake(x),
           x.current = t, Owner[t] = r, Outcome(x, y, r, t)
    PROVE  Good(y)
BY KeepsBase, KeepsWake, EndedGood DEF Outcome, Good

LEMMA OutcomeGood ==
    ASSUME NEW r \in Runner, NEW t \in Task, NEW x, NEW y, Good(x), x.current = t,
           Owner[t] = r, Outcome(x, y, r, t)
    PROVE  Good(y)
BY OutcomeGoodBut DEF Good, Base, BaseBut, Contexts

LEMMA KeepsOutcome ==
    ASSUME NEW r \in Runner, NEW t \in Task, NEW x, NEW y, NEW z,
           Keeps(x, y, r), Outcome(y, z, r, t)
    PROVE  Outcome(x, z, r, t)
BY KeepsTransitive, KeepsEnded DEF Outcome

LEMMA KeepsRuns ==
    ASSUME NEW r \in Runner, NEW t \in Task, NEW x, NEW y, Keeps(x, y, r), Runs(x, r, t)
    PROVE  Runs(y, r, t)
BY DEF Keeps, Runs

\* Completing the task and telling the scheduler.
LEMMA CompleteOutcome ==
    ASSUME NEW r \in Runner, NEW t \in Task, NEW x, NEW y, Completed(x, y, r, t),
           Runs(x, r, t), Accounted(y.runner[r])
    PROVE  Outcome(x, EndTask(y, r), r, t)
<1> DEFINE z == EndTask(y, r)
<1>1. y.current = t /\ y.runner[r].activeTask = t /\ Owner[t] = r
  BY DEF Completed, Runs
<1>2. /\ Ended(x, z, r, t) /\ z.runner[r].tstate = "IDLE"
      /\ z.runner[r].isSending = y.runner[r].isSending
      /\ z.runner[r].owed = y.runner[r].owed
  BY <1>1, EndFacts
<1> HIDE DEF z
<1>3. z.runner[r].activeTask = None
  BY <1>2 DEF Ended
<1>4. ContextOK(z.runner[r])
  BY <1>2, <1>3 DEF ContextOK, Accounted
<1> QED
  BY <1>2, <1>4 DEF Outcome, z

LEMMA ResumeOutcome ==
    ASSUME NEW x \in SystemType, NEW r \in Runner, NEW t \in Task, NEW b,
           Runs(x, r, t), ~x.runner[r].isSending, Accounted(x.runner[r])
    PROVE  Outcome(x, ResumeActiveTask(x, r, b), r, t)
<1> DEFINE n == BuildStep(t, x.step[t])
           y == WithStep(x, t, n)
<1>0. x.runner[r].activeTask = t /\ t # None
  BY NoneAssumption DEF Runs
<1>1. n \in Nat
  BY StepTypes, Fields
<1>2. y = [x EXCEPT !.step[t] = BuildStep(t, @)]
  BY DEF SystemType, WithStep
<1> HIDE DEF n
<1>3. Keeps(x, y, r) /\ y.runner = x.runner
  BY <1>1, StepUpdate
<1> HIDE DEF y
<1>4. y \in SystemType /\ y.runner[r] \in MContext /\ Runs(y, r, t)
  BY <1>3, KeepsRuns, Fields DEF Keeps
<1>5. CASE b \/ ~MayFailToBuild(t)
  <2> DEFINE c == [y.runner[r] EXCEPT !.responseTimer = TimerStart(@),
                                      !.tstate = "WAIT_FOR_RESPONSE"]
             w == WithRunner(y, r, c)
             z == Transmit(w, r)
  <2>1. y.runner[r].responseTimer \in TimerRefType
    BY <1>4 DEF MContext
  <2>2. /\ TimerStart(y.runner[r].responseTimer) \in TimerRefType
        /\ IsActive(TimerStart(y.runner[r].responseTimer))
    BY <2>1, TimerFacts
  <2>3. /\ c \in MContext /\ c.isOnline = y.runner[r].isOnline
        /\ c.activeTask = y.runner[r].activeTask /\ c.tstate = "WAIT_FOR_RESPONSE"
        /\ c.responseTimer = TimerStart(y.runner[r].responseTimer)
        /\ c.owed = y.runner[r].owed
    BY <1>4, <2>2 DEF MContext
  <2>4. w = [y EXCEPT !.runner[r].responseTimer = TimerStart(@),
                      !.runner[r].tstate = "WAIT_FOR_RESPONSE"]
    BY <1>4 DEF WithRunner, SystemType, MContext
  <2>5. ResumeActiveTask(x, r, b) = z
    BY <1>0, <1>2, <1>5, <2>4 DEF ResumeActiveTask
  <2> HIDE DEF c
  <2>6. Keeps(y, w, r) /\ w.runner[r] = c
    BY <1>4, <2>3, RunnerUpdate
  <2>7. w \in SystemType
    BY <2>6 DEF Keeps
  <2> HIDE DEF w
  <2>8. Keeps(w, z, r) /\ z.runner[r] = [c EXCEPT !.isSending = TRUE, !.owed = @ + 1]
    BY <2>6, <2>7, TransmitFacts
  <2> HIDE DEF z
  <2>9. /\ z.runner[r].isSending = TRUE /\ z.runner[r].owed = c.owed + 1
        /\ z.runner[r].tstate = c.tstate /\ z.runner[r].activeTask = c.activeTask
        /\ z.runner[r].responseTimer = c.responseTimer
    BY <2>3, <2>8 DEF MContext
  <2>10. c.owed = 0
    BY <2>3, <1>3 DEF Accounted
  <2>11. ContextOK(z.runner[r])
    BY <1>0, <1>3, <2>2, <2>3, <2>9, <2>10 DEF ContextOK, Accounted
  <2>12. Keeps(x, z, r)
    BY <1>3, <2>6, <2>8, KeepsTransitive
  <2> QED
    BY <2>5, <2>11, <2>12 DEF Outcome
<1>6. CASE ~(b \/ ~MayFailToBuild(t))
  <2> DEFINE w == CompleteTask(y, t, "MESSAGE_FORMAT_ERROR")
  <2>1. ResumeActiveTask(x, r, b) = EndTask(w, r)
    BY <1>0, <1>2, <1>6 DEF ResumeActiveTask, EndTask
  <2>2. Completed(y, w, r, t) /\ w.runner = y.runner
    BY <1>4, CompleteTaskFacts
  <2> HIDE DEF w
  <2>3. Completed(x, w, r, t) /\ w.runner[r] = x.runner[r]
    BY <1>3, <2>2, KeepsCompleted
  <2> QED
    BY <2>1, <2>3, CompleteOutcome
<1> QED
  BY <1>5, <1>6

LEMMA ConfirmOutcome ==
    ASSUME NEW r \in Runner, NEW t \in Task, NEW x, NEW y, NEW z, Outcome(x, y, r, t),
           Keeps(y, z, r), Confirming(y.runner[r], z.runner[r])
    PROVE  Outcome(x, z, r, t)
<1>1. ContextOK(z.runner[r])
  BY DEF Outcome, ContextOK, Confirming
<1> QED
  BY <1>1, KeepsTransitive, EndedKeeps DEF Outcome

\* A master that is not idle runs the task of the scheduler, and is online.
LEMMA BusyRuns ==
    ASSUME NEW x, Base(x), NEW r \in Runner, x.runner[r].tstate # "IDLE"
    PROVE  /\ x.current \in Task
           /\ Runs(x, r, x.current)
           /\ x.runner[r].isOnline
<1>1. x.current \in Task \cup {None}
  BY Fields DEF Base
<1>2. x.runner[r].activeTask # None
  BY DEF Base, Contexts, ContextOK
<1>3. x.runner[r].activeTask = Assigned(x, r)
  BY DEF Base, Agree
<1>4. x.current # None /\ Owner[x.current] = r /\ x.runner[r].activeTask = x.current
  BY <1>2, <1>3 DEF Assigned
<1>5. x.runner[Owner[x.current]].isOnline
  BY <1>1, <1>4 DEF Base, Online
<1> QED
  BY <1>1, <1>4, <1>5 DEF Runs

LEMMA TxReadyGood ==
    ASSUME NEW x, Good(x), NEW r \in Runner, x.runner[r].owed > 0, NEW b
    PROVE  Good(OnTxReady(x, r, b))
<1> DEFINE c == [x.runner[r] EXCEPT !.isSending = FALSE, !.owed = @ - 1]
           y == WithRunner(x, r, c)
<1>0. x \in SystemType /\ x.runner[r] \in MContext /\ ContextOK(x.runner[r]) /\ Base(x)
  BY Fields DEF Good, Base, Contexts
<1>1. x.runner[r].owed - 1 = 0
  BY <1>0 DEF ContextOK, Accounted
<1>2. /\ c \in MContext /\ c.isOnline = x.runner[r].isOnline
      /\ c.activeTask = x.runner[r].activeTask /\ c.tstate = x.runner[r].tstate
      /\ c.responseTimer = x.runner[r].responseTimer
      /\ c.isSending = FALSE /\ c.owed = 0
  <2>1. c = [x.runner[r] EXCEPT !.isSending = FALSE, !.owed = 0]
    BY <1>1
  <2> HIDE DEF c
  <2> QED
    BY <2>1, <1>0 DEF MContext
<1>3. y = [x EXCEPT !.runner[r].isSending = FALSE, !.runner[r].owed = @ - 1]
  BY <1>0 DEF WithRunner, SystemType, MContext
<1> HIDE DEF c
<1>4. Keeps(x, y, r) /\ y.runner[r] = c
  BY <1>0, <1>2, RunnerUpdate
<1> HIDE DEF y
<1>5. y \in SystemType /\ Accounted(y.runner[r])
  BY <1>2, <1>4 DEF Keeps, Accounted
<1>6. CASE x.runner[r].tstate = "TASK_READY"
  <2> DEFINE t == x.current
             z == ResumeActiveTask(y, r, b)
  <2>1. t \in Task /\ Runs(x, r, t)
    BY <1>0, <1>6, BusyRuns
  <2>2. Outcome(y, z, r, t)
    BY <2>1, <1>2, <1>4, <1>5, KeepsRuns, ResumeOutcome
  <2>3. Outcome(x, z, r, t)
    BY <2>1, <2>2, <1>4, KeepsOutcome
  <2>4. OnTxReady(x, r, b) = CheckConfirmTransmit(z, r)
    BY <1>3, <1>6 DEF OnTxReady
  <2> HIDE DEF t, z
  <2>5. z \in SystemType /\ Accounted(z.runner[r])
    BY <2>3 DEF Outcome, Keeps, Ended, ContextOK
  <2>6. Outcome(x, OnTxReady(x, r, b), r, t)
    BY <2>1, <2>3, <2>4, <2>5, CheckConfirmFacts, ConfirmOutcome
  <2> QED
    BY <2>1, <2>6, OutcomeGood DEF Runs, t
<1>7. CASE x.runner[r].tstate # "TASK_READY"
  <2> DEFINE z == OnTxReady(x, r, b)
  <2>1. z = CheckConfirmTransmit(y, r)
    BY <1>3, <1>7 DEF OnTxReady
  <2>2. Keeps(y, z, r) /\ Confirming(y.runner[r], z.runner[r])
    BY <2>1, <1>5, CheckConfirmFacts
  <2> HIDE DEF z
  <2>3. ContextOK(z.runner[r])
    BY <2>2, <1>0, <1>2, <1>4, <1>7 DEF ContextOK, Confirming
  <2> QED
    BY <2>2, <2>3, <1>4, KeepsTransitive, KeepsGood DEF z
<1> QED
  BY <1>6, <1>7

\* Two masters that differ in the timer and the sequence number only.
Alike(c, d) ==
    /\ d.isOnline = c.isOnline /\ d.isSending = c.isSending /\ d.tstate = c.tstate
    /\ d.activeTask = c.activeTask /\ d.confirmQueue = c.confirmQueue /\ d.owed = c.owed

WithTimer(x, r, tm) == [x EXCEPT !.runner[r].responseTimer = tm]

LEMMA TimerUpdate ==
    ASSUME NEW x \in SystemType, NEW r \in Runner, NEW tm \in TimerRefType
    PROVE  LET y == WithTimer(x, r, tm)
           IN  /\ Keeps(x, y, r) /\ y.step = x.step
               /\ Alike(x.runner[r], y.runner[r]) /\ y.runner[r].responseTimer = tm
<1> DEFINE c == [x.runner[r] EXCEPT !.responseTimer = tm]
<1>1. x.runner[r] \in MContext
  BY Fields
<1>2. c \in MContext /\ Alike(x.runner[r], c) /\ c.responseTimer = tm
  BY <1>1 DEF MContext, Alike
<1>3. WithTimer(x, r, tm) = WithRunner(x, r, c)
  BY <1>1 DEF WithTimer, WithRunner, SystemType, MContext
<1> HIDE DEF c
<1>4. /\ Keeps(x, WithRunner(x, r, c), r) /\ WithRunner(x, r, c).runner[r] = c
      /\ WithRunner(x, r, c).step = x.step
  BY <1>2, RunnerUpdate DEF Alike
<1> QED
  BY <1>2, <1>3, <1>4

LEMMA IncrementSeqFacts ==
    ASSUME NEW x \in SystemType, NEW r \in Runner
    PROVE  LET y == IncrementSeq(x, r)
           IN  /\ Keeps(x, y, r) /\ y.step = x.step
               /\ Alike(x.runner[r], y.runner[r])
<1> DEFINE n == (x.runner[r].solSeq + 1) % SeqMod
           c == [x.runner[r] EXCEPT !.solSeq = n]
<1>1. x.runner[r] \in MContext
  BY Fields
<1>2. n \in 0 .. SeqMod - 1
  BY <1>1, SeqTypes DEF MContext
<1>3. IncrementSeq(x, r) = WithRunner(x, r, c)
  BY <1>1 DEF IncrementSeq, WithRunner, SystemType, MContext
<1> HIDE DEF n
<1>4. c \in MContext /\ Alike(x.runner[r], c)
  BY <1>1, <1>2 DEF MContext, Alike
<1> HIDE DEF c
<1>5. /\ Keeps(x, WithRunner(x, r, c), r) /\ WithRunner(x, r, c).runner[r] = c
      /\ WithRunner(x, r, c).step = x.step
  BY <1>4, RunnerUpdate DEF Alike
<1> QED
  BY <1>3, <1>4, <1>5

\* The timeout of a response, however the timer came to run.
LEMMA TimeoutGood ==
    ASSUME NEW x, Good(x), NEW r \in Runner, NEW y, Keeps(x, y, r),
           Alike(x.runner[r], y.runner[r])
    PROVE  Good(OnResponseTimeout(y, r))
<1>0. /\ x \in SystemType /\ ContextOK(x.runner[r]) /\ Base(x) /\ y \in SystemType
  BY DEF Good, Base, Contexts, Keeps
<1>1. CASE ~y.runner[r].isOnline \/ y.runner[r].tstate # "WAIT_FOR_RESPONSE"
  <2>1. OnResponseTimeout(y, r) = y
    BY <1>1 DEF OnResponseTimeout
  <2>2. x.runner[r].tstate # "WAIT_FOR_RESPONSE"
    BY <1>0, <1>1, BusyRuns DEF Alike
  <2>3. ContextOK(y.runner[r])
    BY <2>2, <1>0 DEF ContextOK, Alike, Accounted
  <2> QED
    BY <2>1, <2>3, KeepsGood
<1>2. CASE y.runner[r].isOnline /\ y.runner[r].tstate = "WAIT_FOR_RESPONSE"
  <2> DEFINE t == x.current
             w == CompleteTask(y, t, "RESPONSE_TIMEOUT")
             z == IncrementSeq(w, r)
  <2>1. t \in Task /\ Runs(x, r, t)
    BY <1>0, <1>2, BusyRuns DEF Alike
  <2>2. OnResponseTimeout(y, r) = EndTask(z, r)
    BY <1>2, <2>1 DEF OnResponseTimeout, EndTask, Runs, Alike
  <2> HIDE DEF t
  <2>3. Completed(y, w, r, t) /\ w.runner = y.runner
    BY <1>0, <2>1, CompleteTaskFacts
  <2> HIDE DEF w
  <2>4. Completed(x, w, r, t) /\ w \in SystemType
    BY <2>1, <2>3, KeepsCompleted DEF Completed
  <2>5. Keeps(w, z, r) /\ Alike(w.runner[r], z.runner[r])
    BY <2>4, IncrementSeqFacts
  <2> HIDE DEF z
  <2>6. Completed(x, z, r, t)
    BY <2>1, <2>4, <2>5, CompletedKeeps
  <2>7. Accounted(z.runner[r])
    BY <2>3, <2>5, <1>0 DEF Alike, Accounted, ContextOK
  <2>8. Outcome(x, EndTask(z, r), r, t)
    BY <2>1, <2>6, <2>7, CompleteOutcome
  <2> QED
    BY <2>1, <2>2, <2>8, OutcomeGood DEF Runs, t
<1> QED
  BY <1>1, <1>2

LEMMA ResultTypes ==
    ASSUME NEW t \in Task, NEW n \in Nat, NEW p
    PROVE  ProcessResponse(t, n, p) \in {"BAD", "FINAL", "CONTINUE", "REPEAT"}
BY DEF ProcessResponse, CommandResponse, PollResponse, TimeSyncResponse

\* What a master awaits while it handles a response: its timer is not yet set.
Handling(c, t) ==
    /\ c.tstate = "WAIT_FOR_RESPONSE" /\ c.activeTask = t /\ Accounted(c)
    /\ c.confirmQueue > 0 => c.isSending
    /\ c.responseTimer \in TimerRefType

LEMMA TaskResponseFacts ==
    ASSUME NEW x \in SystemType, NEW r \in Runner, NEW t \in Task, NEW p
    PROVE  LET y == OnTaskResponse(x, t, p)
               result == ProcessResponse(t, x.step[t], p)
           IN  /\ y.runner = x.runner
               /\ result \in {"BAD", "FINAL"} => Completed(x, y, r, t)
               /\ result \notin {"BAD", "FINAL"} => Keeps(x, y, r)
<1> DEFINE n == ResponseStep(t, x.step[t], p)
           y == WithStep(x, t, n)
           result == ProcessResponse(t, x.step[t], p)
<1>1. n \in Nat
  BY StepTypes, Fields
<1>2. y = [x EXCEPT !.step[t] = ResponseStep(t, @, p)]
  BY DEF WithStep, SystemType
<1> HIDE DEF n
<1>3. Keeps(x, y, r) /\ y.runner = x.runner
  BY <1>1, StepUpdate
<1> HIDE DEF y
<1>4. OnTaskResponse(x, t, p) = CASE result = "BAD" -> CompleteTask(y, t, "BAD_RESPONSE")
                                  [] result = "FINAL" -> CompleteTask(y, t, "SUCCESS")
                                  [] OTHER -> y
  BY <1>2 DEF OnTaskResponse
<1> HIDE DEF result
<1>5. \A res : /\ Completed(x, CompleteTask(y, t, res), r, t)
               /\ CompleteTask(y, t, res).runner = x.runner
  <2> TAKE res
  <2>1. Completed(y, CompleteTask(y, t, res), r, t) /\ CompleteTask(y, t, res).runner = y.runner
    BY <1>3, CompleteTaskFacts DEF Keeps
  <2> QED
    BY <2>1, <1>3, KeepsCompleted
<1>6. CASE result = "BAD"
  BY <1>4, <1>5, <1>6 DEF result
<1>7. CASE result = "FINAL"
  BY <1>4, <1>5, <1>7 DEF result
<1>8. CASE result \notin {"BAD", "FINAL"}
  BY <1>3, <1>4, <1>8 DEF result
<1> QED
  BY <1>6, <1>7, <1>8

LEMMA WaitForResponseOutcome ==
    ASSUME NEW x, Base(x), NEW r \in Runner, NEW t \in Task, Runs(x, r, t),
           x.runner[r].tstate = "WAIT_FOR_RESPONSE", NEW p, NEW b
    PROVE  Outcome(x, WaitForResponse(x, r, p, b), r, t)
<1> DEFINE i == IncrementSeq(x, r)
           x1 == WithTimer(i, r, TimerCancel(i.runner[r].responseTimer))
           x2 == OnTaskResponse(x1, t, p)
           x3 == IF p.CON THEN QueueConfirm(x2, r) ELSE x2
           result == ProcessResponse(t, x.step[t], p)
           c == x3.runner[r]
<1>0. /\ x \in SystemType /\ ContextOK(x.runner[r]) /\ x.step[t] \in Nat
      /\ x.runner[r].activeTask = t /\ x.runner[r].isOnline /\ t # None
  BY BusyRuns, Fields, NoneAssumption DEF Base, Contexts, Runs
<1>1. Keeps(x, i, r) /\ i.step = x.step /\ Alike(x.runner[r], i.runner[r])
  BY <1>0, IncrementSeqFacts
<1>2. i \in SystemType /\ i.runner[r].responseTimer \in TimerRefType
  BY <1>1, Fields DEF Keeps, MContext
<1>3. x1 = [i EXCEPT !.runner[r].responseTimer = TimerCancel(@)]
  BY <1>2 DEF WithTimer, SystemType
<1>4. Keeps(i, x1, r) /\ x1.step = i.step /\ Alike(i.runner[r], x1.runner[r])
  BY <1>2, TimerFacts, TimerUpdate
<1>5. /\ WaitForResponse(x, r, p, b) =
            CASE result = "CONTINUE" -> ContinueTask(x3, r)
              [] result = "REPEAT" -> StartTask(x3, r, b)
              [] OTHER -> EndTask(x3, r)
  BY <1>0, <1>3 DEF WaitForResponse, EndTask
<1> HIDE DEF i, x1
<1>6. Keeps(x, x1, r) /\ x1.step = x.step /\ Alike(x.runner[r], x1.runner[r])
  BY <1>1, <1>4, KeepsTransitive DEF Alike
<1>7. x1 \in SystemType
  BY <1>6 DEF Keeps
<1>8. /\ x2.runner = x1.runner
      /\ result \in {"BAD", "FINAL"} => Completed(x1, x2, r, t)
      /\ result \notin {"BAD", "FINAL"} => Keeps(x1, x2, r)
  BY <1>6, <1>7, TaskResponseFacts
<1> HIDE DEF x2, result
<1>9. /\ result \in {"BAD", "FINAL"} => Completed(x, x2, r, t)
      /\ result \notin {"BAD", "FINAL"} => Keeps(x, x2, r)
  BY <1>6, <1>8, KeepsCompleted, KeepsTransitive
<1>10. x2 \in SystemType /\ x2.runner[r].responseTimer \in TimerRefType
  <2>1. x2 \in SystemType
    BY <1>9 DEF Completed, Keeps
  <2> QED
    BY <2>1, Fields DEF MContext
<1>11. Handling(x2.runner[r], t)
  <2>1. x2.runner[r] \in MContext /\ Alike(x.runner[r], x2.runner[r])
    BY <1>6, <1>8, <1>10, Fields
  <2> QED
    BY <2>1, <1>0, <1>10 DEF Handling, Alike, ContextOK, Accounted, MContext
<1>12. Keeps(x2, x3, r) /\ Handling(c, t)
  <2>1. CASE p.CON
    <3> DEFINE y == QueueConfirm(x2, r)
    <3>1. Keeps(x2, y, r) /\ Confirming(x2.runner[r], y.runner[r])
      BY <1>10, <1>11, QueueConfirmFacts DEF Handling
    <3>2. x3 = y
      BY <2>1
    <3> HIDE DEF y, x3
    <3> QED
      BY <3>1, <3>2, <1>11 DEF Handling, Confirming
  <2>2. CASE ~p.CON
    BY <2>2, <1>10, <1>11 DEF Keeps
  <2> QED
    BY <2>1, <2>2
<1> HIDE DEF x3
<1>13. x3 \in SystemType /\ c \in MContext
  BY <1>12, Fields DEF Keeps
<1>14. CASE result = "CONTINUE"
  <2> DEFINE tm == TimerStart(c.responseTimer)
             z == WithTimer(x3, r, tm)
  <2>1. WaitForResponse(x, r, p, b) = z
    BY <1>5, <1>13, <1>14 DEF ContinueTask, WithTimer, SystemType
  <2>2. tm \in TimerRefType /\ IsActive(tm)
    BY <1>12, TimerFacts DEF Handling
  <2> HIDE DEF tm
  <2>3. Keeps(x3, z, r) /\ Alike(c, z.runner[r]) /\ z.runner[r].responseTimer = tm
    BY <2>2, <1>13, TimerUpdate
  <2>4. Keeps(x, z, r)
    BY <2>3, <1>9, <1>12, <1>14, KeepsTransitive
  <2>5. ContextOK(z.runner[r])
    BY <2>2, <2>3, <1>0, <1>12 DEF Handling, Alike, ContextOK, Accounted
  <2> QED
    BY <2>1, <2>4, <2>5 DEF Outcome
<1>15. CASE result = "REPEAT"
  <2>1. Keeps(x, x3, r)
    BY <1>9, <1>12, <1>15, KeepsTransitive
  <2>2. WaitForResponse(x, r, p, b) = StartTask(x3, r, b)
    BY <1>5, <1>15
  <2>3. CASE c.isSending
    <3> DEFINE d == [c EXCEPT !.tstate = "TASK_READY"]
               z == WithRunner(x3, r, d)
    <3>1. StartTask(x3, r, b) = z
      BY <2>3, <1>13 DEF StartTask, WithRunner, SystemType, MContext
    <3>2. d \in MContext /\ d.isOnline = c.isOnline /\ d.activeTask = c.activeTask
          /\ d.tstate = "TASK_READY" /\ d.isSending = c.isSending /\ d.owed = c.owed
      BY <1>13 DEF MContext
    <3> HIDE DEF d
    <3>3. Keeps(x3, z, r) /\ z.runner[r] = d
      BY <3>2, <1>13, RunnerUpdate
    <3> HIDE DEF z
    <3>4. ContextOK(z.runner[r])
      BY <2>3, <3>2, <3>3, <1>0, <1>12 DEF Handling, ContextOK, Accounted
    <3> QED
      BY <2>1, <2>2, <3>1, <3>3, <3>4, KeepsTransitive DEF Outcome
  <2>4. CASE ~c.isSending
    <3>1. Outcome(x3, ResumeActiveTask(x3, r, b), r, t)
      BY <2>1, <2>4, <1>12, <1>13, KeepsRuns, ResumeOutcome DEF Handling
    <3> QED
      BY <2>1, <2>2, <2>4, <3>1, KeepsOutcome DEF StartTask
  <2> QED
    BY <2>3, <2>4
<1>16. CASE result \in {"BAD", "FINAL"}
  <2>1. Completed(x, x3, r, t)
    BY <1>9, <1>12, <1>16, CompletedKeeps
  <2>2. WaitForResponse(x, r, p, b) = EndTask(x3, r)
    BY <1>5, <1>16
  <2> QED
    BY <2>1, <2>2, <1>12, CompleteOutcome DEF Handling
<1> QED
  BY <1>0, <1>14, <1>15, <1>16, ResultTypes DEF result

-------------------------------------------------------------------------------
\* What else an outstation can send.

\* Nothing changes that the accounts speak of.
Frame(x, y) ==
    /\ y \in SystemType
    /\ y.runner = x.runner /\ y.queue = x.queue /\ y.current = x.current
    /\ y.bound = x.bound /\ y.told = x.told

LEMMA FrameBase ==
    ASSUME NEW x, NEW y, Base(x), Frame(x, y)
    PROVE  Base(y)
BY DEF Base, Frame, Agree, Assigned, Contexts, Once, Due, Online, Bound

LEMMA FrameWake ==
    ASSUME NEW x, NEW y, Wake(x), Frame(x, y), y.pending = x.pending,
           y.behavior = x.behavior, y.blocking = x.blocking, y.taskDue = x.taskDue,
           y.startDue = x.startDue, IsActive(x.taskTimer) => IsActive(y.taskTimer),
           IsActive(x.startTimer) => IsActive(y.startTimer)
    PROVE  Wake(y)
<1>1. /\ Queued(y) = Queued(x)
      /\ \A t \in Task : ExpirationTime(y, t) = ExpirationTime(x, t)
      /\ \A t \in Task : IsBlocked(y, t) = IsBlocked(x, t)
  BY DEF Frame, Queued, ExpirationTime, IsBlocked
<1>2. Queued(x) \subseteq Task
  BY DEF Queued
<1> QED
  BY <1>1, <1>2 DEF Wake, TaskWake, StartWake, Frame

LEMMA PostGood ==
    ASSUME NEW x, Base(x)
    PROVE  Good(PostCheckForTaskRun(x))
<1>1. x \in SystemType
  BY DEF Base
<1>2. Frame(x, PostCheckForTaskRun(x)) /\ PostCheckForTaskRun(x).pending = TRUE
  BY <1>1 DEF PostCheckForTaskRun, Frame, SystemType
<1> QED
  BY <1>2, FrameBase DEF Good, Wake

LEMMA ProcessIINGood ==
    ASSUME NEW x, Good(x), NEW r \in Runner, NEW iin
    PROVE  Good(ProcessIIN(x, r, iin))
<1> DEFINE asked == {t \in Task : Owner[t] = r /\ Kind[t] \in DemandedKinds(iin)}
           f == [t \in Task |->
                   IF t \in asked THEN BehaviorReset(t, x.behavior[t]) ELSE x.behavior[t]]
           y == [x EXCEPT !.behavior = f]
<1>0. x \in SystemType /\ x.behavior \in [Task -> Behavior] /\ Base(x) /\ Wake(x)
  BY Fields DEF Good, Base
<1>1. ProcessIIN(x, r, iin) =
        IF asked # {} \/ "DEVICE_RESTART" \in iin \cap Heeded
        THEN PostCheckForTaskRun(y) ELSE y
  BY DEF ProcessIIN
<1>2. f \in [Task -> Behavior]
  BY <1>0, BehaviorTypes
<1>3. asked = {} => f = x.behavior
  BY <1>0
<1> HIDE DEF f, asked
<1>4. Frame(x, y) /\ y.behavior = f /\ y.blocking = x.blocking /\ y.pending = x.pending
      /\ y.taskDue = x.taskDue /\ y.startDue = x.startDue /\ y.taskTimer = x.taskTimer
      /\ y.startTimer = x.startTimer
  BY <1>0, <1>2 DEF Frame, SystemType
<1> HIDE DEF y
<1>5. Base(y)
  BY <1>0, <1>4, FrameBase
<1>6. CASE asked # {} \/ "DEVICE_RESTART" \in iin \cap Heeded
  BY <1>1, <1>5, <1>6, PostGood
<1>7. CASE asked = {} /\ ~("DEVICE_RESTART" \in iin \cap Heeded)
  <2>1. y.behavior = x.behavior
    BY <1>3, <1>4, <1>7
  <2>2. Wake(y)
    BY <2>1, <1>0, <1>4, FrameWake
  <2> QED
    BY <2>2, <1>1, <1>5, <1>7 DEF Good
<1> QED
  BY <1>6, <1>7

LEMMA ResponseGood ==
    ASSUME NEW x, Good(x), NEW r \in Runner, NEW p, NEW b
    PROVE  Good(OnResponse(x, r, p, b))
<1>1. CASE x.runner[r].tstate = "WAIT_FOR_RESPONSE" /\ p.SEQ = x.runner[r].solSeq
  <2>1. x.current \in Task /\ Runs(x, r, x.current)
    BY <1>1, BusyRuns DEF Good
  <2>2. Outcome(x, WaitForResponse(x, r, p, b), r, x.current)
    BY <1>1, <2>1, WaitForResponseOutcome DEF Good
  <2>3. Good(WaitForResponse(x, r, p, b))
    BY <2>1, <2>2, OutcomeGood DEF Runs
  <2> QED
    BY <1>1, <2>3, ProcessIINGood DEF OnResponse
<1>2. CASE ~(x.runner[r].tstate = "WAIT_FOR_RESPONSE" /\ p.SEQ = x.runner[r].solSeq)
  BY <1>2, ProcessIINGood DEF OnResponse
<1> QED
  BY <1>1, <1>2

LEMMA UnsolicitedGood ==
    ASSUME NEW x, Good(x), NEW r \in Runner, NEW p
    PROVE  Good(OnUnsolicitedResponse(x, r, p))
<1>1. CASE p.objects # "bad" /\ p.CON
  <2> DEFINE y == QueueConfirm(x, r)
  <2>1. x \in SystemType /\ ContextOK(x.runner[r])
    BY DEF Good, Base, Contexts
  <2>2. Keeps(x, y, r) /\ Confirming(x.runner[r], y.runner[r])
    BY <2>1, QueueConfirmFacts DEF ContextOK
  <2> HIDE DEF y
  <2>3. ContextOK(y.runner[r])
    BY <2>1, <2>2 DEF ContextOK, Confirming
  <2>4. Good(y)
    BY <2>2, <2>3, KeepsGood
  <2> QED
    BY <1>1, <2>4, ProcessIINGood DEF OnUnsolicitedResponse, y
<1>2. CASE ~(p.objects # "bad" /\ p.CON)
  BY <1>2, ProcessIINGood DEF OnUnsolicitedResponse
<1> QED
  BY <1>1, <1>2

-------------------------------------------------------------------------------
\* The scheduler.

\* There is a first start time, and FirstStart is it.
LEMMA FirstStartFacts ==
    ASSUME NEW x \in SystemType
    PROVE  /\ FirstStart(x) \in Time
           /\ \A t \in Queued(x) : ~IsRecurring(t) => FirstStart(x) <= x.behavior[t].start
<1> DEFINE S == StartTimes(x)
<1>1. \A t \in Task : x.behavior[t].start \in Time
  BY Fields DEF Behavior
<1>2. Time \subseteq Nat /\ Never \in Time
  BY TimesAssumption DEF Time
<1>3. S \subseteq Time /\ S # {} /\ S \in SUBSET Nat
  BY <1>1, <1>2 DEF StartTimes, Queued
<1>4. \A t \in Queued(x) : ~IsRecurring(t) => x.behavior[t].start \in S
  BY DEF StartTimes
<1> HIDE DEF S
<1>5. PICK m \in S : \A y \in S : ~ (<<y, m>> \in OpToRel(<, Nat))
  <2> HIDE DEF OpToRel
  <2> QED BY <1>3, NatLessThanWellFounded, WFMin, Zenon
<1>6. \A y \in S : ~(y < m)
  BY <1>3, <1>5 DEF OpToRel
<1>7. \A y \in S : m <= y
  BY <1>3, <1>6
<1>8. FirstStart(x) \in S /\ \A k \in S : FirstStart(x) <= k
  BY <1>7 DEF FirstStart, S
<1> QED
  BY <1>3, <1>4, <1>8

LEMMA RestartFacts ==
    ASSUME NEW x \in SystemType
    PROVE  LET y == RestartTimeoutTimer(x)
           IN  /\ Frame(x, y) /\ StartWake(y)
               /\ y.pending = x.pending /\ y.behavior = x.behavior
               /\ y.blocking = x.blocking /\ y.step = x.step
               /\ y.taskTimer = x.taskTimer /\ y.taskDue = x.taskDue
<1> DEFINE n == FirstStart(x)
           tm == TimerRestart(x.startTimer)
           y == RestartTimeoutTimer(x)
<1>1. y = [x EXCEPT !.startTimer = tm, !.startDue = n]
  BY DEF RestartTimeoutTimer, SystemType
<1>2. n \in Time /\ \A t \in Queued(x) : ~IsRecurring(t) => n <= x.behavior[t].start
  BY FirstStartFacts
<1>3. tm \in TimerRefType /\ IsActive(tm)
  BY TimerFacts, Fields
<1> HIDE DEF n, tm, y
<1>4. /\ Frame(x, y) /\ y.startTimer = tm /\ y.startDue = n
      /\ y.pending = x.pending /\ y.behavior = x.behavior
      /\ y.blocking = x.blocking /\ y.step = x.step
      /\ y.taskTimer = x.taskTimer /\ y.taskDue = x.taskDue
  BY <1>1, <1>2, <1>3 DEF Frame, SystemType
<1>5. Queued(y) = Queued(x)
  BY <1>4 DEF Queued, Frame
<1>6. StartWake(y)
  BY <1>2, <1>3, <1>4, <1>5 DEF StartWake
<1> QED
  BY <1>4, <1>6 DEF y

\* A task that is queued while nothing runs is queued once, by a master online.
LEMMA QueuedOnce ==
    ASSUME NEW x, Base(x), x.current = None, NEW t \in Queued(x)
    PROVE  /\ t \in Task /\ t # None /\ Owner[t] \in Runner /\ x.queue[t] = 1
           /\ x.runner[Owner[t]].isOnline
           /\ \A r \in Runner : x.runner[r].activeTask = None /\ x.runner[r].tstate = "IDLE"
<1>1. t \in Task /\ x.queue[t] > 0 /\ t # None /\ Owner[t] \in Runner
  BY NoneAssumption, TasksAssumption DEF Queued
<1>2. x.queue[t] \in Nat /\ x.told[t] \in Nat
  BY <1>1, Fields DEF Base
<1>3. x.queue[t] = Due(x, t)
  BY <1>1, <1>2 DEF Base, Once
<1>4. x.queue[t] = 1
  BY <1>1, <1>2, <1>3 DEF Due
<1>5. \A r \in Runner : x.runner[r].activeTask = None
  BY DEF Base, Agree, Assigned
<1>6. \A r \in Runner : x.runner[r].tstate = "IDLE"
  BY <1>5 DEF Base, Contexts, ContextOK
<1> QED
  BY <1>1, <1>4, <1>5, <1>6 DEF Base, Online

\* The scheduler takes t from its queue and the master makes it its own.
Popped(x, t) == [x EXCEPT !.current = t, !.queue[t] = @ - 1]

Taken(x, t) ==
    [Popped(x, t) EXCEPT !.runner[Owner[t]].tstate = "TASK_READY",
                         !.runner[Owner[t]].activeTask = t,
                         !.step[t] = Initialize(t, @)]

ReadyFor(c, t) == [c EXCEPT !.tstate = "TASK_READY", !.activeTask = t]

Ready(x, r, t) ==
    [x EXCEPT !.runner[r].tstate = "TASK_READY", !.runner[r].activeTask = t]

LEMMA ReadyUpdate ==
    ASSUME NEW x \in SystemType, NEW r \in Runner, NEW t \in Task
    PROVE  Ready(x, r, t) = WithRunner(x, r, ReadyFor(x.runner[r], t))
<1>1. x.runner[r] \in MContext
  BY Fields
<1> QED
  BY <1>1 DEF Ready, ReadyFor, WithRunner, SystemType, MContext

LEMMA TakenFacts ==
    ASSUME NEW x, Base(x), StartWake(x), x.current = None, NEW t \in Queued(x),
           NEW r, r = Owner[t]
    PROVE  LET y == Taken(x, t)
           IN  /\ BaseBut(y, r) /\ Wake(y) /\ Runs(y, r, t)
               /\ y.runner[r].tstate = "TASK_READY" /\ Accounted(y.runner[r])
               /\ y.runner[r].isSending = x.runner[r].isSending
<1> DEFINE y == Taken(x, t)
           c == ReadyFor(x.runner[r], t)
           q == [x.queue EXCEPT ![t] = 0]
           n == [x.step EXCEPT ![t] = Initialize(t, x.step[t])]
           f == [x.runner EXCEPT ![r] = c]
<1>0. /\ t \in Task /\ t # None /\ r \in Runner /\ x.queue[t] = 1 /\ x.runner[r].isOnline
      /\ \A p \in Runner : x.runner[p].activeTask = None /\ x.runner[p].tstate = "IDLE"
  BY QueuedOnce
<1>1. /\ x \in SystemType /\ x.runner[r] \in MContext /\ x.queue \in [Task -> Nat]
      /\ x.step \in [Task -> Nat] /\ x.runner \in [Runner -> MContext]
      /\ Contexts(x) /\ Once(x) /\ Online(x)
  BY <1>0, Fields DEF Base
<1>2. q \in [Task -> Nat]
  BY <1>1
<1>3. n \in [Task -> Nat]
  BY <1>0, <1>1, StepTypes
<1>4. /\ c \in MContext /\ c.activeTask = t /\ c.tstate = "TASK_READY"
      /\ c.isSending = x.runner[r].isSending /\ c.owed = x.runner[r].owed
      /\ c.isOnline = x.runner[r].isOnline
  BY <1>0, <1>1 DEF MContext, ReadyFor
<1>5. [x.queue EXCEPT ![t] = @ - 1] = q
  BY <1>0, <1>1
<1> DEFINE w == Popped(x, t)
<1>6. w = [x EXCEPT !.current = t, !.queue = q]
  BY <1>1, <1>5 DEF Popped, SystemType
<1> HIDE DEF q
<1>6a. /\ w \in SystemType /\ w.current = t /\ w.queue = q /\ w.runner = x.runner
       /\ w.step = x.step /\ w.bound = x.bound /\ w.told = x.told
       /\ w.behavior = x.behavior /\ w.startTimer = x.startTimer /\ w.startDue = x.startDue
  BY <1>0, <1>1, <1>2, <1>6 DEF SystemType
<1> HIDE DEF w
<1>6b. y = [w EXCEPT !.runner = f, !.step = n]
  <2>2. [x.step EXCEPT ![t] = Initialize(t, @)] = n
    BY <1>0, <1>1
  <2>3. y = [w EXCEPT !.runner[r].tstate = "TASK_READY", !.runner[r].activeTask = t,
                      !.step[t] = Initialize(t, @)]
    BY DEF Taken, w
  <2> DEFINE v == Ready(w, r, t)
  <2>4. y = [v EXCEPT !.step[t] = Initialize(t, @)]
    BY <2>3 DEF Ready
  <2>5. v = WithRunner(w, r, c)
    BY <1>0, <1>6a, ReadyUpdate
  <2> HIDE DEF v, y, c
  <2>6. v = [w EXCEPT !.runner = f]
    BY <2>5, <1>0, <1>6a DEF SystemType, WithRunner
  <2> HIDE DEF f
  <2>7. v.step = x.step
    BY <2>6, <1>6a DEF SystemType
  <2>8. y = [v EXCEPT !.step = [v.step EXCEPT ![t] = Initialize(t, @)]]
    BY <2>4, <2>6, <1>0, <1>6a DEF SystemType
  <2>9. y = [v EXCEPT !.step = n]
    BY <2>2, <2>7, <2>8
  <2> HIDE DEF n
  <2> QED
    BY <2>6, <2>9, <1>6a DEF SystemType
<1> HIDE DEF c, y, n
<1>7. f \in [Runner -> MContext] /\ f[r] = c /\ \A p \in Runner \ {r} : f[p] = x.runner[p]
  BY <1>0, <1>1, <1>4
<1>8. q[t] = 0 /\ \A u \in Task \ {t} : q[u] = x.queue[u]
  BY <1>0, <1>1 DEF q
<1> HIDE DEF f
<1>9. /\ y \in SystemType
      /\ y.runner = f /\ y.queue = q /\ y.current = t /\ y.bound = x.bound /\ y.told = x.told
      /\ y.behavior = x.behavior /\ y.startTimer = x.startTimer /\ y.startDue = x.startDue
  BY <1>3, <1>6a, <1>6b, <1>7 DEF SystemType
<1>10. Agree(y)
  BY <1>0, <1>4, <1>7, <1>9 DEF Agree, Assigned
<1>11. \A p \in Runner : y.runner[p].isOnline = x.runner[p].isOnline
  BY <1>4, <1>7, <1>9
<1>12. \A u \in Task : Owner[u] \in Runner /\ u # None /\ x.queue[u] \in Nat
  BY <1>1, TasksAssumption, NoneAssumption
<1>13. Once(y)
  <2> SUFFICES ASSUME NEW u \in Task
               PROVE  y.queue[u] + (IF y.current = u THEN 1 ELSE 0) = Due(y, u)
    BY DEF Once
  <2>1. Due(y, u) = Due(x, u)
    BY <1>9, <1>11, <1>12 DEF Due
  <2>2. x.queue[u] + 0 = Due(x, u)
    BY <1>1, <1>12 DEF Once
  <2> QED
    BY <2>1, <2>2, <1>0, <1>8, <1>9, <1>12
<1>14. Online(y)
  BY <1>0, <1>1, <1>8, <1>9, <1>11, <1>12 DEF Online
<1>15. BaseBut(y, r)
  BY <1>1, <1>7, <1>9, <1>10, <1>13, <1>14 DEF Base, BaseBut, Contexts, Bound
<1>16. Wake(y)
  <2>1. Queued(y) \subseteq Queued(x)
    BY <1>8, <1>9 DEF Queued
  <2> QED
    BY <2>1, <1>0, <1>9 DEF Wake, TaskWake, StartWake
<1>17. Accounted(y.runner[r])
  BY <1>0, <1>1, <1>4, <1>7, <1>9 DEF Contexts, ContextOK, Accounted
<1> QED
  BY <1>4, <1>7, <1>9, <1>15, <1>16, <1>17 DEF Runs, y

\* The master is idle, so Run is never refused.
LEMMA RunGood ==
    ASSUME NEW x, Base(x), StartWake(x), x.current = None, NEW t \in Queued(x), NEW b
    PROVE  Good(Run(Popped(x, t), Owner[t], t, b))
<1> DEFINE r == Owner[t]
           y == Taken(x, t)
<1>0. /\ t \in Task /\ r \in Runner
      /\ x.runner[r].activeTask = None /\ x.runner[r].tstate = "IDLE"
  BY QueuedOnce
<1>1. Popped(x, t).runner = x.runner
  BY DEF Popped, Base, SystemType
<1>2. /\ BaseBut(y, r) /\ Wake(y) /\ Runs(y, r, t)
      /\ y.runner[r].tstate = "TASK_READY" /\ Accounted(y.runner[r])
      /\ y.runner[r].isSending = x.runner[r].isSending
  BY TakenFacts
<1>3. Run(Popped(x, t), r, t, b) =
        IF x.runner[r].isSending THEN y ELSE ResumeActiveTask(y, r, b)
  BY <1>0, <1>1 DEF Run, Taken
<1> HIDE DEF r, y
<1>4. CASE x.runner[r].isSending
  <2>1. ContextOK(y.runner[r])
    BY <1>2, <1>4, <1>0, NoneAssumption DEF ContextOK, Runs
  <2>2. Contexts(y)
    BY <2>1, <1>2 DEF Contexts, BaseBut
  <2> QED
    BY <2>2, <1>2, <1>3, <1>4 DEF Good, Base, BaseBut, r
<1>5. CASE ~x.runner[r].isSending
  <2>1. Outcome(y, ResumeActiveTask(y, r, b), r, t)
    BY <1>0, <1>2, <1>5, ResumeOutcome DEF BaseBut
  <2>2. Good(ResumeActiveTask(y, r, b))
    BY <2>1, <1>0, <1>2, OutcomeGoodBut DEF Runs
  <2> QED
    BY <2>2, <1>3, <1>5 DEF r
<1> QED
  BY <1>4, <1>5

\* The best task is, of those that are enabled and not blocked, the first.
LEMMA BestIsFirst ==
    ASSUME NEW x \in SystemType, NEW t \in BestTasks(x), NEW u \in Queued(x),
           ExpirationTime(x, u) # Never, ~IsBlocked(x, u)
    PROVE  ExpirationTime(x, t) <= ExpirationTime(x, u)
<1>1. ~Better(x, u, t) /\ t \in Task /\ u \in Task
  BY DEF BestTasks, Queued
<1>2. \A v \in Task : ExpirationTime(x, v) \in Nat
  BY Fields, TimesAssumption DEF ExpirationTime, Behavior, Time
<1>3. ExpirationTime(x, t) # Never
  BY <1>1 DEF Better
<1>4. IsBlocked(x, u) = FALSE /\ IsBlocked(x, t) = FALSE
  <2>1. IsBlocked(x, u) \in BOOLEAN /\ IsBlocked(x, t) \in BOOLEAN
    BY DEF IsBlocked
  <2>2. ~IsBlocked(x, t)
    BY <2>1, <1>1, <1>3 DEF Better
  <2> QED
    BY <2>1, <2>2
<1>5. ~(ExpirationTime(x, u) < ExpirationTime(x, t))
  <2> SUFFICES ASSUME ExpirationTime(x, u) < ExpirationTime(x, t)
               PROVE  FALSE
    OBVIOUS
  <2>1. ExpirationTime(x, u) # ExpirationTime(x, t)
    BY <1>1, <1>2
  <2>2. (ExpirationTime(x, u) = Never) = (ExpirationTime(x, t) = Never)
    BY <1>3, Zenon
  <2>3. Better(x, u, t)
    BY <2>1, <2>2, <1>4, Zenon DEF Better
  <2> QED
    BY <2>3, <1>1
<1> QED
  BY <1>1, <1>2, <1>5

LEMMA CheckGood ==
    ASSUME NEW x, Base(x), NEW b, NEW y \in CheckForTaskRun(x, b)
    PROVE  Good(y)
<1> DEFINE p == [x EXCEPT !.pending = FALSE]
           w == RestartTimeoutTimer(p)
<1>0. x \in SystemType
  BY DEF Base
<1>1. Frame(x, p) /\ p.behavior = x.behavior /\ p.blocking = x.blocking
      /\ p.pending = FALSE
  BY <1>0 DEF Frame, SystemType
<1> HIDE DEF p
<1>2. /\ Frame(p, w) /\ StartWake(w) /\ w.pending = FALSE
      /\ w.behavior = p.behavior /\ w.blocking = p.blocking
      /\ w.taskTimer = p.taskTimer /\ w.taskDue = p.taskDue
  BY <1>1, RestartFacts DEF Frame
<1>3. y \in IF x.current # None \/ Queued(x) = {} THEN {w}
            ELSE {CheckBestTask(w, t, b) : t \in BestTasks(x)}
  BY DEF CheckForTaskRun, p
<1> HIDE DEF w
<1>4. Base(w) /\ w.current = x.current /\ w \in SystemType
  BY <1>1, <1>2, FrameBase DEF Frame
<1>5. /\ Queued(w) = Queued(x)
      /\ \A t \in Task : ExpirationTime(w, t) = ExpirationTime(x, t)
      /\ \A t \in Task : IsBlocked(w, t) = IsBlocked(x, t)
  BY <1>1, <1>2 DEF Frame, Queued, ExpirationTime, IsBlocked
<1>6. CASE x.current # None \/ Queued(x) = {}
  <2>1. y = w
    BY <1>3, <1>6
  <2> QED
    BY <2>1, <1>2, <1>4, <1>5, <1>6 DEF Good, Wake, TaskWake
<1>7. CASE x.current = None /\ Queued(x) # {}
  <2>1. PICK t \in BestTasks(x) : y = CheckBestTask(w, t, b)
    BY <1>3, <1>7
  <2>2. t \in Queued(w) /\ t \in Task
    BY <1>5 DEF BestTasks, Queued
  <2>3. CASE ExpirationTime(w, t) = 0
    <3>1. y = Run(Popped(w, t), Owner[t], t, b)
      BY <2>1, <2>3 DEF CheckBestTask, Popped
    <3> QED
      BY <3>1, <2>2, <1>2, <1>4, <1>7, RunGood
  <2>4. CASE ExpirationTime(w, t) # 0
    <3> DEFINE n == ExpirationTime(w, t)
               tm == TimerRestart(w.taskTimer)
    <3>1. y = [w EXCEPT !.taskTimer = tm, !.taskDue = n]
      BY <2>1, <2>4, <1>4 DEF CheckBestTask, SystemType
    <3>2. n \in Time
      BY <2>2, <1>4, Fields, TimesAssumption DEF ExpirationTime, Behavior, Time
    <3>3. tm \in TimerRefType /\ IsActive(tm)
      BY <1>4, Fields, TimerFacts
    <3>4. \A u \in Queued(x) : ExpirationTime(x, u) # Never /\ ~IsBlocked(x, u) =>
             n <= ExpirationTime(x, u)
      BY <2>2, <1>0, <1>5, BestIsFirst
    <3> HIDE DEF n, tm
    <3>5. /\ Frame(w, y) /\ y.taskTimer = tm /\ y.taskDue = n /\ y.behavior = w.behavior
          /\ y.blocking = w.blocking /\ y.startTimer = w.startTimer
          /\ y.startDue = w.startDue /\ y.pending = w.pending
      BY <3>1, <3>2, <3>3, <1>4 DEF Frame, SystemType
    <3>6. /\ Queued(y) = Queued(x)
          /\ \A u \in Task : ExpirationTime(y, u) = ExpirationTime(x, u)
          /\ \A u \in Task : IsBlocked(y, u) = IsBlocked(x, u)
      BY <3>5, <1>5 DEF Frame, Queued, ExpirationTime, IsBlocked
    <3>7. TaskWake(y)
      BY <3>3, <3>4, <3>5, <3>6 DEF TaskWake, Queued
    <3>8. StartWake(y)
      BY <3>5, <3>6, <1>2, <1>5 DEF StartWake
    <3>9. Base(y)
      BY <3>5, <1>4, FrameBase
    <3> QED
      BY <3>7, <3>8, <3>9 DEF Good, Wake
  <2> QED
    BY <2>3, <2>4
<1> QED
  BY <1>6, <1>7

\* Only the accounts change.
LEMMA AccountsBase ==
    ASSUME NEW x, NEW y, Base(x), y \in SystemType, y.runner = x.runner,
           y.current = x.current, Once(y), Online(y), Bound(y)
    PROVE  Base(y)
BY DEF Base, Agree, Assigned, Contexts

\* An ad hoc task that is queued or running is there once and has not been told.
LEMMA AdhocOnce ==
    ASSUME NEW x, Base(x), NEW t \in Task, ~IsRecurring(t)
    PROVE  /\ x.queue[t] > 0 => x.queue[t] = 1 /\ x.current # t /\ x.told[t] = 0
           /\ x.current = t => x.queue[t] = 0 /\ x.told[t] = 0
           /\ x.told[t] > 0 => x.queue[t] = 0 /\ x.current # t /\ x.told[t] = 1
<1>1. x.queue[t] \in Nat /\ x.told[t] \in Nat
  BY Fields DEF Base
<1>2. x.queue[t] + (IF x.current = t THEN 1 ELSE 0) = 1 - x.told[t]
  BY DEF Base, Once, Due
<1>3. CASE x.current = t
  <2>1. x.queue[t] + 1 = 1 - x.told[t]
    BY <1>2, <1>3
  <2> QED
    BY <2>1, <1>1, <1>3
<1>4. CASE x.current # t
  <2>1. x.queue[t] + 0 = 1 - x.told[t]
    BY <1>2, <1>4
  <2> QED
    BY <2>1, <1>1, <1>4
<1> QED
  BY <1>3, <1>4

LEMMA TimeoutTasksGood ==
    ASSUME NEW x, Base(x), ~x.pending => TaskWake(x)
    PROVE  Good(TimeoutTasks(x))
<1> DEFINE late == {t \in Queued(x) : ~IsRecurring(t) /\ x.behavior[t].start = 0}
           q == [t \in Task |-> IF t \in late THEN 0 ELSE x.queue[t]]
           f == [t \in Task |-> IF t \in late
                   THEN CompletedBehavior(t, x.behavior[t], "START_TIMEOUT")
                   ELSE x.behavior[t]]
           n == [t \in Task |-> IF t \in late THEN InitStep(t) ELSE x.step[t]]
           d == [t \in Task |-> IF t \in late THEN x.told[t] + 1 ELSE x.told[t]]
           y == [x EXCEPT !.queue = q, !.behavior = f, !.step = n, !.told = d]
           z == RestartTimeoutTimer(y)
<1>0. x \in SystemType
  BY DEF Base
<1>1. \A t \in Task : /\ x.queue[t] \in Nat /\ x.behavior[t] \in Behavior
                      /\ x.step[t] \in Nat /\ x.told[t] \in Nat
  BY <1>0, Fields
<1>2. TimeoutTasks(x) = z
  BY DEF TimeoutTasks
<1>3. q \in [Task -> Nat] /\ d \in [Task -> Nat]
  BY <1>1
<1>4. f \in [Task -> Behavior]
  BY <1>1, BehaviorTypes
<1>5. n \in [Task -> Nat]
  BY <1>1, StepTypes
<1>6. late \subseteq Task /\ \A t \in late : ~IsRecurring(t) /\ x.queue[t] > 0
  BY DEF Queued
<1>7. /\ \A t \in late : q[t] = 0 /\ d[t] = x.told[t] + 1
      /\ \A t \in Task \ late : q[t] = x.queue[t] /\ d[t] = x.told[t] /\ f[t] = x.behavior[t]
  <2> HIDE DEF late
  <2> QED
    BY <1>6
<1> HIDE DEF late, q, f, n, d
<1>8. /\ y \in SystemType /\ y.runner = x.runner /\ y.current = x.current
      /\ y.queue = q /\ y.behavior = f /\ y.told = d /\ y.bound = x.bound
      /\ y.blocking = x.blocking /\ y.pending = x.pending
      /\ y.taskTimer = x.taskTimer /\ y.taskDue = x.taskDue
  BY <1>0, <1>3, <1>4, <1>5 DEF SystemType
<1> HIDE DEF y
<1>9. Once(y)
  <2> SUFFICES ASSUME NEW t \in Task
               PROVE  y.queue[t] + (IF y.current = t THEN 1 ELSE 0) = Due(y, t)
    BY DEF Once
  <2>1. x.queue[t] + (IF x.current = t THEN 1 ELSE 0) = Due(x, t)
    BY DEF Base, Once
  <2>2. CASE t \in late
    <3>1. x.current # t /\ x.told[t] = 0 /\ ~IsRecurring(t)
      BY <1>6, <2>2, AdhocOnce
    <3> QED
      BY <3>1, <2>2, <1>7, <1>8 DEF Due
  <2>3. CASE t \notin late
    BY <2>1, <2>3, <1>7, <1>8 DEF Due
  <2> QED
    BY <2>2, <2>3
<1>10. Queued(y) \subseteq Queued(x) /\ \A t \in Queued(y) : t \notin late
  BY <1>7, <1>8 DEF Queued
<1>11. Online(y)
  BY <1>8, <1>10 DEF Base, Online, Queued
<1>12. Base(y)
  BY <1>8, <1>9, <1>11, AccountsBase DEF Base, Bound
<1>13. /\ Frame(y, z) /\ StartWake(z)
       /\ z.pending = y.pending /\ z.behavior = y.behavior /\ z.blocking = y.blocking
       /\ z.taskTimer = y.taskTimer /\ z.taskDue = y.taskDue
  BY <1>8, RestartFacts
<1> HIDE DEF z
<1>14. Base(z)
  BY <1>12, <1>13, FrameBase
<1>15. ~z.pending => TaskWake(z)
  <2>1. Queued(z) = Queued(y)
    BY <1>13 DEF Queued, Frame
  <2>2. /\ \A t \in Queued(z) : ExpirationTime(z, t) = ExpirationTime(x, t)
        /\ \A t \in Queued(z) : IsBlocked(z, t) = IsBlocked(x, t)
    <3>1. \A t \in Queued(z) : z.behavior[t] = x.behavior[t]
      BY <2>1, <1>7, <1>8, <1>10, <1>13 DEF Queued
    <3> QED
      BY <3>1, <1>8, <1>13 DEF ExpirationTime, IsBlocked
  <2> QED
    BY <2>1, <2>2, <1>8, <1>10, <1>13 DEF TaskWake, Frame
<1> QED
  BY <1>2, <1>13, <1>14, <1>15 DEF Good, Wake

-------------------------------------------------------------------------------
\* The layer below and the application.

LEMMA UpGood ==
    ASSUME NEW x, Base(x), NEW r \in Runner, ~x.runner[r].isOnline
    PROVE  Good(OnLowerLayerUp(x, r))
<1> DEFINE y == OnLowerLayerUp(x, r)
           c == [x.runner[r] EXCEPT !.isOnline = TRUE]
           f == [x.runner EXCEPT ![r] = c]
           own == {t \in Task : Owner[t] = r /\ t \in x.bound}
           q == [t \in Task |-> IF t \in own THEN x.queue[t] + 1 ELSE x.queue[t]]
<1>0. /\ x \in SystemType /\ x.runner \in [Runner -> MContext] /\ x.runner[r] \in MContext
      /\ \A t \in Task : x.queue[t] \in Nat /\ Owner[t] \in Runner /\ t # None
  BY Fields, TasksAssumption, NoneAssumption DEF Base
<1>1. x.runner[r].tstate = "IDLE"
  BY BusyRuns
<1>2. /\ c \in MContext /\ c.isOnline /\ c.activeTask = x.runner[r].activeTask
      /\ ContextOK(c)
  <2>1. /\ c \in MContext /\ c.isOnline /\ c.activeTask = x.runner[r].activeTask
        /\ c.tstate = x.runner[r].tstate /\ c.owed = x.runner[r].owed
        /\ c.isSending = x.runner[r].isSending
    BY <1>0 DEF MContext
  <2>2. ContextOK(x.runner[r])
    BY DEF Base, Contexts
  <2> HIDE DEF c
  <2> QED
    BY <2>1, <2>2, <1>1 DEF ContextOK, Accounted
<1>3. q \in [Task -> Nat]
  BY <1>0
<1>4. y = [x EXCEPT !.runner = f, !.queue = q, !.pending = TRUE]
  <2>1. OnLowerLayerUp(x, r) =
          PostCheckForTaskRun([x EXCEPT !.runner = f, !.queue = q])
    BY <1>0 DEF OnLowerLayerUp, SystemType
  <2> HIDE DEF f, q
  <2> QED
    BY <2>1, <1>0 DEF PostCheckForTaskRun, SystemType
<1> HIDE DEF c
<1>5. f \in [Runner -> MContext] /\ f[r] = c /\ \A p \in Runner \ {r} : f[p] = x.runner[p]
  BY <1>0, <1>2
<1>6. /\ \A t \in own : q[t] = x.queue[t] + 1
      /\ \A t \in Task \ own : q[t] = x.queue[t]
  <2>1. own \subseteq Task
    OBVIOUS
  <2> HIDE DEF own
  <2> QED
    BY <2>1
<1> HIDE DEF f, q, y
<1>7. /\ y \in SystemType /\ y.runner = f /\ y.queue = q /\ y.pending = TRUE
      /\ y.current = x.current /\ y.bound = x.bound /\ y.told = x.told
  BY <1>0, <1>3, <1>4, <1>5 DEF SystemType
<1>8. Agree(y)
  <2>1. \A p \in Runner : y.runner[p].activeTask = x.runner[p].activeTask
    BY <1>2, <1>5, <1>7
  <2>2. \A p \in Runner : Assigned(y, p) = Assigned(x, p)
    BY <1>7 DEF Assigned
  <2> QED
    BY <2>1, <2>2 DEF Base, Agree
<1>9. Contexts(y)
  BY <1>2, <1>5, <1>7 DEF Base, Contexts
<1>10. Once(y)
  <2> SUFFICES ASSUME NEW t \in Task
               PROVE  y.queue[t] + (IF y.current = t THEN 1 ELSE 0) = Due(y, t)
    BY DEF Once
  <2>1. x.queue[t] + (IF x.current = t THEN 1 ELSE 0) = Due(x, t)
    BY DEF Base, Once
  <2>2. Owner[t] = r => x.queue[t] = 0 /\ x.current # t
    BY <1>0 DEF Base, Online
  <2>3. CASE Owner[t] # r
    <3>1. y.queue[t] = x.queue[t] /\ y.runner[Owner[t]] = x.runner[Owner[t]]
      BY <2>3, <1>0, <1>5, <1>6, <1>7
    <3> QED
      BY <2>1, <3>1, <1>7 DEF Due
  <2>4. CASE Owner[t] = r /\ IsRecurring(t) /\ t \in x.bound
    BY <2>2, <2>4, <1>2, <1>5, <1>6, <1>7 DEF Due
  <2>5. CASE Owner[t] = r /\ IsRecurring(t) /\ t \notin x.bound
    BY <2>2, <2>5, <1>2, <1>5, <1>6, <1>7 DEF Due
  <2>6. CASE Owner[t] = r /\ ~IsRecurring(t)
    <3>1. t \notin own
      BY <2>6 DEF Base, Bound
    <3> QED
      BY <2>1, <2>6, <3>1, <1>6, <1>7 DEF Due
  <2> QED
    BY <2>3, <2>4, <2>5, <2>6
<1>11. Online(y)
  <2> SUFFICES ASSUME NEW t \in Task, y.queue[t] > 0 \/ y.current = t
               PROVE  y.runner[Owner[t]].isOnline
    BY DEF Online
  <2>1. CASE Owner[t] = r
    BY <2>1, <1>2, <1>5, <1>7
  <2>2. CASE Owner[t] # r
    BY <2>2, <1>0, <1>5, <1>6, <1>7 DEF Base, Online
  <2> QED
    BY <2>1, <2>2
<1> QED
  BY <1>7, <1>8, <1>9, <1>10, <1>11 DEF Good, Base, Bound, Wake, y

LEMMA DownGood ==
    ASSUME NEW x, Base(x), NEW r \in Runner
    PROVE  Good(OnLowerLayerDown(x, r))
<1> DEFINE y == OnLowerLayerDown(x, r)
           c == [Offline EXCEPT !.responseTimer = TimerCancel(x.runner[r].responseTimer),
                                !.confirmQueue = x.runner[r].confirmQueue]
           f == [x.runner EXCEPT ![r] = c]
           w == [x EXCEPT !.runner[r] = c]
           owned == {t \in Task : Owner[t] = r /\ (x.queue[t] > 0 \/ x.current = t)}
           lost == {t \in owned : ~IsRecurring(t)}
           k == IF x.current \in owned THEN None ELSE x.current
           q == [t \in Task |-> IF t \in owned THEN 0 ELSE x.queue[t]]
           b == [t \in Task |-> IF t \in lost
                   THEN CompletedBehavior(t, x.behavior[t], "NO_COMMS") ELSE x.behavior[t]]
           n == [t \in Task |-> IF t \in lost THEN InitStep(t) ELSE x.step[t]]
           d == [t \in Task |-> IF t \in lost THEN x.told[t] + 1 ELSE x.told[t]]
<1>0. /\ x \in SystemType /\ x.runner \in [Runner -> MContext] /\ x.runner[r] \in MContext
      /\ x.current \in Task \cup {None}
      /\ \A t \in Task : /\ x.queue[t] \in Nat /\ x.told[t] \in Nat /\ x.step[t] \in Nat
                         /\ x.behavior[t] \in Behavior /\ Owner[t] \in Runner /\ t # None
  BY Fields, TasksAssumption, NoneAssumption DEF Base
<1>1. /\ c \in MContext /\ c.isOnline = FALSE /\ c.activeTask = None /\ c.tstate = "IDLE"
      /\ c.isSending = FALSE /\ c.owed = 0
  <2>1. /\ TimerCancel(x.runner[r].responseTimer) \in TimerRefType
        /\ x.runner[r].confirmQueue \in Nat
    BY <1>0, TimerFacts DEF MContext
  <2>2. Offline \in MContext
    BY SeqAssumption DEF Offline, MContext, TimerOff, TimerRefType
  <2> QED
    BY <2>1, <2>2 DEF Offline, MContext
<1>2. w \in SystemType /\ w.runner = f /\ w.queue = x.queue /\ w.current = x.current
      /\ w.behavior = x.behavior /\ w.step = x.step /\ w.told = x.told
  <2> HIDE DEF c
  <2>1. f \in [Runner -> MContext]
    BY <1>0, <1>1
  <2> QED
    BY <2>1, <1>0 DEF SystemType
<1>3. q \in [Task -> Nat] /\ d \in [Task -> Nat] /\ k \in Task \cup {None}
  BY <1>0
<1>4. b \in [Task -> Behavior]
  BY <1>0, BehaviorTypes
<1>5. n \in [Task -> Nat]
  BY <1>0, StepTypes
<1>6. y = [x EXCEPT !.runner = f, !.current = k, !.queue = q, !.behavior = b, !.step = n,
                    !.told = d, !.pending = TRUE]
  <2>1. y = SetRunnerOffline(w, r)
    BY DEF OnLowerLayerDown
  <2>2. w = [x EXCEPT !.runner = f]
    BY <1>0 DEF SystemType
  <2> HIDE DEF w, f, c, y
  <2>3. y = PostCheckForTaskRun([w EXCEPT !.current = k, !.queue = q, !.behavior = b,
                                          !.step = n, !.told = d])
    BY <1>2, <2>1 DEF SetRunnerOffline, SystemType
  <2> HIDE DEF k, q, b, n, d
  <2> QED
    BY <1>0, <1>2, <2>2, <2>3 DEF PostCheckForTaskRun, SystemType
<1> HIDE DEF c
<1>7. f \in [Runner -> MContext] /\ f[r] = c /\ \A p \in Runner \ {r} : f[p] = x.runner[p]
  BY <1>0, <1>1
<1>8. /\ \A t \in Task : Owner[t] # r => q[t] = x.queue[t] /\ d[t] = x.told[t]
      /\ \A t \in Task : Owner[t] = r => q[t] = 0
      /\ \A t \in Task : Owner[t] = r /\ ~IsRecurring(t) =>
            d[t] = IF x.queue[t] > 0 \/ x.current = t THEN x.told[t] + 1 ELSE x.told[t]
  BY <1>0
<1>9. k = IF x.current # None /\ Owner[x.current] = r THEN None ELSE x.current
  BY <1>0
<1> HIDE DEF f, k, q, b, n, d, y, w
<1>10. /\ y \in SystemType /\ y.runner = f /\ y.current = k /\ y.queue = q /\ y.told = d
       /\ y.bound = x.bound /\ y.pending = TRUE
  BY <1>0, <1>3, <1>4, <1>5, <1>6, <1>7 DEF SystemType
<1>11. Agree(y)
  <2> SUFFICES ASSUME NEW p \in Runner
               PROVE  y.runner[p].activeTask = Assigned(y, p)
    BY DEF Agree
  <2>1. x.runner[p].activeTask = Assigned(x, p)
    BY DEF Base, Agree
  <2>2. CASE p = r
    BY <2>2, <1>1, <1>7, <1>9, <1>10 DEF Assigned
  <2>3. CASE p # r
    BY <2>1, <2>3, <1>7, <1>9, <1>10 DEF Assigned
  <2> QED
    BY <2>2, <2>3
<1>12. Contexts(y)
  <2>1. ContextOK(c)
    BY <1>1 DEF ContextOK, Accounted
  <2> QED
    BY <2>1, <1>7, <1>10 DEF Base, Contexts
<1>13. Once(y)
  <2> SUFFICES ASSUME NEW t \in Task
               PROVE  y.queue[t] + (IF y.current = t THEN 1 ELSE 0) = Due(y, t)
    BY DEF Once
  <2>1. CASE Owner[t] # r
    <3>1. /\ y.queue[t] = x.queue[t] /\ y.told[t] = x.told[t]
          /\ y.runner[Owner[t]] = x.runner[Owner[t]]
      BY <2>1, <1>0, <1>7, <1>8, <1>10
    <3>2. (y.current = t) <=> (x.current = t)
      BY <2>1, <1>0, <1>9, <1>10
    <3>3. x.queue[t] + (IF x.current = t THEN 1 ELSE 0) = Due(x, t)
      BY DEF Base, Once
    <3> QED
      BY <3>1, <3>2, <3>3, <1>10 DEF Due
  <2>2. CASE Owner[t] = r
    <3>1. y.queue[t] = 0 /\ y.current # t /\ ~y.runner[Owner[t]].isOnline
      BY <2>2, <1>0, <1>1, <1>7, <1>8, <1>9, <1>10
    <3>2. ~IsRecurring(t) => y.told[t] = 1
      <4> SUFFICES ASSUME ~IsRecurring(t)
                   PROVE  y.told[t] = 1
        OBVIOUS
      <4>1. CASE x.queue[t] > 0 \/ x.current = t
        <5>1. x.told[t] = 0
          BY <4>1, AdhocOnce
        <5> QED
          BY <5>1, <4>1, <2>2, <1>8, <1>10
      <4>2. CASE ~(x.queue[t] > 0 \/ x.current = t)
        <5>1. x.told[t] = 1
          <6>1. x.queue[t] = 0
            BY <4>2, <1>0
          <6>2. x.queue[t] + 0 = 1 - x.told[t]
            BY <4>2 DEF Base, Once, Due
          <6> QED
            BY <6>1, <6>2, <1>0
        <5> QED
          BY <5>1, <4>2, <2>2, <1>8, <1>10
      <4> QED
        BY <4>1, <4>2
    <3> QED
      BY <3>1, <3>2 DEF Due
  <2> QED
    BY <2>1, <2>2
<1>14. Online(y)
  <2> SUFFICES ASSUME NEW t \in Task, y.queue[t] > 0 \/ y.current = t
               PROVE  y.runner[Owner[t]].isOnline
    BY DEF Online
  <2>1. Owner[t] # r
    BY <1>0, <1>8, <1>9, <1>10
  <2>2. x.queue[t] > 0 \/ x.current = t
    BY <2>1, <1>0, <1>8, <1>9, <1>10
  <2> QED
    BY <2>1, <2>2, <1>0, <1>7, <1>10 DEF Base, Online
<1> QED
  BY <1>10, <1>11, <1>12, <1>13, <1>14 DEF Good, Base, Bound, Wake, y

\* A task that is not known to the scheduler becomes due and is queued.
LEMMA AddGood ==
    ASSUME NEW x, Base(x), NEW t \in Task, NEW y, y \in SystemType, y.runner = x.runner,
           y.queue = x.queue, y.current = x.current, Bound(y),
           x.queue[t] = 0, x.current # t, x.runner[Owner[t]].isOnline,
           \A u \in Task \ {t} : Due(y, u) = Due(x, u), Due(y, t) = 1
    PROVE  Good(Add(y, t))
<1> DEFINE z == Add(y, t)
           q == [y.queue EXCEPT ![t] = @ + 1]
<1>0. y.queue \in [Task -> Nat] /\ y.queue[t] = 0
  BY Fields
<1>1. q \in [Task -> Nat] /\ q[t] = 1 /\ \A u \in Task \ {t} : q[u] = x.queue[u]
  BY <1>0
<1>2. z = [y EXCEPT !.queue = q, !.pending = TRUE]
  BY DEF Add, PostCheckForTaskRun, SystemType
<1> HIDE DEF q, z
<1>3. /\ z \in SystemType /\ z.runner = x.runner /\ z.queue = q /\ z.current = x.current
      /\ z.bound = y.bound /\ z.told = y.told /\ z.pending = TRUE
  BY <1>1, <1>2 DEF SystemType
<1>4. \A u \in Task : Due(z, u) = Due(y, u)
  BY <1>3 DEF Due
<1>5. Once(z)
  <2> SUFFICES ASSUME NEW u \in Task
               PROVE  z.queue[u] + (IF z.current = u THEN 1 ELSE 0) = Due(z, u)
    BY DEF Once
  <2>1. CASE u = t
    BY <2>1, <1>1, <1>3, <1>4
  <2>2. CASE u # t
    BY <2>2, <1>1, <1>3, <1>4 DEF Base, Once
  <2> QED
    BY <2>1, <2>2
<1>6. Online(z)
  BY <1>1, <1>3 DEF Base, Online
<1>7. Base(z)
  BY <1>3, <1>5, <1>6, AccountsBase DEF Bound
<1> QED
  BY <1>3, <1>7 DEF Good, Wake, z

LEMMA SubmitGood ==
    ASSUME NEW x, Good(x), NEW t \in Task, ~IsRecurring(t), x.told[t] > 0
    PROVE  Good(ScheduleAdhocTask(x, t))
<1> DEFINE y == [x EXCEPT !.told[t] = 0]
<1>0. /\ Base(x) /\ x \in SystemType /\ x.told \in [Task -> Nat] /\ Wake(x)
      /\ x.queue[t] = 0 /\ x.current # t /\ x.told[t] = 1 /\ Owner[t] \in Runner
  BY Fields, AdhocOnce, TasksAssumption DEF Good, Base
<1>1. /\ y \in SystemType /\ y.runner = x.runner /\ y.queue = x.queue
      /\ y.current = x.current /\ y.bound = x.bound
      /\ y.told = [x.told EXCEPT ![t] = 0] /\ y.behavior = x.behavior
      /\ y.blocking = x.blocking /\ y.pending = x.pending /\ y.taskTimer = x.taskTimer
      /\ y.taskDue = x.taskDue /\ y.startTimer = x.startTimer /\ y.startDue = x.startDue
  <2>1. [x.told EXCEPT ![t] = 0] \in [Task -> Nat]
    BY <1>0
  <2> QED
    BY <2>1, <1>0 DEF SystemType
<1>2. y.told[t] = 0 /\ \A u \in Task \ {t} : y.told[u] = x.told[u]
  BY <1>0, <1>1
<1>3. ScheduleAdhocTask(x, t) =
        IF x.runner[Owner[t]].isOnline THEN Add(y, t) ELSE CompleteTask(y, t, "NO_COMMS")
  BY DEF ScheduleAdhocTask
<1> HIDE DEF y
<1>4. CASE x.runner[Owner[t]].isOnline
  <2>1. Due(y, t) = 1 /\ \A u \in Task \ {t} : Due(y, u) = Due(x, u)
    BY <1>1, <1>2 DEF Due
  <2>2. Good(Add(y, t))
    BY <2>1, <1>0, <1>1, <1>4, AddGood DEF Base, Bound
  <2> QED
    BY <2>2, <1>3, <1>4
<1>5. CASE ~x.runner[Owner[t]].isOnline
  <2> DEFINE z == CompleteTask(y, t, "NO_COMMS")
             r == Owner[t]
  <2>1. Completed(y, z, r, t) /\ z.runner = y.runner
    BY <1>0, <1>1, CompleteTaskFacts
  <2>2. /\ z.blocking = y.blocking /\ z.pending = y.pending /\ z.taskTimer = y.taskTimer
        /\ z.taskDue = y.taskDue /\ z.startTimer = y.startTimer
        /\ z.startDue = y.startDue
        /\ \A u \in Task \ {t} : z.behavior[u] = y.behavior[u]
    BY <1>1 DEF CompleteTask, SystemType
  <2> HIDE DEF z, r
  <2>3. \A u \in Task : z.told[u] = x.told[u]
    BY <2>1, <1>0, <1>2 DEF Completed
  <2>4. /\ z \in SystemType /\ z.queue = x.queue /\ z.current = x.current
        /\ z.bound = x.bound /\ z.runner = x.runner
    BY <2>1, <1>1 DEF Completed
  <2>5. z.told = x.told
    BY <2>3, <2>4, <1>0, Fields
  <2>6. Base(z)
    BY <2>4, <2>5, <1>0, FrameBase DEF Frame
  <2>7. Wake(z)
    <3>1. Queued(z) = Queued(x) /\ \A u \in Queued(z) : u \in Task \ {t}
      BY <2>4, <1>0 DEF Queued
    <3>2. \A u \in Queued(z) : z.behavior[u] = x.behavior[u]
      BY <3>1, <2>2, <1>1
    <3>3. /\ \A u \in Queued(z) : ExpirationTime(z, u) = ExpirationTime(x, u)
          /\ \A u \in Queued(z) : IsBlocked(z, u) = IsBlocked(x, u)
      BY <3>2, <2>2, <1>1 DEF ExpirationTime, IsBlocked
    <3> QED
      BY <3>1, <3>2, <3>3, <2>2, <2>4, <1>0, <1>1 DEF Wake, TaskWake, StartWake
  <2> QED
    BY <2>6, <2>7, <1>3, <1>5 DEF Good, z
<1> QED
  BY <1>4, <1>5

LEMMA AddScanGood ==
    ASSUME NEW x, Good(x), NEW t \in Task, Kind[t] = "UserPoll", t \notin x.bound
    PROVE  Good(ScheduleRecurringPollTask(x, t))
<1> DEFINE y == [x EXCEPT !.bound = @ \cup {t}]
<1>0. Base(x) /\ Wake(x) /\ x \in SystemType /\ x.bound \in SUBSET Task /\ x.queue[t] \in Nat
  BY Fields DEF Good, Base
<1>1. IsRecurring(t)
  BY DEF IsRecurring, AdHoc, Command
<1>2. x.queue[t] = 0 /\ x.current # t
  <2>1. x.queue[t] + (IF x.current = t THEN 1 ELSE 0) = 0
    BY <1>0, <1>1 DEF Base, Once, Due
  <2>2. CASE x.current = t
    BY <2>1, <2>2, <1>0
  <2>3. CASE x.current # t
    BY <2>1, <2>3, <1>0
  <2> QED
    BY <2>2, <2>3
<1>3. /\ y \in SystemType /\ y.runner = x.runner /\ y.queue = x.queue
      /\ y.current = x.current /\ y.bound = x.bound \cup {t} /\ y.told = x.told
      /\ y.behavior = x.behavior
      /\ y.blocking = x.blocking /\ y.pending = x.pending /\ y.taskTimer = x.taskTimer
      /\ y.taskDue = x.taskDue /\ y.startTimer = x.startTimer /\ y.startDue = x.startDue
  BY <1>0 DEF SystemType
<1>4. ScheduleRecurringPollTask(x, t) = IF x.runner[Owner[t]].isOnline THEN Add(y, t) ELSE y
  BY DEF ScheduleRecurringPollTask
<1> HIDE DEF y
<1>5. Bound(y)
  BY <1>0, <1>1, <1>3 DEF Base, Bound
<1>6. \A u \in Task \ {t} : Due(y, u) = Due(x, u)
  BY <1>3 DEF Due
<1>7. CASE x.runner[Owner[t]].isOnline
  <2>1. Due(y, t) = 1
    BY <1>1, <1>3, <1>7 DEF Due
  <2>2. Good(Add(y, t))
    BY <2>1, <1>0, <1>2, <1>3, <1>5, <1>6, <1>7, AddGood
  <2> QED
    BY <2>2, <1>4, <1>7
<1>8. CASE ~x.runner[Owner[t]].isOnline
  <2>1. Due(y, t) = Due(x, t)
    BY <1>1, <1>3, <1>8 DEF Due
  <2>2. Once(y)
    BY <2>1, <1>0, <1>3, <1>6 DEF Base, Once
  <2>3. Online(y)
    BY <1>0, <1>3 DEF Base, Online
  <2>4. Base(y)
    BY <2>2, <2>3, <1>0, <1>3, <1>5, AccountsBase
  <2>5. Wake(y)
    BY <1>0, <1>3 DEF Wake, TaskWake, StartWake, Queued, ExpirationTime, IsBlocked
  <2> QED
    BY <2>4, <2>5, <1>4, <1>8 DEF Good
<1> QED
  BY <1>7, <1>8

-------------------------------------------------------------------------------
\* The clock and the timers.

LEMMA ElapseFacts ==
    ASSUME NEW m \in Time, NEW n \in Time
    PROVE  /\ Elapse(m) \in Time
           /\ m <= n => Elapse(m) <= Elapse(n)
           /\ Elapse(n) # Never => n # Never
BY TimesAssumption DEF Elapse, Time

LEMMA TickGood ==
    ASSUME Good(s), Tick
    PROVE  Good(s')
<1> DEFINE f == [t \in Task |->
                   IF ~IsRecurring(t) /\ s.told[t] > 0 THEN s.behavior[t]
                   ELSE [s.behavior[t] EXCEPT !.expiration = Elapse(@), !.start = Elapse(@)]]
           m == Elapse(s.taskDue)
           n == Elapse(s.startDue)
<1>0. /\ Base(s) /\ Wake(s) /\ s \in SystemType /\ s.behavior \in [Task -> Behavior]
      /\ s.taskDue \in Time /\ s.startDue \in Time
  BY Fields DEF Good, Base
<1>1. s' = [s EXCEPT !.taskDue = m, !.startDue = n, !.behavior = f]
  BY DEF Tick
<1>2. \A t \in Task : s.behavior[t].expiration \in Time /\ s.behavior[t].start \in Time
  BY <1>0 DEF Behavior
<1>3. f \in [Task -> Behavior]
  <2> SUFFICES ASSUME NEW t \in Task
               PROVE  f[t] \in Behavior
    OBVIOUS
  <2> DEFINE e == Elapse(s.behavior[t].expiration)
             g == Elapse(s.behavior[t].start)
  <2>1. e \in Time /\ g \in Time /\ s.behavior[t] \in Behavior
    BY <1>0, <1>2, ElapseFacts
  <2>2. f[t] \in {s.behavior[t], [s.behavior[t] EXCEPT !.expiration = e, !.start = g]}
    BY <2>1 DEF Behavior
  <2> HIDE DEF e, g, f
  <2> QED
    BY <2>1, <2>2 DEF Behavior
<1>4. \A t \in Task : IsRecurring(t) \/ ~(s.told[t] > 0) =>
        /\ f[t].expiration = Elapse(s.behavior[t].expiration)
        /\ f[t].start = Elapse(s.behavior[t].start)
  BY <1>0 DEF Behavior
<1>5. m \in Time /\ n \in Time
  BY <1>0, ElapseFacts
<1> HIDE DEF f
<1>6. /\ Frame(s, s') /\ s'.behavior = f /\ s'.taskDue = m /\ s'.startDue = n
      /\ s'.pending = s.pending /\ s'.blocking = s.blocking /\ s'.taskTimer = s.taskTimer
      /\ s'.startTimer = s.startTimer
  <2> HIDE DEF m, n
  <2> QED
    BY <1>0, <1>1, <1>3, <1>5 DEF Frame, SystemType
<1>7. Base(s')
  BY <1>0, <1>6, FrameBase
<1>8. Queued(s') = Queued(s) /\ Queued(s) \subseteq Task
  BY <1>6 DEF Queued, Frame
<1>9. \A t \in Queued(s) : /\ s'.behavior[t].expiration = Elapse(s.behavior[t].expiration)
                           /\ s'.behavior[t].start = Elapse(s.behavior[t].start)
  <2> TAKE t \in Queued(s)
  <2>1. IsRecurring(t) \/ ~(s.told[t] > 0)
    BY <1>0, <1>8, AdhocOnce DEF Queued
  <2> QED
    BY <2>1, <1>4, <1>6, <1>8
<1>10. \A t \in Task : IsBlocked(s', t) = IsBlocked(s, t)
  BY <1>6 DEF IsBlocked
<1>11. ASSUME NEW t \in Queued(s), ExpirationTime(s', t) # Never, ~IsBlocked(s', t),
              TaskWake(s), s.current = None
       PROVE  IsActive(s'.taskTimer) /\ s'.taskDue <= ExpirationTime(s', t)
  <2>1. /\ t \in Enabled /\ ExpirationTime(s', t) = Elapse(s.behavior[t].expiration)
        /\ ExpirationTime(s, t) = s.behavior[t].expiration
    BY <1>9, <1>11 DEF ExpirationTime
  <2>2. ExpirationTime(s, t) # Never /\ ~IsBlocked(s, t)
    BY <2>1, <1>2, <1>8, <1>10, <1>11, ElapseFacts
  <2>3. IsActive(s.taskTimer) /\ s.taskDue <= s.behavior[t].expiration
    BY <2>1, <2>2, <1>11 DEF TaskWake
  <2> QED
    BY <2>1, <2>3, <1>0, <1>2, <1>6, <1>8, ElapseFacts
<1>12. ASSUME NEW t \in Queued(s), ~IsRecurring(t), StartWake(s)
       PROVE  IsActive(s'.startTimer) /\ s'.startDue <= s'.behavior[t].start
  <2>1. IsActive(s.startTimer) /\ s.startDue <= s.behavior[t].start
    BY <1>12 DEF StartWake
  <2> QED
    BY <2>1, <1>0, <1>2, <1>6, <1>8, <1>9, ElapseFacts
<1>13. Wake(s')
  BY <1>0, <1>6, <1>8, <1>11, <1>12 DEF Wake, TaskWake, StartWake, Frame
<1> QED
  BY <1>7, <1>13 DEF Good

LEMMA InitGood ==
    ASSUME Init
    PROVE  Good(s)
<1>0. s = InitSystem
  BY DEF Init
<1>1. /\ TimerOff \in TimerRefType /\ Never \in Time
      /\ Offline \in MContext
  BY SeqAssumption, TimesAssumption DEF TimerOff, TimerRefType, Time, Offline, MContext
<1>2. [t \in Task |-> InitBehavior(t)] \in [Task -> Behavior]
  <2>1. \A t \in Task : InitBehavior(t) \in Behavior
    BY TimesAssumption, DelayTypes DEF InitBehavior, Behavior, Time
  <2> QED
    BY <2>1
<1>3. [t \in Task |-> InitStep(t)] \in [Task -> Nat]
  BY StepTypes
<1>4. s \in SystemType
  BY <1>0, <1>1, <1>2, <1>3 DEF InitSystem, SystemType
<1>5. /\ \A r \in Runner : s.runner[r] = Offline
      /\ \A t \in Task : s.queue[t] = 0 /\ s.told[t] = 1
      /\ s.current = None
      /\ \A t \in s.bound : IsRecurring(t)
  BY <1>0 DEF InitSystem
<1>6. /\ Offline.activeTask = None /\ Offline.tstate = "IDLE" /\ Offline.owed = 0
      /\ Offline.isSending = FALSE /\ Offline.isOnline = FALSE
  BY DEF Offline
<1>7. Agree(s) /\ Contexts(s)
  <2>1. \A r \in Runner : Assigned(s, r) = None
    BY <1>5 DEF Assigned
  <2>2. ContextOK(Offline)
    BY <1>6 DEF ContextOK, Accounted
  <2> QED
    BY <2>1, <2>2, <1>5, <1>6 DEF Agree, Contexts
<1>8. \A t \in Task : t # None /\ Owner[t] \in Runner
  BY NoneAssumption, TasksAssumption
<1>9. Once(s)
  BY <1>5, <1>6, <1>8 DEF Once, Due
<1>10. Online(s)
  BY <1>5, <1>8 DEF Online
<1>11. Queued(s) = {}
  BY <1>5 DEF Queued
<1> QED
  BY <1>4, <1>5, <1>7, <1>9, <1>10, <1>11
     DEF Good, Base, Bound, Wake, TaskWake, StartWake

\* Steps that only move a timer of the scheduler or note a demand.
LEMMA SmallStepGood ==
    ASSUME Good(s), \/ TaskTimerExpires
                    \/ StartTimerExpires
                    \/ \E t \in Task : Demand(t)
    PROVE  Good(s')
<1>0. /\ Base(s) /\ Wake(s) /\ s \in SystemType /\ s.taskTimer \in TimerRefType
      /\ s.startTimer \in TimerRefType /\ s.demanded \in SUBSET Task
  BY Fields DEF Good, Base
<1>1. CASE TaskTimerExpires
  <2> DEFINE tm == TimerExpire(s.taskTimer)
  <2>1. s' = [s EXCEPT !.taskTimer = tm] /\ tm \in TimerRefType /\ IsActive(tm)
    BY <1>0, <1>1, TimerFacts DEF TaskTimerExpires
  <2> HIDE DEF tm
  <2>2. /\ Frame(s, s') /\ s'.taskTimer = tm /\ s'.startTimer = s.startTimer
        /\ s'.pending = s.pending /\ s'.behavior = s.behavior /\ s'.blocking = s.blocking
        /\ s'.taskDue = s.taskDue /\ s'.startDue = s.startDue
    BY <2>1, <1>0 DEF Frame, SystemType
  <2> QED
    BY <2>1, <2>2, <1>0, FrameBase, FrameWake DEF Good
<1>2. CASE StartTimerExpires
  <2> DEFINE tm == TimerExpire(s.startTimer)
  <2>1. s' = [s EXCEPT !.startTimer = tm] /\ tm \in TimerRefType /\ IsActive(tm)
    BY <1>0, <1>2, TimerFacts DEF StartTimerExpires
  <2> HIDE DEF tm
  <2>2. /\ Frame(s, s') /\ s'.taskTimer = s.taskTimer /\ s'.startTimer = tm
        /\ s'.pending = s.pending /\ s'.behavior = s.behavior /\ s'.blocking = s.blocking
        /\ s'.taskDue = s.taskDue /\ s'.startDue = s.startDue
    BY <2>1, <1>0 DEF Frame, SystemType
  <2> QED
    BY <2>1, <2>2, <1>0, FrameBase, FrameWake DEF Good
<1>3. ASSUME NEW t \in Task, Demand(t)
      PROVE  Good(s')
  <2>1. s' = [s EXCEPT !.demanded = s.demanded \cup {t}]
    BY <1>3 DEF Demand
  <2>2. /\ Frame(s, s') /\ s'.taskTimer = s.taskTimer /\ s'.startTimer = s.startTimer
        /\ s'.pending = s.pending /\ s'.behavior = s.behavior /\ s'.blocking = s.blocking
        /\ s'.taskDue = s.taskDue /\ s'.startDue = s.startDue
    BY <2>1, <1>0 DEF Frame, SystemType
  <2> QED
    BY <2>2, <1>0, FrameBase, FrameWake DEF Good
<1> QED
  BY <1>1, <1>2, <1>3

\* The expiry and the callbacks of the response timer.
LEMMA ResponseTimerGood ==
    ASSUME Good(s), NEW r \in Runner,
           \/ ResponseTimerExpires(r)
           \/ ResponseTimerCallback(r)
           \/ StaleResponseTimerCallback(r)
    PROVE  Good(s')
<1> DEFINE u == s.runner[r].responseTimer
<1>0. s \in SystemType /\ u \in TimerRefType /\ ContextOK(s.runner[r])
  BY Fields DEF Good, Base, Contexts, MContext
<1>1. CASE ResponseTimerExpires(r)
  <2> DEFINE tm == TimerExpire(u)
  <2>1. s' = WithTimer(s, r, tm)
    BY <1>0, <1>1 DEF ResponseTimerExpires, WithTimer, SystemType
  <2>2. tm \in TimerRefType /\ IsActive(tm)
    BY <1>0, TimerFacts
  <2> HIDE DEF tm
  <2>3. Keeps(s, s', r) /\ Alike(s.runner[r], s'.runner[r]) /\ s'.runner[r].responseTimer = tm
    BY <2>1, <2>2, <1>0, TimerUpdate
  <2>4. ContextOK(s'.runner[r])
    BY <2>2, <2>3, <1>0 DEF ContextOK, Alike, Accounted
  <2> QED
    BY <2>3, <2>4, KeepsGood
<1>2. CASE ResponseTimerCallback(r)
  <2> DEFINE tm == CurrentCallback(u)
  <2>1. s' = OnResponseTimeout(WithTimer(s, r, tm), r)
    BY <1>0, <1>2 DEF ResponseTimerCallback, WithTimer, SystemType
  <2>2. tm \in TimerRefType
    BY <1>0, TimerFacts
  <2> HIDE DEF tm
  <2> QED
    BY <2>1, <2>2, <1>0, TimerUpdate, TimeoutGood
<1>3. CASE StaleResponseTimerCallback(r)
  <2> DEFINE tm == StaleCallback(u)
  <2>1. s' = OnResponseTimeout(WithTimer(s, r, tm), r)
    BY <1>0, <1>3 DEF StaleResponseTimerCallback, WithTimer, SystemType
  <2>2. tm \in TimerRefType
    BY <1>0, <1>3, TimerFacts DEF StaleResponseTimerCallback
  <2> HIDE DEF tm
  <2> QED
    BY <2>1, <2>2, <1>0, TimerUpdate, TimeoutGood
<1> QED
  BY <1>1, <1>2, <1>3

\* The steps that look for the next task.
LEMMA CheckStepGood ==
    ASSUME Good(s), \/ PostedCheck
                    \/ TaskTimerCallback
                    \/ StaleTaskTimerCallback
                    \/ \E t \in Task : RunDemand(t)
    PROVE  Good(s')
<1>0. /\ Base(s) /\ s \in SystemType /\ s.taskTimer \in TimerRefType
      /\ s.behavior \in [Task -> Behavior] /\ s.demanded \in SUBSET Task /\ Never \in Time
  BY Fields, TimesAssumption DEF Good, Base, Time
<1>1. CASE PostedCheck
  BY <1>0, <1>1, CheckGood DEF PostedCheck
<1>2. \A tm \in TimerRefType : Base([s EXCEPT !.taskTimer = tm, !.taskDue = Never])
  <2> TAKE tm \in TimerRefType
  <2> DEFINE y == [s EXCEPT !.taskTimer = tm, !.taskDue = Never]
  <2>1. Frame(s, y)
    BY <1>0 DEF Frame, SystemType
  <2> QED
    BY <2>1, <1>0, FrameBase
<1>3. CASE TaskTimerCallback
  <2> DEFINE tm == CurrentCallback(s.taskTimer)
             y == [s EXCEPT !.taskTimer = tm, !.taskDue = Never]
  <2>1. PICK b \in BOOLEAN : s' \in CheckForTaskRun(y, b)
    BY <1>3 DEF TaskTimerCallback
  <2>2. Base(y)
    BY <1>0, <1>2, TimerFacts
  <2> HIDE DEF y
  <2> QED
    BY <2>1, <2>2, CheckGood
<1>4. CASE StaleTaskTimerCallback
  <2> DEFINE tm == StaleCallback(s.taskTimer)
             y == [s EXCEPT !.taskTimer = tm, !.taskDue = Never]
  <2>1. PICK b \in BOOLEAN : s' \in CheckForTaskRun(y, b)
    BY <1>4 DEF StaleTaskTimerCallback
  <2>2. tm \in TimerRefType
    BY <1>0, <1>4, TimerFacts DEF StaleTaskTimerCallback
  <2>3. Base(y)
    BY <2>2, <1>2
  <2> HIDE DEF y
  <2> QED
    BY <2>1, <2>3, CheckGood
<1>5. ASSUME NEW t \in Task, RunDemand(t)
      PROVE  Good(s')
  <2> DEFINE f == [s.behavior EXCEPT ![t] = BehaviorReset(t, @)]
             y == [s EXCEPT !.demanded = s.demanded \ {t}, !.behavior = f]
  <2>1. f \in [Task -> Behavior]
    BY <1>0, BehaviorTypes
  <2>2. y = [s EXCEPT !.demanded = @ \ {t}, !.behavior[t] = BehaviorReset(t, @)]
    BY <1>0 DEF SystemType
  <2>3. PICK b \in BOOLEAN : s' \in CheckForTaskRun(y, b)
    BY <2>2, <1>5 DEF RunDemand
  <2> HIDE DEF f
  <2>4. Frame(s, y)
    BY <2>1, <1>0 DEF Frame, SystemType
  <2> HIDE DEF y
  <2> QED
    BY <2>3, <2>4, <1>0, FrameBase, CheckGood
<1> QED
  BY <1>1, <1>3, <1>4, <1>5

LEMMA StartTimerGood ==
    ASSUME Good(s), StartTimerCallback \/ StaleStartTimerCallback
    PROVE  Good(s')
<1>0. /\ Base(s) /\ Wake(s) /\ s \in SystemType /\ s.startTimer \in TimerRefType
      /\ Never \in Time
  BY Fields, TimesAssumption DEF Good, Base, Time
<1>1. PICK tm \in TimerRefType :
        s' = TimeoutTasks([s EXCEPT !.startTimer = tm, !.startDue = Never])
  <2>1. CASE StartTimerCallback
    BY <2>1, <1>0, TimerFacts DEF StartTimerCallback
  <2>2. CASE StaleStartTimerCallback
    BY <2>2, <1>0, TimerFacts DEF StaleStartTimerCallback
  <2> QED
    BY <2>1, <2>2
<1> DEFINE y == [s EXCEPT !.startTimer = tm, !.startDue = Never]
<1>2. /\ Frame(s, y) /\ y.pending = s.pending /\ y.behavior = s.behavior
      /\ y.blocking = s.blocking /\ y.taskTimer = s.taskTimer /\ y.taskDue = s.taskDue
  BY <1>0 DEF Frame, SystemType
<1>3. s' = TimeoutTasks(y)
  BY <1>1
<1> HIDE DEF y
<1>4. Base(y)
  BY <1>0, <1>2, FrameBase
<1>5. ~y.pending => TaskWake(y)
  BY <1>0, <1>2 DEF Wake, TaskWake, Frame, Queued, ExpirationTime, IsBlocked
<1> QED
  BY <1>3, <1>4, <1>5, TimeoutTasksGood

-------------------------------------------------------------------------------

LEMMA StepGood ==
    ASSUME Good(s), [Next]_vars
    PROVE  Good(s')
<1>1. ASSUME NEW r \in Runner, LowerLayerUp(r)
      PROVE  Good(s')
  BY <1>1, UpGood DEF LowerLayerUp, Good
<1>2. ASSUME NEW r \in Runner, LowerLayerDown(r)
      PROVE  Good(s')
  BY <1>2, DownGood DEF LowerLayerDown, Good
<1>3. ASSUME NEW r \in Runner, TxReady(r)
      PROVE  Good(s')
  BY <1>3, TxReadyGood DEF TxReady
<1>4. ASSUME NEW r \in Runner, ReceiveResponse(r)
      PROVE  Good(s')
  BY <1>4, ResponseGood DEF ReceiveResponse
<1>5. ASSUME NEW r \in Runner, ReceiveUnsolicited(r)
      PROVE  Good(s')
  BY <1>5, UnsolicitedGood DEF ReceiveUnsolicited
<1>6. ASSUME NEW t \in Task, Submit(t)
      PROVE  Good(s')
  BY <1>6, SubmitGood DEF Submit
<1>7. ASSUME NEW t \in Task, AddScan(t)
      PROVE  Good(s')
  BY <1>7, AddScanGood DEF AddScan
<1>8. CASE UNCHANGED vars
  BY <1>8 DEF vars
<1> QED
  BY <1>1, <1>2, <1>3, <1>4, <1>5, <1>6, <1>7, <1>8, ResponseTimerGood, SmallStepGood,
     CheckStepGood, StartTimerGood, TickGood DEF Next

\* The invariant holds at all times.
LEMMA AlwaysGood == Spec => []Good(s)
<1>1. Init => Good(s)
  BY InitGood
<1>2. Good(s) /\ [Next]_vars => Good(s)'
  BY StepGood
<1> QED
  BY <1>1, <1>2, PTL DEF Spec

\* Scheduler, masters and tasks keep their types: the sequence number wraps
\* (AppSeqNum), no retry delay passes its maximum (CalcNextRetryTimeout) and no
\* queue of the scheduler or of the confirms is taken from when it is empty.
THEOREM TypeCorrect == Spec => []TypeOK
<1>1. Init => downs \in Nat
  BY DEF Init
<1>2. downs \in Nat /\ [Next]_vars => (downs \in Nat)'
  <2> SUFFICES ASSUME downs \in Nat, [Next]_vars
               PROVE  downs' \in Nat
    OBVIOUS
  <2>1. downs' = downs \/ \E r \in Runner : LowerLayerDown(r)
    BY DEF Next, vars, LowerLayerUp, TxReady, ReceiveResponse, ReceiveUnsolicited,
           ResponseTimerExpires, ResponseTimerCallback, StaleResponseTimerCallback, Submit,
           AddScan, Demand, RunDemand, PostedCheck, TaskTimerExpires, TaskTimerCallback,
           StaleTaskTimerCallback, StartTimerExpires, StartTimerCallback,
           StaleStartTimerCallback, Tick
  <2> QED
    BY <2>1 DEF LowerLayerDown
<1>3. Spec => []Good(s)
  BY AlwaysGood
<1>4. Good(s) /\ downs \in Nat => TypeOK
  BY DEF Good, Base, TypeOK
<1> QED
  BY <1>1, <1>2, <1>3, <1>4, PTL DEF Spec

\* A master executes a task exactly when it is the scheduler's current one, so
\* MContext::Run never refuses the task that CheckForTaskRun took from its queue.
THEOREM SchedulerAndMastersAgree == Spec => []RunnersAgree
<1>1. Good(s) => RunnersAgree
  BY DEF Good, Base, Agree, Assigned, Contexts, ContextOK, RunnersAgree
<1> QED
  BY <1>1, AlwaysGood, PTL

\* MContext::Transmit is never called while a transmission is under way, and a
\* master that waits has a completion, a timer or a task to wait for.
THEOREM NobodyWaitsForNothing == Spec => []WaitsForSomething
<1>1. Good(s) => WaitsForSomething
  BY DEF Good, Base, Contexts, ContextOK, Accounted, WaitsForSomething
<1> QED
  BY <1>1, AlwaysGood, PTL

\* Whatever fails and whenever a layer goes down, SetRunnerOffline,
\* CompleteCurrentFor and TimeoutTasks neither lose a task nor queue it twice,
\* and the completion of a task is reported once.
THEOREM NoTaskLostOrDoubled == Spec => []EachTaskOnce
<1>1. Good(s) => EachTaskOnce
  BY DEF Good, Base, Once, Due, EachTaskOnce
<1> QED
  BY <1>1, AlwaysGood, PTL

\* After every handler a check is posted, a task runs, or the timers that
\* CheckForTaskRun set are early enough for every task that is queued.
THEOREM NoWakeupLost == Spec => []WillWakeUp
<1>1. Good(s) => WillWakeUp
  BY DEF Good, Wake, TaskWake, StartWake, WillWakeUp
<1> QED
  BY <1>1, AlwaysGood, PTL
===============================================================================
