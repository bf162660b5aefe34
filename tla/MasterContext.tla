----------------------------- MODULE MasterContext -----------------------------
(***************************************************************************)
(* MasterSchedulerBackend, which runs one task at a time for the masters   *)
(* of a channel, and MContext, which carries a task out.  They call each   *)
(* other, so the operators work on one record of both:                     *)
(*                                                                         *)
(*   runner     - for each master its MContext                             *)
(*   queue      - how often a task is in the scheduler's vector; the order *)
(*                of the vector only decides between tasks of equal        *)
(*                standing, and either may win here                        *)
(*   current    - the record the scheduler runs                            *)
(*   pending    - taskCheckPending: a CheckForTaskRun is posted            *)
(*   demanded   - tasks for which a Demand is posted                       *)
(*   taskTimer, startTimer - with taskDue and startDue, the time left      *)
(*   behavior, step, blocking - the state of the tasks                     *)
(*   bound      - the recurring tasks that Initialize adds                 *)
(*   told       - how often the completion of an ad hoc task was reported  *)
(*                since it was submitted; a task never submitted has 1     *)
(***************************************************************************)
EXTENDS MasterTasks, TimerRef

CONSTANTS SeqMod        \* application sequence numbers: 16

ASSUME SeqAssumption == SeqMod \in Nat \ {0}

MContext ==
    [isOnline : BOOLEAN, isSending : BOOLEAN, solSeq : 0 .. SeqMod - 1,
     tstate : {"IDLE", "TASK_READY", "WAIT_FOR_RESPONSE"},
     activeTask : Task \cup {None}, responseTimer : TimerRefType,
     confirmQueue : Nat,    \* confirms that wait to be sent
     owed : Nat]            \* transmissions the transport layer has not completed

Offline ==
    [isOnline |-> FALSE, isSending |-> FALSE, solSeq |-> 0, tstate |-> "IDLE",
     activeTask |-> None, responseTimer |-> TimerOff, confirmQueue |-> 0, owed |-> 0]

SystemType ==
    [runner : [Runner -> MContext], queue : [Task -> Nat], current : Task \cup {None},
     pending : BOOLEAN, demanded : SUBSET Task,
     taskTimer : TimerRefType, taskDue : Time, startTimer : TimerRefType, startDue : Time,
     behavior : [Task -> Behavior], step : [Task -> Nat], blocking : SUBSET Task,
     bound : SUBSET Task, told : [Task -> Nat]]

InitSystem ==
    [runner |-> [r \in Runner |-> Offline], queue |-> [t \in Task |-> 0], current |-> None,
     pending |-> FALSE, demanded |-> {},
     taskTimer |-> TimerOff, taskDue |-> Never, startTimer |-> TimerOff, startDue |-> Never,
     behavior |-> [t \in Task |-> InitBehavior(t)], step |-> [t \in Task |-> InitStep(t)],
     blocking |-> {},
     bound |-> {t \in Task : IsRecurring(t) /\ Kind[t] # "UserPoll"},
     told |-> [t \in Task |-> 1]]

-------------------------------------------------------------------------------
\* IMasterTask and TaskContext.

Queued(s) == {t \in Task : s.queue[t] > 0}

ExpirationTime(s, t) == IF t \in Enabled THEN s.behavior[t].expiration ELSE Never

IsBlocked(s, t) ==
    \E b \in s.blocking : Owner[b] = Owner[t] /\ Priority(b) < Priority(t)

\* An ad hoc task is gone when it has completed, whatever its last behaviour: its
\* name stands for the next one of its kind.
CompletedBehavior(t, b, result) ==
    IF ~IsRecurring(t) THEN InitBehavior(t)
    ELSE CASE result = "NO_COMMS" -> BehaviorReset(t, b)
           [] result = "RESPONSE_TIMEOUT" -> BehaviorTimeout(t, b)
           [] result = "SUCCESS" -> BehaviorSuccess(t, b)
           [] OTHER -> BehaviorDisable(b)

\* BAD_RESPONSE, START_TIMEOUT and MESSAGE_FORMAT_ERROR disable the task.  What a
\* recurring task kept between its requests is initialized when it next starts.
CompleteTask(s, t, result) ==
    [s EXCEPT !.behavior[t] = CompletedBehavior(t, @, result),
              !.blocking = CASE result = "NO_COMMS" -> @
                             [] result = "SUCCESS" -> @ \ {t}
                             [] OTHER -> IF BlocksLowerPriority(t) THEN @ \cup {t} ELSE @,
              !.step[t] = InitStep(t),
              !.told[t] = IF IsRecurring(t) THEN @ ELSE @ + 1]

-------------------------------------------------------------------------------
\* MasterSchedulerBackend, but for CheckForTaskRun.

PostCheckForTaskRun(s) == [s EXCEPT !.pending = TRUE]

Add(s, t) == PostCheckForTaskRun([s EXCEPT !.queue[t] = @ + 1])

\* Defect: the task that the runner was executing stays the current one.
SetRunnerOfflineKeepsCurrent(s, r) ==
    LET lost == {t \in Task : Owner[t] = r /\ ~IsRecurring(t) /\ s.queue[t] > 0}
    IN  PostCheckForTaskRun(
          [s EXCEPT !.queue = [t \in Task |-> IF Owner[t] = r THEN 0 ELSE @[t]],
                    !.behavior = [t \in Task |->
                        IF t \in lost THEN CompletedBehavior(t, @[t], "NO_COMMS") ELSE @[t]],
                    !.step = [t \in Task |-> IF t \in lost THEN InitStep(t) ELSE @[t]],
                    !.told = [t \in Task |-> IF t \in lost THEN @[t] + 1 ELSE @[t]]])

\* Defect: the task that the runner was executing is dropped and not failed.
SetRunnerOfflineDropsCurrent(s, r) ==
    LET s1 == SetRunnerOfflineKeepsCurrent(s, r)
    IN  [s1 EXCEPT !.current = IF @ # None /\ Owner[@] = r THEN None ELSE @]

\* The ad hoc tasks of the runner fail, the recurring ones are forgotten as they
\* are: Initialize adds them again.
SetRunnerOffline(s, r) ==
    LET owned == {t \in Task : Owner[t] = r /\ (s.queue[t] > 0 \/ s.current = t)}
        lost == {t \in owned : ~IsRecurring(t)}
    IN  PostCheckForTaskRun(
          [s EXCEPT !.current = IF @ \in owned THEN None ELSE @,
                    !.queue = [t \in Task |-> IF t \in owned THEN 0 ELSE @[t]],
                    !.behavior = [t \in Task |->
                        IF t \in lost THEN CompletedBehavior(t, @[t], "NO_COMMS") ELSE @[t]],
                    !.step = [t \in Task |-> IF t \in lost THEN InitStep(t) ELSE @[t]],
                    !.told = [t \in Task |-> IF t \in lost THEN @[t] + 1 ELSE @[t]]])

\* Defect: nothing looks for another task when an ad hoc task completes.
CompleteCurrentSilently(s, r) ==
    IF s.current = None \/ Owner[s.current] # r THEN s
    ELSE [(IF IsRecurring(s.current) THEN Add(s, s.current) ELSE s) EXCEPT !.current = None]

\* Defect: a task is queued again whether it recurs or not.
CompleteCurrentRequeues(s, r) ==
    IF s.current = None \/ Owner[s.current] # r THEN s
    ELSE PostCheckForTaskRun([Add(s, s.current) EXCEPT !.current = None])

CompleteCurrentFor(s, r) ==
    IF s.current = None \/ Owner[s.current] # r THEN s
    ELSE PostCheckForTaskRun(
           [(IF IsRecurring(s.current) THEN Add(s, s.current) ELSE s) EXCEPT !.current = None])

StartTimes(s) ==
    {Never} \cup {s.behavior[t].start : t \in {u \in Queued(s) : ~IsRecurring(u)}}

FirstStart(s) == CHOOSE n \in StartTimes(s) : \A k \in StartTimes(s) : n <= k

RestartTimeoutTimer(s) ==
    [s EXCEPT !.startTimer = TimerRestart(@), !.startDue = FirstStart(s)]

TimeoutTasks(s) ==
    LET late == {t \in Queued(s) : ~IsRecurring(t) /\ s.behavior[t].start = 0}
    IN  RestartTimeoutTimer(
          [s EXCEPT !.queue = [t \in Task |-> IF t \in late THEN 0 ELSE @[t]],
                    !.behavior = [t \in Task |->
                        IF t \in late THEN CompletedBehavior(t, @[t], "START_TIMEOUT") ELSE @[t]],
                    !.step = [t \in Task |-> IF t \in late THEN InitStep(t) ELSE @[t]],
                    !.told = [t \in Task |-> IF t \in late THEN @[t] + 1 ELSE @[t]]])

\* GetBestTaskToRun: enabled before disabled, unblocked before blocked, then the
\* earlier expiration, then the priority.
Better(s, t, u) ==
    LET disabled(x) == ExpirationTime(s, x) = Never
    IN  IF disabled(t) # disabled(u) THEN disabled(u)
        ELSE IF IsBlocked(s, t) # IsBlocked(s, u) THEN IsBlocked(s, u)
        ELSE IF ExpirationTime(s, t) # ExpirationTime(s, u)
        THEN ExpirationTime(s, t) < ExpirationTime(s, u)
        ELSE Priority(t) < Priority(u)

BestTasks(s) == {t \in Queued(s) : \A u \in Queued(s) : ~Better(s, u, t)}

-------------------------------------------------------------------------------
\* MContext.

\* The transport layer is given a fragment; it will answer with OnTxReady.
Transmit(s, r) ==
    [s EXCEPT !.runner[r].isSending = TRUE, !.runner[r].owed = @ + 1]

CheckConfirmTransmit(s, r) ==
    IF s.runner[r].isSending \/ s.runner[r].confirmQueue = 0 THEN s
    ELSE [Transmit(s, r) EXCEPT !.runner[r].confirmQueue = @ - 1]

QueueConfirm(s, r) ==
    CheckConfirmTransmit([s EXCEPT !.runner[r].confirmQueue = @ + 1], r)

CompleteActiveTask(s, r) ==
    IF s.runner[r].activeTask = None THEN s
    ELSE CompleteCurrentFor([s EXCEPT !.runner[r].activeTask = None], r)

\* builds tells whether the request fits into the transmit buffer.
ResumeActiveTask(s, r, builds) ==
    LET t == s.runner[r].activeTask
        s1 == [s EXCEPT !.step[t] = BuildStep(t, @)]
    IN  IF builds \/ ~MayFailToBuild(t)
        THEN Transmit([s1 EXCEPT !.runner[r].responseTimer = TimerStart(@),
                                 !.runner[r].tstate = "WAIT_FOR_RESPONSE"], r)
        ELSE [CompleteActiveTask(CompleteTask(s1, t, "MESSAGE_FORMAT_ERROR"), r)
                EXCEPT !.runner[r].tstate = "IDLE"]

Run(s, r, t, builds) ==
    IF s.runner[r].activeTask # None \/ s.runner[r].tstate # "IDLE" THEN s
    ELSE LET s1 == [s EXCEPT !.runner[r].tstate = "TASK_READY",
                             !.runner[r].activeTask = t,
                             !.step[t] = Initialize(t, @)]
         IN  IF s.runner[r].isSending THEN s1 ELSE ResumeActiveTask(s1, r, builds)

\* CheckForTaskRun, when it finds t to be the best task.
CheckBestTask(s, t, builds) ==
    IF ExpirationTime(s, t) = 0
    THEN Run([s EXCEPT !.current = t, !.queue[t] = @ - 1], Owner[t], t, builds)
    ELSE [s EXCEPT !.taskTimer = TimerRestart(@), !.taskDue = ExpirationTime(s, t)]

\* The outcomes of CheckForTaskRun.
CheckForTaskRun(s, builds) ==
    LET s1 == RestartTimeoutTimer([s EXCEPT !.pending = FALSE])
    IN  IF s.current # None \/ Queued(s) = {} THEN {s1}
        ELSE {CheckBestTask(s1, t, builds) : t \in BestTasks(s)}

\* MasterTasks::Demand for the tasks that an indication asks for.
DemandedKinds(iin) ==
    UNION {CASE b = "DEVICE_RESTART" ->
                  {"ClearRestart", "AssignClass", "StartupIntegrity", "EnableUnsolicited"}
             [] b = "EVENT_BUFFER_OVERFLOW" -> {"StartupIntegrity"}
             [] b = "NEED_TIME" -> TimeSync
             [] b = "EVENTS" -> {"EventScan"}
             [] OTHER -> {} : b \in iin \cap Heeded}

ProcessIIN(s, r, iin) ==
    LET asked == {t \in Task : Owner[t] = r /\ Kind[t] \in DemandedKinds(iin)}
        s1 == [s EXCEPT !.behavior =
                  [t \in Task |-> IF t \in asked THEN BehaviorReset(t, @[t]) ELSE @[t]]]
    IN  IF asked # {} \/ "DEVICE_RESTART" \in iin \cap Heeded
        THEN PostCheckForTaskRun(s1) ELSE s1

\* Defect: the next request of the task does not wait for the transmission.
StartTaskAtOnce(s, r, builds) == ResumeActiveTask(s, r, builds)

StartTask(s, r, builds) ==
    IF s.runner[r].isSending THEN [s EXCEPT !.runner[r].tstate = "TASK_READY"]
    ELSE ResumeActiveTask(s, r, builds)

\* OK_CONTINUE: the next fragment of the response has its own timeout.
ContinueTask(s, r) == [s EXCEPT !.runner[r].responseTimer = TimerStart(@)]

\* Defect: the sequence number does not wrap.
IncrementSeqUnbounded(s, r) == [s EXCEPT !.runner[r].solSeq = @ + 1]

IncrementSeq(s, r) == [s EXCEPT !.runner[r].solSeq = (@ + 1) % SeqMod]

OnTaskResponse(s, t, p) ==
    LET result == ProcessResponse(t, s.step[t], p)
        s1 == [s EXCEPT !.step[t] = ResponseStep(t, @, p)]
    IN  CASE result = "BAD" -> CompleteTask(s1, t, "BAD_RESPONSE")
          [] result = "FINAL" -> CompleteTask(s1, t, "SUCCESS")
          [] OTHER -> s1

WaitForResponse(s, r, p, builds) ==
    LET t == s.runner[r].activeTask
        result == ProcessResponse(t, s.step[t], p)
        s1 == [IncrementSeq(s, r) EXCEPT !.runner[r].responseTimer = TimerCancel(@)]
        s2 == OnTaskResponse(s1, t, p)
        s3 == IF p.CON THEN QueueConfirm(s2, r) ELSE s2
    IN  CASE result = "CONTINUE" -> ContinueTask(s3, r)
          [] result = "REPEAT" -> StartTask(s3, r, builds)
          [] OTHER -> [CompleteActiveTask(s3, r) EXCEPT !.runner[r].tstate = "IDLE"]

\* ProcessResponse of MContext: the indications of a response nobody expected
\* are heeded as well.
OnResponse(s, r, p, builds) ==
    ProcessIIN(IF s.runner[r].tstate = "WAIT_FOR_RESPONSE" /\ p.SEQ = s.runner[r].solSeq
               THEN WaitForResponse(s, r, p, builds) ELSE s, r, p.iin)

OnUnsolicitedResponse(s, r, p) ==
    ProcessIIN(IF p.objects # "bad" /\ p.CON
               THEN QueueConfirm(s, r) ELSE s, r, p.iin)

OnTxReady(s, r, builds) ==
    LET s1 == [s EXCEPT !.runner[r].isSending = FALSE, !.runner[r].owed = @ - 1]
    IN  CheckConfirmTransmit(
          IF s.runner[r].tstate = "TASK_READY" THEN ResumeActiveTask(s1, r, builds) ELSE s1, r)

OnResponseTimeout(s, r) ==
    IF ~s.runner[r].isOnline \/ s.runner[r].tstate # "WAIT_FOR_RESPONSE" THEN s
    ELSE [CompleteActiveTask(
            IncrementSeq(CompleteTask(s, s.runner[r].activeTask, "RESPONSE_TIMEOUT"), r), r)
            EXCEPT !.runner[r].tstate = "IDLE"]

\* MasterTasks::Initialize adds the recurring tasks.
OnLowerLayerUp(s, r) ==
    PostCheckForTaskRun(
      [s EXCEPT !.runner[r].isOnline = TRUE,
                !.queue = [t \in Task |->
                    IF Owner[t] = r /\ t \in s.bound THEN @[t] + 1 ELSE @[t]]])

\* The queue of confirms is kept.
OnLowerLayerDown(s, r) ==
    SetRunnerOffline(
      [s EXCEPT !.runner[r] =
          [Offline EXCEPT !.responseTimer = TimerCancel(s.runner[r].responseTimer),
                          !.confirmQueue = s.runner[r].confirmQueue]], r)

\* A new ad hoc task; it fails at once when the master is offline.
ScheduleAdhocTask(s, t) ==
    LET s1 == [s EXCEPT !.told[t] = 0]
    IN  IF s.runner[Owner[t]].isOnline THEN Add(s1, t) ELSE CompleteTask(s1, t, "NO_COMMS")

ScheduleRecurringPollTask(s, t) ==
    LET s1 == [s EXCEPT !.bound = @ \cup {t}]
    IN  IF s.runner[Owner[t]].isOnline THEN Add(s1, t) ELSE s1
===============================================================================
