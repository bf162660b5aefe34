--------------------------------- MODULE Master ---------------------------------
(***************************************************************************)
(* The masters of a channel and their scheduler, between the application   *)
(* that submits tasks, the transport layers below, the outstations that    *)
(* answer as they like, and the clock.  One strand runs all handlers.      *)
(***************************************************************************)
EXTENDS MasterContext

CONSTANTS Responses,     \* the responses of the outstations, but for SEQ
          Unsolicited,   \* the unsolicited responses
          MaxConfirms,   \* bound: confirms queued
          MaxDowns,      \* bound: times a layer goes down
          MaxStale       \* bound: handlers of each timer that outlive a Cancel

VARIABLES s,      \* the scheduler and the masters
          downs   \* times a layer went down

vars == <<s, downs>>

Init == s = InitSystem /\ downs = 0

\* Timers whose handler is queued, or one that a Cancel came too late for.
Timers == {s.taskTimer, s.startTimer} \cup {s.runner[r].responseTimer : r \in Runner}
Late(t) == t.stale + (IF t.ref = "fired" THEN 1 ELSE 0)

\* A timer that expires has its handler queued behind others; with the bound
\* reached an expiry and its handler are one step.
Expires(t) == CanExpire(t, MaxStale) /\ \A u \in Timers : Late(u) = 0

LowerLayerUp(r) ==
    /\ ~s.runner[r].isOnline
    /\ s' = OnLowerLayerUp(s, r)
    /\ UNCHANGED downs

LowerLayerDown(r) ==
    /\ s.runner[r].isOnline
    /\ downs < MaxDowns
    /\ s' = OnLowerLayerDown(s, r)
    /\ downs' = downs + 1

\* Whether the next request of the active task can be built.
MayBuild(r) ==
    IF s.runner[r].activeTask \in {t \in Task : MayFailToBuild(t)} THEN BOOLEAN ELSE {TRUE}

\* The transport layer completes a transmission.
TxReady(r) ==
    /\ s.runner[r].isOnline
    /\ s.runner[r].owed > 0
    /\ \E builds \in MayBuild(r) : s' = OnTxReady(s, r, builds)
    /\ UNCHANGED downs

\* The response carries the expected sequence number or another one.
ReceiveResponse(r) ==
    /\ s.runner[r].isOnline
    /\ s.runner[r].confirmQueue < MaxConfirms
    /\ \/ \E p \in Responses, builds \in MayBuild(r) :
            s' = OnResponse(s, r, [p EXCEPT !.SEQ = s.runner[r].solSeq], builds)
       \/ \E p \in Responses :
            s' = OnResponse(s, r, [p EXCEPT !.SEQ = s.runner[r].solSeq + 1], TRUE)
    /\ UNCHANGED downs

ReceiveUnsolicited(r) ==
    /\ s.runner[r].isOnline
    /\ s.runner[r].confirmQueue < MaxConfirms
    /\ \E p \in Unsolicited : s' = OnUnsolicitedResponse(s, r, p)
    /\ UNCHANGED downs

ResponseTimerExpires(r) ==
    /\ Expires(s.runner[r].responseTimer)
    /\ s' = [s EXCEPT !.runner[r].responseTimer = TimerExpire(@)]
    /\ UNCHANGED downs

ResponseTimerCallback(r) ==
    /\ IsActive(s.runner[r].responseTimer)
    /\ s' = OnResponseTimeout([s EXCEPT !.runner[r].responseTimer = CurrentCallback(@)], r)
    /\ UNCHANGED downs

StaleResponseTimerCallback(r) ==
    /\ s.runner[r].responseTimer.stale > 0
    /\ s' = OnResponseTimeout([s EXCEPT !.runner[r].responseTimer = StaleCallback(@)], r)
    /\ UNCHANGED downs

\* DirectOperate, SelectAndOperate, Scan, Write, Restart and PerformFunction.
Submit(t) ==
    /\ ~IsRecurring(t)
    /\ s.told[t] > 0
    /\ s' = ScheduleAdhocTask(s, t)
    /\ UNCHANGED downs

AddScan(t) ==
    /\ Kind[t] = "UserPoll"
    /\ t \notin s.bound
    /\ s' = ScheduleRecurringPollTask(s, t)
    /\ UNCHANGED downs

\* MasterScan::Demand, then what it posts.
Demand(t) ==
    /\ Kind[t] = "UserPoll"
    /\ t \in s.bound \ s.demanded
    /\ s' = [s EXCEPT !.demanded = @ \cup {t}]
    /\ UNCHANGED downs

RunDemand(t) ==
    /\ t \in s.demanded
    /\ \E builds \in BOOLEAN :
         s' \in CheckForTaskRun([s EXCEPT !.demanded = @ \ {t},
                                          !.behavior[t] = BehaviorReset(t, @)], builds)
    /\ UNCHANGED downs

PostedCheck ==
    /\ s.pending
    /\ \E builds \in BOOLEAN : s' \in CheckForTaskRun(s, builds)
    /\ UNCHANGED downs

TaskTimerExpires ==
    /\ s.taskDue = 0
    /\ Expires(s.taskTimer)
    /\ s' = [s EXCEPT !.taskTimer = TimerExpire(@)]
    /\ UNCHANGED downs

TaskTimerCallback ==
    /\ s.taskDue = 0
    /\ IsActive(s.taskTimer)
    /\ \E builds \in BOOLEAN :
         s' \in CheckForTaskRun([s EXCEPT !.taskTimer = CurrentCallback(@),
                                          !.taskDue = Never], builds)
    /\ UNCHANGED downs

StaleTaskTimerCallback ==
    /\ s.taskTimer.stale > 0
    /\ \E builds \in BOOLEAN :
         s' \in CheckForTaskRun([s EXCEPT !.taskTimer = StaleCallback(@),
                                          !.taskDue = Never], builds)
    /\ UNCHANGED downs

StartTimerExpires ==
    /\ s.startDue = 0
    /\ Expires(s.startTimer)
    /\ s' = [s EXCEPT !.startTimer = TimerExpire(@)]
    /\ UNCHANGED downs

StartTimerCallback ==
    /\ s.startDue = 0
    /\ IsActive(s.startTimer)
    /\ s' = TimeoutTasks([s EXCEPT !.startTimer = CurrentCallback(@), !.startDue = Never])
    /\ UNCHANGED downs

StaleStartTimerCallback ==
    /\ s.startTimer.stale > 0
    /\ s' = TimeoutTasks([s EXCEPT !.startTimer = StaleCallback(@), !.startDue = Never])
    /\ UNCHANGED downs

Elapse(n) == IF n \in {0, Never} THEN n ELSE n - 1

Tick ==
    /\ s' = [s EXCEPT !.taskDue = Elapse(@), !.startDue = Elapse(@),
                      !.behavior = [t \in Task |->
                          IF ~IsRecurring(t) /\ s.told[t] > 0 THEN s.behavior[t]
                          ELSE [s.behavior[t] EXCEPT !.expiration = Elapse(@),
                                                     !.start = Elapse(@)]]]
    /\ UNCHANGED downs

Next ==
    \/ \E r \in Runner :
         \/ LowerLayerUp(r)
         \/ LowerLayerDown(r)
         \/ TxReady(r)
         \/ ReceiveResponse(r)
         \/ ReceiveUnsolicited(r)
         \/ ResponseTimerExpires(r)
         \/ ResponseTimerCallback(r)
         \/ StaleResponseTimerCallback(r)
    \/ \E t \in Task :
         \/ Submit(t)
         \/ AddScan(t)
         \/ Demand(t)
         \/ RunDemand(t)
    \/ PostedCheck
    \/ TaskTimerExpires
    \/ TaskTimerCallback
    \/ StaleTaskTimerCallback
    \/ StartTimerExpires
    \/ StartTimerCallback
    \/ StaleStartTimerCallback
    \/ Tick

Spec == Init /\ [][Next]_vars

\* The response that t awaits goes on: a fragment of it arrives that is not the
\* last one, and the response timer starts anew (OK_CONTINUE).
NextFragment(t) ==
    LET c == s.runner[Owner[t]]
    IN  /\ c.activeTask = t /\ c.tstate = "WAIT_FOR_RESPONSE"
        /\ \E p \in Responses :
             /\ ProcessResponse(t, s.step[t], p) = "CONTINUE"
             /\ s' = OnResponse(s, Owner[t], [p EXCEPT !.SEQ = c.solSeq], TRUE)
        /\ UNCHANGED downs

\* The clock advances, a timer expires and the strand runs what is queued on it;
\* nothing is assumed of the outstations, the layers below and the application,
\* but that the transport layer completes what it was given while it is up.  The
\* response timer need not expire if it is started anew for ever.
Fairness ==
    /\ WF_vars(Tick)
    /\ WF_vars(PostedCheck)
    /\ WF_vars(TaskTimerCallback)
    /\ WF_vars(StartTimerCallback)
    /\ \A r \in Runner :
         /\ WF_vars(TxReady(r))
         /\ \/ WF_vars(ResponseTimerCallback(r))
            \/ []<><<\E t \in Task : Owner[t] = r /\ NextFragment(t)>>_vars

FairSpec == Spec /\ Fairness

-------------------------------------------------------------------------------

\* Scheduler, masters and tasks keep their types: sequence numbers wrap and no
\* time passes Never (MasterSchedulerBackend, MContext, TaskBehavior).
TypeOK == s \in SystemType /\ downs \in Nat

\* The scheduler and the masters agree on who runs what: a master executes a
\* task exactly when it is the scheduler's current one, so CheckForTaskRun,
\* which ignores what Run returns, never has a task refused and lost.
RunnersAgree ==
    \A r \in Runner :
       LET c == s.runner[r]
       IN  /\ c.activeTask = IF s.current # None /\ Owner[s.current] = r
                             THEN s.current ELSE None
           /\ (c.tstate = "IDLE") <=> (c.activeTask = None)

\* Every master has at most one fragment in the layer below, confirms included,
\* which are sent whenever a response asks for one: the assertion in Transmit.
\* A master that is ready to send waits for the completion of a transmission,
\* one that awaits a response has a timer, and a confirm that is queued goes out
\* when a transmission completes; only a confirm left over from before the layer
\* went down may wait, while the master is idle, for the next transmission.
WaitsForSomething ==
    \A r \in Runner :
       LET c == s.runner[r]
       IN  /\ c.owed = IF c.isSending THEN 1 ELSE 0
           /\ c.tstate = "TASK_READY" => c.isSending
           /\ c.tstate = "WAIT_FOR_RESPONSE" => IsActive(c.responseTimer)
           /\ c.confirmQueue > 0 /\ c.isOnline => c.isSending \/ c.tstate = "IDLE"

\* No task is lost or doubled: a recurring task of a master that is online is
\* queued or running, once; a task that the application submitted is queued or
\* running until its completion is reported, and that happens once.
EachTaskOnce ==
    \A t \in Task :
       s.queue[t] + (IF s.current = t THEN 1 ELSE 0) =
          IF IsRecurring(t)
          THEN IF t \in s.bound /\ s.runner[Owner[t]].isOnline THEN 1 ELSE 0
          ELSE 1 - s.told[t]

\* No wakeup is lost: when nothing runs and no check is posted, the task timer
\* is set no later than the first enabled task that nothing blocks may run, and
\* the start timer no later than the first ad hoc task is given up.
WillWakeUp ==
    ~s.pending =>
       /\ s.current = None => \A t \in Queued(s) :
             ExpirationTime(s, t) # Never /\ ~IsBlocked(s, t) =>
                IsActive(s.taskTimer) /\ s.taskDue <= ExpirationTime(s, t)
       /\ \A t \in Queued(s) : ~IsRecurring(t) =>
             IsActive(s.startTimer) /\ s.startDue <= s.behavior[t].start

\* Every task the application submits is reported as completed, whatever the
\* outstations answer and however the layers go up and down, unless the outstation
\* answers it with a response that has no last fragment.  Only a scan can meet
\* that; a task that waits for its turn behind such a scan is given up in time.
SubmittedCompletes ==
    \A t \in Task : \/ s.told[t] = 0 ~> s.told[t] > 0
                   \/ []<><<NextFragment(t)>>_vars
===============================================================================
