------------------------------ MODULE MasterTasks ------------------------------
(***************************************************************************)
(* The tasks of the masters on one channel: what IMasterTask and its       *)
(* subclasses are (kind), when they may run (TaskBehavior), which of them  *)
(* block others (TaskContext), and what a response means to each.          *)
(*                                                                         *)
(* Times are the time left: 0 is "now or earlier", Never is the maximum    *)
(* of MonotonicTimestamp.                                                  *)
(***************************************************************************)
EXTENDS Naturals

CONSTANTS Runner,        \* the masters that share the channel
          Task,          \* their tasks
          Owner,         \* [Task -> Runner]
          Kind,          \* [Task -> TaskKind]
          Enabled,       \* the tasks whose IsEnabled() holds
          RetryPeriod,   \* params.taskRetryPeriod
          MaxRetry,      \* params.maxTaskRetryPeriod
          ScanPeriod,    \* the period of a user poll
          StartTimeout,  \* params.taskStartTimeout
          Never,         \* MonotonicTimestamp::Max, TimeDuration::Max
          Heeded         \* the internal indications that the parameters heed

TaskKind == {"DirectOperate", "SelectAndOperate", "EmptyResponse", "RestartOperation",
             "ClearRestart", "DisableUnsolicited", "AssignClass", "StartupIntegrity",
             "LANTimeSync", "SerialTimeSync", "EnableUnsolicited", "EventScan",
             "UserPoll", "UserScan"}
IIN == {"DEVICE_RESTART", "EVENT_BUFFER_OVERFLOW", "NEED_TIME", "EVENTS", "REQUEST_ERROR"}
Time == 0 .. Never

ASSUME TasksAssumption ==
    /\ Owner \in [Task -> Runner]
    /\ Kind \in [Task -> TaskKind]
    /\ Enabled \subseteq Task
    /\ Heeded \subseteq IIN
ASSUME TimesAssumption ==
    /\ Never \in Nat \ {0}
    /\ {RetryPeriod, MaxRetry, ScanPeriod, StartTimeout} \subseteq Time

None == "no task"
ASSUME NoneAssumption == None \notin Task

Command == {"DirectOperate", "SelectAndOperate"}
TimeSync == {"LANTimeSync", "SerialTimeSync"}
Poll == {"StartupIntegrity", "EventScan", "UserPoll", "UserScan"}
IINOnly == {"ClearRestart", "EventScan"} \cup TimeSync
AdHoc == Command \cup {"EmptyResponse", "RestartOperation", "UserScan"}

IsRecurring(t) == Kind[t] \notin AdHoc
BlocksLowerPriority(t) == IsRecurring(t) /\ Kind[t] # "UserPoll"

\* Lower numbers are better.
Priority(t) ==
    CASE Kind[t] \in Command -> 100
      [] Kind[t] \in {"EmptyResponse", "RestartOperation"} -> 110
      [] Kind[t] = "ClearRestart" -> 120
      [] Kind[t] = "DisableUnsolicited" -> 130
      [] Kind[t] = "AssignClass" -> 140
      [] Kind[t] = "StartupIntegrity" -> 150
      [] Kind[t] \in TimeSync -> 160
      [] Kind[t] = "EnableUnsolicited" -> 170
      [] Kind[t] = "EventScan" -> 180
      [] OTHER -> 190

-------------------------------------------------------------------------------
\* TaskBehavior.  The behaviour of a task is a record of the time it may run,
\* the present retry delay and the time by which it must have started.

MinRetryDelay(t) == IF Kind[t] \in IINOnly \cup AdHoc THEN Never ELSE RetryPeriod
MaxRetryDelay(t) == IF Kind[t] \in IINOnly \cup AdHoc THEN Never ELSE MaxRetry

Behavior == [expiration : Time, retry : Time, start : Time]

InitBehavior(t) ==
    [expiration |-> IF Kind[t] \in IINOnly THEN Never ELSE 0,
     retry |-> MinRetryDelay(t),
     start |-> IF Kind[t] \in AdHoc THEN StartTimeout ELSE Never]

CalcNextRetryTimeout(t, d) == IF 2 * d > MaxRetryDelay(t) THEN MaxRetryDelay(t) ELSE 2 * d

\* Reset, also SetMinExpiration.
BehaviorReset(t, b) == [b EXCEPT !.expiration = 0, !.retry = MinRetryDelay(t)]
BehaviorDisable(b) == [b EXCEPT !.expiration = Never]
BehaviorSuccess(t, b) ==
    [b EXCEPT !.expiration = IF Kind[t] = "UserPoll" THEN ScanPeriod ELSE Never,
              !.retry = MinRetryDelay(t)]
BehaviorTimeout(t, b) ==
    [b EXCEPT !.expiration = b.retry, !.retry = CalcNextRetryTimeout(t, b.retry)]

-------------------------------------------------------------------------------
\* What a task makes of a response to its present request.  step is the state of
\* the task between its requests: the function codes a command has left, the
\* fragments a poll received (at most 1 is told apart), the phase of a time sync.

Response == [SEQ : Nat, CON : BOOLEAN, FIR : BOOLEAN, FIN : BOOLEAN,
             objects : {"none", "good", "refused", "bad"}, iin : SUBSET IIN]

InitStep(t) ==
    CASE Kind[t] = "SelectAndOperate" -> 2
      [] Kind[t] = "DirectOperate" -> 1
      [] OTHER -> 0

\* IMasterTask::Initialize, at the start of every execution.
Initialize(t, n) == IF Kind[t] \in Poll \cup TimeSync THEN 0 ELSE n

\* BuildRequest: a command takes the next function code.
BuildStep(t, n) ==
    CASE Kind[t] \in Command -> IF n > 0 THEN n - 1 ELSE 0
      [] Kind[t] \in {"UserPoll", "UserScan"} -> 0
      [] OTHER -> n
\* The requests whose size depends on the user may not fit.
MayFailToBuild(t) == Kind[t] \in Command \cup {"AssignClass", "EmptyResponse", "UserPoll", "UserScan"}

ValidateSingleResponse(r) == r.FIR /\ r.FIN
ValidateNullResponse(r) ==
    ValidateSingleResponse(r) /\ r.objects = "none" /\ "REQUEST_ERROR" \notin r.iin

CommandResponse(n, r) ==
    IF ~ValidateSingleResponse(r) \/ r.objects = "bad" THEN "BAD"
    ELSE IF n = 0 \/ r.objects # "good" THEN "FINAL" ELSE "REPEAT"

PollResponse(n, r) ==
    IF r.FIR # (n = 0) \/ r.objects = "bad" THEN "BAD"
    ELSE IF r.FIN THEN "FINAL" ELSE "CONTINUE"

DelayMeasured(t, r) ==
    IF Kind[t] = "LANTimeSync" THEN ValidateNullResponse(r)
    ELSE ValidateSingleResponse(r) /\ r.objects = "good"

TimeSyncResponse(t, n, r) ==
    IF n = 0 THEN IF DelayMeasured(t, r) THEN "REPEAT" ELSE "BAD"
    ELSE IF ValidateNullResponse(r) THEN "FINAL" ELSE "BAD"

ProcessResponse(t, n, r) ==
    CASE Kind[t] \in Command -> CommandResponse(n, r)
      [] Kind[t] \in Poll -> PollResponse(n, r)
      [] Kind[t] \in TimeSync -> TimeSyncResponse(t, n, r)
      [] Kind[t] = "ClearRestart" ->
           IF ValidateSingleResponse(r) /\ "DEVICE_RESTART" \notin r.iin THEN "FINAL" ELSE "BAD"
      [] Kind[t] = "RestartOperation" ->
           IF /\ ValidateSingleResponse(r)
              /\ "REQUEST_ERROR" \notin r.iin
              /\ r.objects = "good"
           THEN "FINAL" ELSE "BAD"
      [] OTHER -> IF ValidateNullResponse(r) THEN "FINAL" ELSE "BAD"

ResponseStep(t, n, r) ==
    IF Kind[t] \in Poll \/ (Kind[t] \in TimeSync /\ ProcessResponse(t, n, r) = "REPEAT")
    THEN 1 ELSE n
===============================================================================
