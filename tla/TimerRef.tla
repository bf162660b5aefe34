------------------------------- MODULE TimerRef -------------------------------
(***************************************************************************)
(* openpal::TimerRef on top of asiopal::Executor.                          *)
(*                                                                         *)
(* A TimerRef owns at most one timer (pTimer).  The timer's handler is     *)
(* wrapped by the strand: when the timer expires the handler is queued     *)
(* with a success code, and a later Cancel does not remove it from the     *)
(* queue.  The proxy that TimerRef installs clears pTimer whatever timer   *)
(* it is, so a handler that outlives its Cancel also makes the TimerRef    *)
(* forget a newer timer.                                                   *)
(*                                                                         *)
(*   ref   - "off": pTimer is null; "armed": the timer is running;         *)
(*           "fired": it has expired and its handler is queued             *)
(*   stale - handlers that will still run although pTimer does not refer   *)
(*           to their timer any more                                       *)
(*                                                                         *)
(* Times are abstracted: an armed timer may expire at any moment.          *)
(***************************************************************************)
EXTENDS Naturals

TimerRefType == [ref : {"off", "armed", "fired"}, stale : Nat]

TimerOff == [ref |-> "off", stale |-> 0]

IsActive(t) == t.ref # "off"

\* Start does nothing when a timer is active.
TimerStart(t) == IF IsActive(t) THEN t ELSE [t EXCEPT !.ref = "armed"]

\* A timer whose handler is already queued cannot be cancelled any more.
TimerCancel(t) ==
    [ref |-> "off", stale |-> IF t.ref = "fired" THEN t.stale + 1 ELSE t.stale]

\* Restart cancels whatever is active and starts a new timer.
TimerRestart(t) == [TimerCancel(t) EXCEPT !.ref = "armed"]

\* The timer expires and its handler is queued on the strand behind others.
\* maxStale bounds the handlers that may outlive a Cancel; with 0 an expiry
\* and its handler are one step (CurrentCallback of an armed timer).
CanExpire(t, maxStale) == t.ref = "armed" /\ t.stale < maxStale
TimerExpire(t) == [t EXCEPT !.ref = "fired"]

\* What the proxy does before it runs the action, for the timer pTimer refers
\* to and for one it does not refer to any more.
CurrentCallback(t) == [t EXCEPT !.ref = "off"]
StaleCallback(t) ==
    [ref |-> "off", stale |-> IF IsActive(t) THEN t.stale ELSE t.stale - 1]
===============================================================================
