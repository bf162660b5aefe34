------------------------------ MODULE PlateActivity ------------------------------
(***************************************************************************)
(* The orifice plate change wizard (PlateActivity.java): eight positions   *)
(* on seven layouts, moved through with Next and Previous.  The two        *)
(* measurements share one layout and differ in its label.                  *)
(*                                                                         *)
(*   0 choose meter        3 first measurement       6 second measurement  *)
(*   1 flow conditions     4 change the plate?       7 complete            *)
(*   2 shut in             5 new plate size                                *)
(*                                                                         *)
(* A radio button can be pressed only while its layout is shown, and each  *)
(* group starts with Yes checked (activity_plate.xml).  cameFrom is a      *)
(* history variable: the position from which each was last entered by Next.*)
(***************************************************************************)
EXTENDS Naturals

VARIABLES position,
          fromShutin,   \* the first measurement was entered from shut-in
          toDone,       \* which layout the last one was entered from
          layout,       \* the visible layout
          label,        \* the text of the measurement layout
          nextText,     \* the text of the Next button
          answer,       \* answer[g]: Yes is checked in radio group g
          open,         \* the activity has not been finished
          cameFrom

screen == <<layout, label, nextText>>
memory == <<fromShutin, toDone>>
vars == <<position, memory, screen, answer, open, cameFrom>>

Position == 0..7
Question == {"layoutFlow", "layoutShutin", "layoutCheckOrifice"}
Layout == Question \cup {"layoutMeter", "layoutMaintenance", "layoutChangeOrifice", "layoutDone"}

Init ==
    /\ position = 0 /\ layout = "layoutMeter"
    /\ fromShutin = FALSE /\ toDone = "none"
    /\ label = "none" /\ nextText = "Next"
    /\ answer = [q \in Question |-> TRUE]
    /\ open = TRUE
    /\ cameFrom = [p \in Position |-> 0]

\* The user presses a radio button of the visible layout.
Choose ==
    /\ open /\ layout \in Question
    /\ \E yes \in BOOLEAN : answer' = [answer EXCEPT ![layout] = yes]
    /\ UNCHANGED <<position, memory, screen, open, cameFrom>>

GoTo(p, shown) == position' = p /\ layout' = shown

\* next() moves from position p, whose question q (if any) was answered yes.
Advance(p, q, yes, to, shown) ==
    /\ open /\ position = p
    /\ q \in Question => answer[q] = yes
    /\ GoTo(to, shown)
    /\ cameFrom' = [cameFrom EXCEPT ![to] = p]
    /\ UNCHANGED <<answer, open>>

\* Mutant of ToFirstMeasurement: the flag is set for shut-in and never cleared.
ToFirstMeasurementKeepsFlag(shutin) ==
    /\ label' = "Number_1"
    /\ fromShutin' = (fromShutin \/ shutin)
    /\ UNCHANGED <<toDone, nextText>>

ToFirstMeasurement(shutin) ==
    /\ label' = "Number_1"
    /\ fromShutin' = shutin
    /\ UNCHANGED <<toDone, nextText>>

ToDone(origin) ==
    /\ toDone' = origin
    /\ nextText' = "Finish"
    /\ UNCHANGED <<fromShutin, label>>

ToSecondMeasurement ==
    /\ label' = "Number_2"
    /\ UNCHANGED <<memory, nextText>>

Unmarked == UNCHANGED <<memory, label, nextText>>

next ==
    \/ Advance(0, "none", TRUE, 1, "layoutFlow") /\ Unmarked
    \/ Advance(1, "layoutFlow", TRUE, 3, "layoutMaintenance") /\ ToFirstMeasurement(FALSE)
    \/ Advance(1, "layoutFlow", FALSE, 2, "layoutShutin") /\ Unmarked
    \/ Advance(2, "layoutShutin", TRUE, 3, "layoutMaintenance") /\ ToFirstMeasurement(TRUE)
    \/ Advance(2, "layoutShutin", FALSE, 7, "layoutDone") /\ ToDone("shutin")
    \/ Advance(3, "none", TRUE, 4, "layoutCheckOrifice") /\ Unmarked
    \/ Advance(4, "layoutCheckOrifice", TRUE, 5, "layoutChangeOrifice") /\ Unmarked
    \/ Advance(4, "layoutCheckOrifice", FALSE, 7, "layoutDone") /\ ToDone("check")
    \/ Advance(5, "none", TRUE, 6, "layoutMaintenance") /\ ToSecondMeasurement
    \/ Advance(6, "none", TRUE, 7, "layoutDone") /\ ToDone("maintenance")

\* Mutant of GoBack: the first measurement always goes back to flow conditions.
GoBackToFlow ==
    \/ position = 3 /\ GoTo(1, "layoutFlow")
    \/ position = 7 /\ toDone = "shutin" /\ GoTo(2, "layoutShutin")
    \/ position = 7 /\ toDone = "check" /\ GoTo(4, "layoutCheckOrifice")
    \/ position = 7 /\ toDone = "maintenance" /\ GoTo(6, "layoutMaintenance")

\* The positions that remember where they were entered from.
GoBack ==
    \/ position = 3 /\ fromShutin /\ GoTo(2, "layoutShutin")
    \/ position = 3 /\ ~fromShutin /\ GoTo(1, "layoutFlow")
    \/ position = 7 /\ toDone = "shutin" /\ GoTo(2, "layoutShutin")
    \/ position = 7 /\ toDone = "check" /\ GoTo(4, "layoutCheckOrifice")
    \/ position = 7 /\ toDone = "maintenance" /\ GoTo(6, "layoutMaintenance")

\* The others: at position 0 the Previous button is disabled.
Retrace ==
    \/ position = 1 /\ GoTo(0, "layoutMeter")
    \/ position = 2 /\ GoTo(1, "layoutFlow")
    \/ position = 4 /\ GoTo(3, "layoutMaintenance")
    \/ position = 5 /\ GoTo(4, "layoutCheckOrifice")
    \/ position = 6 /\ GoTo(5, "layoutChangeOrifice")

previous ==
    /\ open
    /\ GoBack \/ Retrace
    /\ nextText' = IF position = 7 THEN "Next" ELSE nextText
    /\ UNCHANGED <<memory, label, answer, open, cameFrom>>

\* The Cancel button at any position, and Finish at the last one.
goToMainActivity ==
    /\ open /\ open' = FALSE
    /\ UNCHANGED <<position, memory, screen, answer, cameFrom>>

\* The activity is started again from the main menu.
onCreate ==
    /\ ~open /\ open' = TRUE
    /\ GoTo(0, "layoutMeter")
    /\ fromShutin' = FALSE /\ toDone' = "none"
    /\ label' = "none" /\ nextText' = "Next"
    /\ answer' = [q \in Question |-> TRUE]
    /\ cameFrom' = [p \in Position |-> 0]

Next == Choose \/ next \/ previous \/ goToMainActivity \/ onCreate

Spec == Init /\ [][Next]_vars

-------------------------------------------------------------------------------
\* Previous undoes Next: it shows the layout from which the current one was
\* entered, however often the user went back and forth in between (fromShutin
\* and toDone carry this over several layouts).
PreviousUndoesNext == [][previous => position' = cameFrom[position]]_vars

\* The answers that are checked are the ones that led to the position: a
\* measurement is shown only if there is flow or the meter is shut in, a new
\* plate size is asked for only if the plate changes, and the wizard is
\* complete only after a No or the second measurement.
AnswersLedHere ==
    /\ position = 2 => ~answer["layoutFlow"]
    /\ position \in 3..6 => IF fromShutin THEN ~answer["layoutFlow"] /\ answer["layoutShutin"]
                                          ELSE answer["layoutFlow"]
    /\ position \in 5..6 => answer["layoutCheckOrifice"]
    /\ position = 7 => \/ toDone = "shutin" /\ ~answer["layoutFlow"] /\ ~answer["layoutShutin"]
                       \/ toDone = "check" /\ ~answer["layoutCheckOrifice"]
                       \/ toDone = "maintenance" /\ answer["layoutCheckOrifice"]
===============================================================================
