--------------------------- MODULE PlateActivityProofs ---------------------------
(***************************************************************************)
(* Proofs for PlateActivity.  What the wizard remembers in fromShutin and  *)
(* toDone is stale at most positions; the invariant says where it is not,  *)
(* and that there the answers and the way back agree with it.              *)
(***************************************************************************)
EXTENDS PlateActivity, TLAPS

Types ==
    /\ position \in Position
    /\ fromShutin \in BOOLEAN
    /\ answer \in [Question -> BOOLEAN]
    /\ cameFrom \in [Position -> Position]

\* The visible layout belongs to the position, as far as a question is concerned.
Shown ==
    /\ layout = "layoutFlow" => position = 1
    /\ layout = "layoutShutin" => position = 2
    /\ layout = "layoutCheckOrifice" => position = 4

\* Where the way back leads through the first and the second measurement.
Measured == position \in 3..6 \/ (position = 7 /\ toDone \in {"check", "maintenance"})
Changed == position \in 5..6 \/ (position = 7 /\ toDone = "maintenance")

Answers ==
    /\ AnswersLedHere
    /\ Measured => IF fromShutin THEN ~answer["layoutFlow"] /\ answer["layoutShutin"]
                                 ELSE answer["layoutFlow"]

\* The positions on the way back, and where each was entered from.
Trail ==
    /\ cameFrom[1] = 0
    /\ position = 2 \/ (Measured /\ fromShutin) \/ (position = 7 /\ toDone = "shutin")
         => cameFrom[2] = 1
    /\ Measured => cameFrom[3] = IF fromShutin THEN 2 ELSE 1
    /\ Measured /\ position # 3 => cameFrom[4] = 3
    /\ Changed => cameFrom[5] = 4
    /\ Changed /\ position # 5 => cameFrom[6] = 5
    /\ position = 7 => \/ toDone = "shutin" /\ cameFrom[7] = 2
                       \/ toDone = "check" /\ cameFrom[7] = 4
                       \/ toDone = "maintenance" /\ cameFrom[7] = 6

Inv == Types /\ Shown /\ Answers /\ Trail

LEMMA InitInv == Init => Inv
  <1> SUFFICES ASSUME Init PROVE Inv
    OBVIOUS
  <1>1. Types
    <2>1. position \in Position /\ cameFrom \in [Position -> Position]
      BY DEF Init, Position
    <2>2. fromShutin \in BOOLEAN /\ answer \in [Question -> BOOLEAN]
      BY Zenon DEF Init
    <2> QED BY <2>1, <2>2 DEF Types
  <1>2. Shown
    BY DEF Init, Shown
  <1>3. Answers
    BY DEF Init, Answers, AnswersLedHere, Measured
  <1>4. Trail
    BY DEF Init, Trail, Measured, Changed, Position
  <1> QED BY <1>1, <1>2, <1>3, <1>4 DEF Inv

\* Pressing a radio button changes only the answer of the visible question.
LEMMA ChooseInv == Inv /\ Choose => Inv'
  <1> SUFFICES ASSUME Inv, Choose PROVE Inv'
    OBVIOUS
  <1>1. PICK yes \in BOOLEAN : answer' = [answer EXCEPT ![layout] = yes]
    BY DEF Choose
  <1>2. /\ layout \in Question
        /\ UNCHANGED <<position, fromShutin, toDone, layout, cameFrom>>
    BY DEF Choose, memory, screen
  <1>3. Types'
    BY <1>1, <1>2 DEF Inv, Types
  <1>4. Shown' /\ Trail'
    BY <1>2 DEF Inv, Shown, Trail, Measured, Changed
  <1>5. Answers'
    <2>1. CASE layout = "layoutFlow"
      BY <1>1, <1>2, <2>1 DEF Inv, Types, Shown, Answers, AnswersLedHere, Measured, Question
    <2>2. CASE layout = "layoutShutin"
      BY <1>1, <1>2, <2>2 DEF Inv, Types, Shown, Answers, AnswersLedHere, Measured, Question
    <2>3. CASE layout = "layoutCheckOrifice"
      BY <1>1, <1>2, <2>3 DEF Inv, Types, Shown, Answers, AnswersLedHere, Measured, Question
    <2> QED BY <1>2, <2>1, <2>2, <2>3 DEF Question
  <1> QED BY <1>3, <1>4, <1>5 DEF Inv

\* Next.
LEMMA NextInv == Inv /\ next => Inv'
  <1> SUFFICES ASSUME Inv, next PROVE Inv'
    OBVIOUS
  <1> USE DEF Inv, Types, Position, Question, Shown, Answers, AnswersLedHere, Trail,
              Measured, Changed, Advance, GoTo, Unmarked, memory
  <1>1. CASE Advance(0, "none", TRUE, 1, "layoutFlow") /\ Unmarked
    BY <1>1
  <1>2. CASE Advance(1, "layoutFlow", TRUE, 3, "layoutMaintenance") /\ ToFirstMeasurement(FALSE)
    <2>1. fromShutin' \in BOOLEAN
      BY <1>2, Zenon DEF ToFirstMeasurement
    <2> QED BY <1>2, <2>1 DEF ToFirstMeasurement
  <1>3. CASE Advance(1, "layoutFlow", FALSE, 2, "layoutShutin") /\ Unmarked
    BY <1>3
  <1>4. CASE Advance(2, "layoutShutin", TRUE, 3, "layoutMaintenance") /\ ToFirstMeasurement(TRUE)
    BY <1>4 DEF ToFirstMeasurement
  <1>5. CASE Advance(2, "layoutShutin", FALSE, 7, "layoutDone") /\ ToDone("shutin")
    BY <1>5 DEF ToDone
  <1>6. CASE Advance(3, "none", TRUE, 4, "layoutCheckOrifice") /\ Unmarked
    BY <1>6
  <1>7. CASE Advance(4, "layoutCheckOrifice", TRUE, 5, "layoutChangeOrifice") /\ Unmarked
    BY <1>7
  <1>8. CASE Advance(4, "layoutCheckOrifice", FALSE, 7, "layoutDone") /\ ToDone("check")
    BY <1>8 DEF ToDone
  <1>9. CASE Advance(5, "none", TRUE, 6, "layoutMaintenance") /\ ToSecondMeasurement
    BY <1>9 DEF ToSecondMeasurement
  <1>10. CASE Advance(6, "none", TRUE, 7, "layoutDone") /\ ToDone("maintenance")
    BY <1>10 DEF ToDone
  <1> QED
    BY <1>1, <1>2, <1>3, <1>4, <1>5, <1>6, <1>7, <1>8, <1>9, <1>10 DEF next

\* Previous goes one position back along the trail.
LEMMA PreviousInv == Inv /\ previous => Inv' /\ position' = cameFrom[position]
  <1> SUFFICES ASSUME Inv, previous PROVE Inv' /\ position' = cameFrom[position]
    OBVIOUS
  <1> USE DEF Inv, Types, Position, Question, Shown, Answers, AnswersLedHere, Trail,
              Measured, Changed, GoTo, previous, memory
  <1>1. CASE GoBack
    BY <1>1 DEF GoBack
  <1>2. CASE Retrace
    BY <1>2 DEF Retrace
  <1> QED BY <1>1, <1>2

LEMMA StepInv == Inv /\ [Next]_vars => Inv'
  <1> SUFFICES ASSUME Inv, [Next]_vars PROVE Inv'
    OBVIOUS
  <1>1. CASE goToMainActivity
    BY <1>1 DEF goToMainActivity, memory, screen, Inv, Types, Shown, Answers, AnswersLedHere,
                Trail, Measured, Changed
  <1>2. CASE onCreate
    <2>1. Types'
      <3>1. position' \in Position /\ cameFrom' \in [Position -> Position]
        BY <1>2 DEF onCreate, GoTo, Position
      <3>2. fromShutin' \in BOOLEAN /\ answer' \in [Question -> BOOLEAN]
        BY <1>2, Zenon DEF onCreate
      <3> QED BY <3>1, <3>2 DEF Types
    <2>2. Shown'
      BY <1>2 DEF onCreate, GoTo, Shown
    <2>3. Answers'
      BY <1>2 DEF onCreate, GoTo, Answers, AnswersLedHere, Measured
    <2>4. Trail'
      BY <1>2 DEF onCreate, GoTo, Trail, Measured, Changed, Position
    <2> QED BY <2>1, <2>2, <2>3, <2>4 DEF Inv
  <1>3. CASE UNCHANGED vars
    BY <1>3 DEF vars, memory, screen, Inv, Types, Shown, Answers, AnswersLedHere,
                Trail, Measured, Changed
  <1> QED BY <1>1, <1>2, <1>3, ChooseInv, NextInv, PreviousInv DEF Next

\* The checked answers are always the ones that led to the position.
THEOREM AnswersAgree == Spec => []AnswersLedHere
  <1>1. Inv => AnswersLedHere
    BY DEF Inv, Answers
  <1> QED BY InitInv, StepInv, <1>1, PTL DEF Spec

\* Previous always undoes Next.
THEOREM WayBack == Spec => PreviousUndoesNext
  <1>1. Inv /\ [Next]_vars => [previous => position' = cameFrom[position]]_vars
    BY PreviousInv
  <1> QED BY InitInv, StepInv, <1>1, PTL DEF Spec, PreviousUndoesNext
===============================================================================
