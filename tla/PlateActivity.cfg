SPECIFICATION Spec
INVARIANT
    AnswersLedHere
PROPERTY
    PreviousUndoesNext
