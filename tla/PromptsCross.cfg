SPECIFICATION Spec
CONSTANT MaxAsked = 3
INVARIANT CrossAnswersOnce
CHECK_DEADLOCK FALSE
