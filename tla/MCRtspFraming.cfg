CONSTANTS
  Cap = 4
  Length = 3
  Sizes <- MCSizes
SPECIFICATION Spec
CHECK_DEADLOCK FALSE
INVARIANTS AnswersFollowTheStream NothingCompleteWaits
PROPERTIES ArrivedIsAnswered
