SPECIFICATION FairSpec
CONSTANTS
  o1 = o1
  Orders = {o1}
  NoOrder = NoOrder
  Payments = {"bank"}
  Cancellers = {"reaper", "failed"}
PROPERTY AnsweredFailureEnds
CHECK_DEADLOCK FALSE
