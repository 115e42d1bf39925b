SPECIFICATION FairSpec
CONSTANTS
  c1 = c1
  c2 = c2
  r1 = r1
  r2 = r2
  Credits = {c1, c2}
  Runs = {r1, r2}
  KeepDays = 2
  FaultPlans <- OneOfEach
  MaxDay = 2
  MaxItems = 2
INVARIANTS TypeOK SentWithinCredits DebitsWereSent FailedWasNotSent
PROPERTY SentIsRecorded
CHECK_DEADLOCK FALSE
