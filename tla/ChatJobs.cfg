SPECIFICATION Spec
CONSTANTS
  Jobs = {j1, j2}
  Handlers = {h1, h2}
  TTL = 0
  MaxClock = 1
  Free = Free
  None = None
INVARIANTS TypeOK SettledOutcome LiveJobsStayListed FinalAnswersStand
PROPERTIES KeepsThePromise EveryJobEnds
CHECK_DEADLOCK FALSE
