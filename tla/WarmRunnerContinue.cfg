SPECIFICATION Spec
CONSTANTS
  Prompts = {p1}
  None = None
  MaxNew = 4
  AgentCap = 2
  StopAt = 6
  CacheTokens = {2}
  Modes = {"prefill"}
  AutoPrime = FALSE
INVARIANT ContinuedAnswersGreedy
