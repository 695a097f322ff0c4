SPECIFICATION Spec
CONSTANTS
  Prompts = {p1, p2}
  None = None
  MaxNew = 4
  AgentCap = 2
  StopAt = 6
  CacheTokens = {0, 2}
  Modes = {"prefill"}
  AutoPrime = FALSE
INVARIANT PrimedAnswersGreedy
