\* A server that has used up its bounds on runs, changes and passes may stop.
SPECIFICATION MemorySpec
CONSTANTS
  Prompts = {p1, p2}
  None = None
  MaxNew = 4
  AgentCap = 2
  StopAt = 6
  CacheTokens = {1, 2}
  Modes = {"prefill", "generate"}
  AutoPrime = TRUE
  Runs = {r1, r2}
  Changers = {u1, u2}
  k1 = k1
  k2 = k2
  s1 = s1
  s2 = s2
  Keys = {k1, k2}
  Sessions = {s1, s2}
  Requests <- MCRequests
  ResponseMax = 1
  PrefixMax = 1
  MaxRuns = 2
  MaxChanges = 2
  MaxExpiries = 1
  Nothing = Nothing
  a1 = a1
  b1 = b1
  Weights = {a1, b1}
  WeightOrder <- MCOrder
  LayerOfWeight <- MCLayers
  WeightBytes <- MCBytes
  PinnedWeights = {b1}
  WeightMax = 1
  Decoders = {d1, d2}
  Workers = {w1}
  MaxCalls = 3
INVARIANTS
  TypeOK
  PrimedAnswersGreedy
  AnswersMoveForward
  ReusableMatchesState
  OrderMatchesTable
  OnlyAstrayIsStale
  AttentionCacheSound
SYMMETRY Symmetry
CHECK_DEADLOCK FALSE
