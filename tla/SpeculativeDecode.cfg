SPECIFICATION Spec
CONSTANTS
  Token = {0, 1, 2}
  Eos = {1}
  Prompts <- MCPrompts
  MaxNew = 4
  MaxRequests = 2
  MaxEntries = 1
  Requests <- MCRequests
  NoToken = NoToken
  Argmax <- MCArgmax
  LayerCount = 3
  DenseLayers = {1}
  Experts = {1, 2}
  BaseBytes = 2
  PartBytes = 1
INVARIANTS
  TypeOK
  AnswerIsGreedy
  CachesMatch
  NextTokenIsGreedy
  EndsAsItShould
  PagerSound
PROPERTIES
  RequestsEnd
  ImplementsGreedy
CHECK_DEADLOCK FALSE
