SPECIFICATION Spec
CONSTANTS
  Token = {0, 1, 2}
  Eos = {1}
  Prompts <- MCPrompts
  MaxNew = 4
  MaxRequests = 1
  MaxEntries = 1
  Requests <- MCNativeRequests
  NoToken = NoToken
  Argmax <- MCArgmax
  LayerCount = 3
  DenseLayers = {1}
  Experts = {1, 2}
  BaseBytes = 2
  PartBytes = 1
INVARIANT
  VerifiesAgainstCommitted
CHECK_DEADLOCK FALSE
