SPECIFICATION LoadSpec
CONSTANTS
  norm = norm
  attn = attn
  late = late
  e00 = e00
  e01 = e01
  e10 = e10
  Threads = {t1, t2}
  Tensors <- MCTensors
  Size <- MCSize
  Layer <- MCLayer
  Expert <- MCExpert
  Pinned <- MCPinned
  Policies <- MCPolicies
  Batches <- MCBatches
  p1 = p1
  p2 = p2
  p3 = p3
  Packs = {p1, p2, p3}
  PackBytes <- MCPackBytes
  AlwaysKept = {p1}
  Budgets = {1, 2}
  Loaders = {l1, l2}
  MaxLoads = 6
  n1 = n1
  n2 = n2
  WeightNames = {n1, n2}
  Quantized = {n2}
  Packable = {n1}
  BaseOf <- MCBases
  OffsetOf <- MCOffsets
  MaxJobs = 2
  MaxPulls = 2
  NoArtifact = NoArtifact
  HalfWritten = HalfWritten
  Unknown = Unknown
INVARIANTS
  TypesOK
  TotalsExact
  PackedCacheSound
  LoadsSound
PROPERTIES
  EvictionsFollowPolicy
SYMMETRY ThreadSymmetry
CHECK_DEADLOCK FALSE
