SPECIFICATION Spec
CONSTANTS
  Runs = {r1, r2}
  LayerCount = 2
  MaxAppend = 2
  MaxPrompt = 3
  MaxNew = 3
  None = None
INVARIANTS TypeOK PythonKvExact CalmNativeKvExact PrefixAligned
SYMMETRY RunSymmetry
CHECK_DEADLOCK FALSE
