SPECIFICATION Spec
CONSTANTS
  Keys <- MixedKeys
  Fields = {0, 1}
  Vals = {0, 3}
  ScanLens = {0, 1, 2}
  MaxKvs = 1
  MaxOps = 1
  LLMax = 50
INVARIANTS
  ScanAllFields
  SeekSkipsNothing
