SPECIFICATION Spec
CONSTANTS
  Keys <- StoreKeys
  Fields = {0, 1}
  Vals = {0, 3}
  ScanLens = {3}
  MaxKvs = 2
  MaxOps = 1
  LLMax = 50
PROPERTIES
  StollThrows
  StoreSpec
