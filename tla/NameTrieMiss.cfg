SPECIFICATION Spec
CONSTANTS
  Keys <- MCKeys
  Strings <- MCStrings
  Values = {1, 2}
  MaxDepth = 3
INVARIANT MissesReported
