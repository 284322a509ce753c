SPECIFICATION Spec
CONSTANTS
  Insts = {r, a, b}
  Root = r
  Controls = {}
  NULL = NULL
  Names <- MCNestedNames
  Rash = {}
INVARIANT Addressable
