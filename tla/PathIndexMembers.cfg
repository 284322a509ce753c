SPECIFICATION Spec
CONSTANTS
  Insts = {r, a, b, c}
  Root = r
  Controls = {}
  NULL = NULL
  Names <- MCNames
  Rash = {}
INVARIANT MembersComplete
