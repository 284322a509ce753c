SPECIFICATION Spec
CONSTANTS
  Originals = {o1, o2}
  Aliases = {c1, c2}
  Conns = {k}
  Written = {1, 2}
  NULL = NULL
  Risks = {"share"}
  MaxQueue = 2
  MaxTaps = 2
INVARIANT TapsGrounded
