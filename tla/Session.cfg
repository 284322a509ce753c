SPECIFICATION MCSpec
CONSTANTS
  Insts = {r, a, b, c, d}
  Root = r
  Controls = {d}
  NULL = NULL
  Names <- MCNames
  Rash = {}
  TrieKeys <- MCTrieKeys
  Values = {1, 2}
  MaxDepth = 3
  Originals = {o1, o2}
  Aliases = {c1, c2}
  Conns = {k}
  Written = {1, 2}
  Risks = {}
  MaxQueue = 2
  MaxTaps = 2
SYMMETRY SessionSymmetry
INVARIANTS NamesTrue ContainersTrue TrieExact TapsHeard ViewsTrue
PROPERTY MovesOne
