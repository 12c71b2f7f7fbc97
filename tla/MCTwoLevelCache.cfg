SPECIFICATION Spec
CONSTANTS
  k1 = k1
  k2 = k2
  p1 = p1
  p2 = p2
  c1 = c1
  c2 = c2
  Keys = {k1, k2}
  Processes = {p1, p2}
  Callers = {c1, c2}
  None = None
  Capacity = 1
  Patterns <- MCPatterns
  L1TTL = 1
  Lifetimes <- MCLifetimes
  MaxTime = 2
  MaxVersion = 1
SYMMETRY Symmetry
INVARIANTS LruIsOrderedDict AgeBounded FreshAfterDelete OneLoaderPerKey
CHECK_DEADLOCK FALSE
