SPECIFICATION Spec
CONSTANTS
  t1 = t1
  t2 = t2
  g1 = g1
  g2 = g2
  Threads = {t1, t2}
  Mutexes = {g1, g2}
  normal = normal
  recursive = recursive
  Kinds = {normal, recursive}
  Recursive = {recursive}
  BlockSize = 2
  MaxBlocks = 2
  MaxDepth = 2
  MaxRaced = 0
  None = None
SYMMETRY Symmetries
INVARIANTS PoolSound NoSharedHost Excludes
CHECK_DEADLOCK FALSE
