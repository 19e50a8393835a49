SPECIFICATION Spec
CONSTANTS
  Thread = {t1}
  Addr = {1, 2, 3}
  Page = {1, 2}
  Content = {c1, c2}
  Block = {b1, b2, b3, b4}
  NoThread = NoThread
  NoBlock = NoBlock
  FirstPage <- MCFirstPage
  PagesOf <- MCPagesOf
  SonsOf <- MCSonsOf
  Entry = {1, 2, 3}
  NoDynarec = {3}
  Unmapped = {1}
INVARIANTS
  TypeOK
  CleanMatchesMemory
  UnprotectedAllMarked
  JumpTableClean
  DirectAlive
SYMMETRY Cells
