SPECIFICATION Spec
CONSTANTS
  Thread = {t1, t2}
  Addr = {1}
  Page = {1}
  Content = {c1, c2}
  Block = {b1, b2}
  NoThread = NoThread
  NoBlock = NoBlock
  FirstPage <- MCFirstPage
  PagesOf <- MCPagesOf
  SonsOf <- MCSonsOf
  Entry = {1}
  NoDynarec = {}
  Unmapped = {}
INVARIANTS
  ProtectedIsSafe
SYMMETRY ThreadsAndCells
