SPECIFICATION Spec
CONSTANTS
  Libs <- MCLibs
  Needs <- MCNeeds
  Native = {"n", "k"}
  Missing = {"m"}
  Main = "main"
  None = none
  MaxOpens = 2
  MaxDepth = 3
INVARIANTS ListsSound OpenIsLive
PROPERTIES DepsFirst FiniAfterInit ExitOrder InitRuns
CHECK_DEADLOCK FALSE
