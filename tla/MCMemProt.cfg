SPECIFICATION Spec
CONSTANTS
  Thread = {t1}
  Page = {p1, p2}
  Prots <- AllProts
  Fixed = {p1, p2}
  Moved = {p1, p2}
  Shrunk = {p1}
  None = None
INVARIANTS DynarecMeansProtected UnmappedForgotten
