SPECIFICATION FairSpec
CONSTANTS
  Thread = {t1}
  Page = {p1, p2}
  Prots <- WritableCode
  Fixed = {}
  Moved = {}
  Shrunk = {}
  None = None
INVARIANTS CleanIsFresh LegalStoreRecovered
PROPERTY StoreSettles
