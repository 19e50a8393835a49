SPECIFICATION FairSpec
CONSTANTS
  NPages = 7
  Lowest = 2
  Gran = 2
  Wrap = 32
  Limit = 6
  Sizes = {1, 2}
INVARIANTS Coarsest HeadStays
PROPERTIES ImplementsPages CallReturns NullMeansFull
