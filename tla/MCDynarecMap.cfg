SPECIFICATION Spec
CONSTANTS
  Dynablocks = {d1, d2}
  MarkSize = 2
  MapSize = 16
  HelperMax = 3
  Sizes = {1, 4, 6, 13}
  MaxMaps = 2
  OversizedAt = {0}
SYMMETRY Symmetry
INVARIANTS MapsSound NeverLocked LookupFinds
PROPERTIES ImplementsAllocator
