SPECIFICATION HotSpec
CONSTANTS
  NSlots = 2
  Step = 2
  LowPage = 2
  MaxPage = 6
  MaxAdds = 4
INVARIANTS OnlyAddedPages CounterNotAbove
PROPERTY CoolsDown
