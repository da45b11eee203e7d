SPECIFICATION Spec
CONSTANTS
  Versions = {1, 2}
  Yankers = {y1, y2}
  MaxClock = 4
  MaxEvents = 3
  None = None
SYMMETRY MCSymmetry
INVARIANTS
  OrderIsCausal
  LastEventIsTrue
PROPERTIES
  ListingKeepsOrder
  ImplementsCatalog
CHECK_DEADLOCK FALSE
