CONSTANTS
  Keys = {k1, k2}
  Capacity = 2
  MaxBackoff = 4
  MaxChanges = 3
  MaxFaults = 3
  None = None
  Torn = Torn
SPECIFICATION FairSpec
INVARIANTS TypeOK FileServed
PROPERTIES Rendered
CHECK_DEADLOCK FALSE
