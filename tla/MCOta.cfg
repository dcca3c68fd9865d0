SPECIFICATION FairSpec
CONSTANTS
  Firmware = {v1, v2}
  Shipped = v1
  Scrap = Scrap
  None = None
  Missing = Missing
  Empty = Empty
  MaxPushes = 2
  MaxCuts = 2
  MaxFaults = 5
INVARIANTS Bootable InstallsBeside CheckedIsThere
PROPERTIES ImplementsDual ComesUp
CHECK_DEADLOCK FALSE
