SPECIFICATION FairSpec
CONSTANTS
  QueueSize = 2
  MaxEvents = 2
PROPERTIES Released
\* A device to which nobody speaks may rest.
CHECK_DEADLOCK FALSE
