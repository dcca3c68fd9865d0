SPECIFICATION Spec
CONSTANTS
  story = story
  alarm = alarm
  Recorders = {}
  Listeners = {}
  Players = {story, alarm}
  MaxCommands = 4
  Requests <- MCRequests
  CommandCap = 3
  StatusCap = 5
  MayBlock = FALSE
  MicFaults = FALSE
  None = None
INVARIANTS Ownership PowerFollowsPlayback OneVerdict StopHonoured
PROPERTIES ImplementsFocus
CHECK_DEADLOCK FALSE
