SPECIFICATION FairSpec
CONSTANTS
  wechat = wechat
  voice = voice
  story = story
  Recorders = {wechat, voice}
  Listeners = {voice}
  Players = {wechat, story}
  MaxCommands = 3
  Requests <- MCRequests
  CommandCap = 2
  StatusCap = 5
  MayBlock = FALSE
  MicFaults = FALSE
  None = None
INVARIANTS CodecHasOwner RecorderHasOwner RecordHandshake OneVerdict
PROPERTIES EveryCommandServed
CHECK_DEADLOCK FALSE
