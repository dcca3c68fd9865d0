SPECIFICATION Spec
CONSTANTS
  wechat = wechat
  voice = voice
  story = story
  Recorders = {wechat, voice}
  Listeners = {voice}
  Players = {wechat, story}
  MaxCommands = 3
  Requests <- MCPausingRequests
  CommandCap = 2
  StatusCap = 5
  MayBlock = TRUE
  MicFaults = TRUE
  None = None
INVARIANTS LastStartOwns PlaybackAlive
CHECK_DEADLOCK FALSE
