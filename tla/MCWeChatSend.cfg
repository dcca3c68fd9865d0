SPECIFICATION FairSpec
CONSTANTS
  QueueSize = 50
  UploadRoom = 5
  RetryLimit = 1
  MaxVoices = 3
  MaxMessages = 0
  MaxPresses = 2
  None = None
INVARIANTS RecordAnswerIsOwn
PROPERTIES RecordingEnds VoicesLeave
CHECK_DEADLOCK FALSE
