SPECIFICATION Spec
CONSTANTS
  QueueSize = 50
  UploadRoom = 5
  RetryLimit = 1
  MaxVoices = 2
  MaxMessages = 0
  MaxPresses = 2
  None = None
INVARIANTS UploadAnswerIsOwn
CHECK_DEADLOCK FALSE
