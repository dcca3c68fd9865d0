SPECIFICATION FairSpec
CONSTANTS
  QueueSize = 50
  UploadRoom = 5
  RetryLimit = 1
  MaxVoices = 0
  MaxMessages = 3
  MaxPresses = 2
  None = None
INVARIANTS PlayAnswerIsOwn DownloadAnswerIsOwn
PROPERTIES MessagesLeave
CHECK_DEADLOCK FALSE
