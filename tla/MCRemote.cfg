SPECIFICATION FairSpec
CONSTANTS
  wechat_task = wechat_task
  story_push_task = story_push_task
  Apps = {wechat_task, story_push_task}
  MaxSockets = 2
  QueueSize = 1
  MaxIncidents = 1
  None = None
INVARIANTS ConnectedIsOpen NoneLeaks
PROPERTIES Reconnects Heard Unblocked
CHECK_DEADLOCK FALSE
