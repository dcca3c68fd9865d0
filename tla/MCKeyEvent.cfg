SPECIFICATION Spec
CONSTANTS
  wechat = wechat
  alarm = alarm
  Keys <- MCKeys
  Pat = pat
  MaskSets <- MCMaskSets
  QueueCap = 3
INVARIANTS MachineFollowsButton ReleaseIsTold WakeHasReason
