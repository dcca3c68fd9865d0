SPECIFICATION FairSpec
CONSTANTS
  key_lock = key_lock
  music_lock = music_lock
  Locks <- MCLocks
  LockList <- MCLockList
  Tick = Tick
  QueueCap = 2
  TimerCap = 2
INVARIANTS HolderIsHeard AwakeIsTimed
PROPERTIES HolderIsServed SleepsInTheEnd
