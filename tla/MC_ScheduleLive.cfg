SPECIFICATION FairSpec
CONSTANTS
  once = once
  counted = counted
  until = until
  daily = daily
  Schedules = {once, daily}
  Reg <- MCReg
  MaxAttempts = 2
  RetryDelay <- MCRetryDelay
  RetryMax = 1
  MaxGap = 1
  MaxLeft = 1
  Runs = {1, 2}
  BatchSize = 2
  Concurrency = 1
  CleanupBatch = 1
  Quota = 2
  Recovery = 1
PROPERTIES
  DueIsBegun
  RunIsSettled
  RevokedIsCleaned
