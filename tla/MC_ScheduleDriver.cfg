SPECIFICATION Spec
CONSTANTS
  once = once
  counted = counted
  until = until
  daily = daily
  Schedules = {counted, until}
  Reg <- MCReg
  MaxAttempts = 2
  RetryDelay <- MCRetryDelay
  RetryMax = 2
  MaxGap = 2
  MaxLeft = 2
  Runs = {1, 2, 3}
  BatchSize = 1
  Concurrency = 2
  CleanupBatch = 1
  Quota = 2
  Recovery = 2
INVARIANTS
  AlarmCoversAll
  CapabilitiesFollowRows
  AttemptsAreTrue
  OccurrencesAreBounded
PROPERTIES
  NoStaleDelivery
