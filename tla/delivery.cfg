SPECIFICATION FairSpec
CONSTANTS
  Callers = {api, scheduler}
  Scheduler = scheduler
  NoCaller = NoCaller
  MaxAttempts = 2
  MaxFaults = 1
  MaxForced = 1
  MaxWarrants = 3
  Versions = 2
INVARIANTS TypeOK OneDelivery MintsHaveCauses
PROPERTY PendingIsRetried
CHECK_DEADLOCK FALSE
