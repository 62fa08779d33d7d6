SPECIFICATION Spec
CONSTANTS
  Callers = {api, scheduler}
  Scheduler = scheduler
  NoCaller = NoCaller
  MaxAttempts = 2
  MaxFaults = 0
  MaxForced = 0
  MaxWarrants = 3
  Versions = 2
INVARIANT DeliveredIsCurrent
CHECK_DEADLOCK FALSE
