\* A second job under an id in use.
SPECIFICATION CronSpec
CONSTANTS
  Kinds = {"known"}
  MaxEntries = 2
  JobIds = {i1, i2}
  NoEntry = NoEntry
  MaxJobs = 2
  MaxRuns = 2
  MaxSends = 2
  ReuseIds = TRUE
CHECK_DEADLOCK FALSE
INVARIANTS RemoveUnregisters
