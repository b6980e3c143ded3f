SPECIFICATION SdkFairSpec
CONSTANTS
  AccessExpiry = 4
  RefreshExpiry = 5
  Second = 2
  NoToken = NoToken
  Procs = {p1, p2}
  Margin = 2
  MaxDelay = 1
  MaxRetries = 1
  RetryWait = 1
  MaxWait = 1
  MaxTime = 5
  MaxCalls = 3
CHECK_DEADLOCK FALSE
INVARIANTS SdkTypeOK EnsuredAccepted EffectsExplained
PROPERTIES RequestReturns
