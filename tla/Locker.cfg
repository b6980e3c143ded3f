\* Two clients, all delays, failures, crashes and one late command; TryAcquire
\* has time for a second round, and its backoff doubles.
SPECIFICATION FairSpec
CONSTANTS
  Clients = {c1, c2}
  Tokens = {t1, t2, t3}
  None = None
  TTLs = {2}
  Waits = {3}
  Backoff = 1
  BackoffCap = 2
  MaxLate = 1
INVARIANTS TypeOK Exclusive LeaseBacked
PROPERTIES LockSettles
