\* One order number asked for by three overlapping callers, one disable,
\* three retries as in the code, a backup domain and two restarts.
SPECIFICATION FairSpec
CONSTANTS
  Recharges = {o1}
  Disables = {d1}
  Callers = {c1, c2, c3}
  MaxRetries = 3
  HasBackup = TRUE
  MaxRestarts = 2
INVARIANTS
  SingleAttempt
  GrantedOnce
  SuccessMeansGranted
  NoRetryForgotten
PROPERTIES
  EveryRowSettles
  LedgerSpec
\* Every row may be settled and every caller done.
CHECK_DEADLOCK FALSE
