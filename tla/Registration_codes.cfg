\* Two accounts, two addresses, two documents; two requests at a time.
SPECIFICATION FairSpec
CONSTANTS
  Rows = {u1, u2}
  Emails = {e1, e2}
  Documents = {d1, d2}
  Requests = {r1, r2}
  MaxCodes = 2
PROPERTIES
  VerifiedNotCleaned
  VerifiedByOwnCode
  RegistrationSettles
\* Every account may have been created and deleted, every code used.
CHECK_DEADLOCK FALSE
