\* Two accounts of one store and one of another; two requests at a time.
SPECIFICATION Spec
CONSTANTS
  a1 = a1
  a2 = a2
  b1 = b1
  s1 = s1
  s2 = s2
  Users = {a1, a2, b1}
  Home <- MCHome
  Emails = {e1, e2}
  Passwords = {p1, p2}
  Requests = {r1, r2}
  MaxCodes = 1
SYMMETRY Interchangeable
INVARIANTS
  ResellerCanSignIn
PROPERTIES
  StoreKeepsReseller
  PasswordChangeKnows
\* Every account may have been removed.
CHECK_DEADLOCK FALSE
