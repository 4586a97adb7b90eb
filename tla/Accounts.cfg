\* Two requests in flight, two codes of two purposes, two attempts.
SPECIFICATION Spec
CONSTANTS
  Requests = {r1, r2}
  Passwords = {p1, p2}
  Weak = Weak
  Placeholder = Placeholder
  MaxAttempts = 2
  MaxCodes = 2
  None = None
SYMMETRY Symmetry
INVARIANTS
  TypeOK
  CodeUsedOnce
  NewestOnly
  LatestPassword
PROPERTIES ImplementsOneTimeCodes
\* Once the codes are used up a pending account has nothing left to do.
CHECK_DEADLOCK FALSE
