\* Two requests at a time of two callers; quarters of a second.
CONSTANTS
  Requests = {r1, r2}
  Callers = {"member", "guest"}
  NumPolicies = 2
  MaxRequests <- MCMaxRequests
  WindowSeconds <- MCWindowSeconds
  Dimensions <- MCDimensions
  Identity <- MCIdentity
  Half = 2
  None = None
SPECIFICATION FairSpec
INVARIANTS TypeOK LimitKept RetryAfterHolds HeadersTightest
PROPERTIES WindowsEnd
CHECK_DEADLOCK TRUE
