SPECIFICATION FairSpec
CONSTANTS
  Codes = {c1, c2, n1}
  NumericCodes = {n1}
  Workers = {w1, w2}
  Deleters = {}
  MaxClicks = 4
  BatchSize = 2
  StreamMaxLen = 4
  Faults = {}
  None = None
PROPERTY TrackedIsCounted
CHECK_DEADLOCK FALSE
