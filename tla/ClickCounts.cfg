SPECIFICATION Spec
CONSTANTS
  Codes = {c1, c2, n1}
  NumericCodes = {n1}
  Workers = {w1, w2}
  Deleters = {d1}
  MaxClicks = 3
  BatchSize = 2
  StreamMaxLen = 2
  Faults = {"db", "redis", "crash", "streamLoss", "misfit"}
  None = None
SYMMETRY Symmetry
INVARIANTS TypeOK StoredOnce AckedIsStored CountNeverAhead CountIsExact
PROPERTIES ImplementsLedger
CHECK_DEADLOCK FALSE
