\* Two codes, two creates of two owners, a delete, a worker that takes batches;
\* every failure.
SPECIFICATION Spec
CONSTANTS
  Codes = {c1, c2}
  Users = {u1, u2}
  Urls = {l1}
  Readers = {}
  Creators = {k1, k2}
  Deleters = {d1}
  Workers = {w1}
  MaxRetries = 1
  BatchSize = 2
  StreamMaxLen = 1
  Verdicts = {"safe", "unsafe", "skipped", "throws"}
  ReadBack <- PlainReadBack
  Faults = {"db", "redis", "crash", "streamLoss"}
  None = None
SYMMETRY AllSymmetry
INVARIANTS
  IInv
  NewRowIsOwn
PROPERTIES
  ImplementsDirectory
