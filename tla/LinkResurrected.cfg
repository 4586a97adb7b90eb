\* An owner deletes a link whose check is still on the stream.
SPECIFICATION Spec
CONSTANTS
  Codes = {c1}
  Users = {u1}
  Urls = {l1}
  Readers = {}
  Creators = {k1}
  Deleters = {d1}
  Workers = {w1}
  MaxRetries = 2
  BatchSize = 2
  StreamMaxLen = 2
  Verdicts = {"safe", "unsafe"}
  ReadBack <- PlainReadBack
  Faults = {}
  None = None
INVARIANTS
  DeletedStaysInactive
