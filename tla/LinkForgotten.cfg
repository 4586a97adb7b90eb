\* One code under every request failure and crash; the time to live runs.
SPECIFICATION FairSpec
CONSTANTS
  Codes = {c1}
  Users = {u1}
  Urls = {l1}
  Readers = {r1, r2}
  Creators = {k1}
  Deleters = {d1}
  Workers = {w1}
  MaxRetries = 2
  BatchSize = 2
  StreamMaxLen = 2
  Verdicts = {"safe", "unsafe", "skipped", "throws"}
  ReadBack <- PlainReadBack
  Faults = {"db", "redis", "crash"}
  None = None
PROPERTIES
  InactiveIsForgotten
INVARIANTS
  TypeOK
  CacheCoherent
  UnsafeNeverActive
