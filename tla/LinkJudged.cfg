\* Two codes, no failures, a check that always answers.
SPECIFICATION FairSpec
CONSTANTS
  Codes = {c1, c2}
  Users = {u1}
  Urls = {l1}
  Readers = {r1}
  Creators = {k1}
  Deleters = {d1}
  Workers = {w1}
  MaxRetries = 2
  BatchSize = 2
  StreamMaxLen = 2
  Verdicts = {"safe", "unsafe"}
  ReadBack <- PlainReadBack
  Faults = {}
  None = None
PROPERTIES
  PublishedIsJudged
