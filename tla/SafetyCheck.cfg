\* Two calls at a time; two months of two days, a quota of one call.
CONSTANTS
  Requests = {r1, r2}
  Urls = {page, wiki, home}
  Trusted = {wiki}
  Local = {home}
  Domains = {d1}
  HasApiKey = TRUE
  MonthlyQuota = 1
  MonthDays = 2
  QuotaDays = 2
  MaxMonth = 2
  None = None
SPECIFICATION FairSpec
INVARIANTS TypeOK QuotaKept CachedIsNewest
PROPERTIES EventuallyCurrent
