\* Three rows, one more than the recent clicks shown, of two groups, one more than the
\* list shows; requests one after another for a range the code does not know.  The
\* clock moves by more than a week: clicks before a tick are outside a window after it.
CONSTANTS
  Requests = {r1}
  Ranges = {"90d"}
  Groups = {g1, g2}
  Day = 0
  Week = 0
  Month = 1
  TopLimit = 1
  RecentLimit = 2
  MaxTime = 1
  MaxClicks = 3
  None = None
SPECIFICATION FairSpec
INVARIANTS TypeOK AnswersAgree
PROPERTIES EventuallyCounted
CHECK_DEADLOCK FALSE
