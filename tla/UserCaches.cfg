\* Two requests while two writes are committed.
CONSTANTS
  Requests = {r1, r2}
  MaxWrites = 2
  None = None
SPECIFICATION FairSpec
INVARIANTS TypeOK PageCoversBusts ProfileCoversBusts
PROPERTIES EventuallyFresh
CHECK_DEADLOCK FALSE
